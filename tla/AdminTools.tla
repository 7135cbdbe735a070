----------------------------- MODULE AdminTools -----------------------------
(***************************************************************************)
(* Three scripts an administrator thins the catalog with:                  *)
(* bacula_del_jobs.py deletes the volumes its rules select, file and       *)
(* entry; bacula_del_catalog_jobids.py deletes jobs from the catalog;      *)
(* bacula_del_scatter.py prunes full backups that follow one another too   *)
(* closely.  Each reads the catalog once and then works through a list,    *)
(* one bconsole command at a time.                                         *)
(*                                                                         *)
(* The catalog holds one backup per volume, in the order of their          *)
(* jobtdate; a volume and its job share a number.                          *)
(***************************************************************************)
EXTENDS Integers, FiniteSets, Sequences

CONSTANTS
  Name,        \* The names of jobs; a client and a file set go with each.
  Storage,
  Histories,   \* The catalogs to start with: sequences of backups.
  Rules,       \* Configurations of bacula_del_jobs.
  NameRule,    \* The names that a directive on jobs selects, by directive.
  StorageRule, \* DEL_STORAGE_NAMES.
  AgeRule,     \* The days that DEL_NEWER and DEL_OLDER select.
  Unconfigured, \* Storages for which no ArchiveDevice is found.
  Query,       \* The names bacula_del_catalog_jobids' QUERY selects.
  ScatterJob,  \* bacula_del_scatter's JOB_NAME.
  NoPlace,     \* The path None.
  Movable,     \* Storages that are unmounted now and then.
  ToolFaults   \* "crash": a script is killed, or dies of a pexpect.TIMEOUT.

NameDirective == {"DEL_CLIENTS", "DEL_FILESETS", "DEL_NOT_FILESETS", "DEL_JOB_NAMES"}
Directive == NameDirective \cup {"DEL_STORAGE_NAMES", "DEL_NEWER", "DEL_OLDER"}

\* pool: the level the volume's name hints at.
Backup == [name : Name, storage : Storage, level : {"F", "I"}, pool : {"f", "i"}, day : Nat]

\* set: the directives that are in force; blank: those that are ("",), which are
\* no condition and still count as a rule; catalog: DEL_STORAGE_NAMES_CATALOG;
\* default: the storage whose directory --default_storage names, if any; force:
\* --force_del_catalog.
Rule == [operator : {"and", "or"}, set : SUBSET Directive, blank : SUBSET Directive,
         catalog : SUBSET Storage, default : SUBSET Storage,
         force : BOOLEAN, dry : BOOLEAN]

ASSUME AdminToolsAssumption ==
  /\ Histories \subseteq Seq(Backup)
  /\ \A h \in Histories : \A i, k \in 1..Len(h) : i <= k => h[i].day <= h[k].day
  /\ Rules \subseteq Rule
  /\ NameRule \in [NameDirective -> SUBSET Name]
  /\ StorageRule \subseteq Storage
  /\ AgeRule \in [{"DEL_NEWER", "DEL_OLDER"} -> SUBSET Nat]
  /\ Unconfigured \subseteq Storage
  /\ NoPlace \notin Storage
  /\ Query \subseteq Name
  /\ ScatterJob \in Name
  /\ Movable \subseteq Storage
  /\ ToolFaults \subseteq {"crash"}

VARIABLES
  hist,    \* The backups that were made; never changes.
  rule,    \* The configuration of bacula_del_jobs; never changes.
  jobs,    \* The backups whose job is in the catalog.
  media,   \* volstatus; "none" when the catalog has no such volume.
  disk,    \* The volumes whose file is on its storage.
  up,      \* The storages that are mounted.
  tool,    \* The script at work, and where it is.
  list,    \* What it has still to treat: pairs of a volume and the storage in
           \* whose directory it looks for the file.
  located, \* The rows bacula_del_jobs has found a path for.
  cur      \* The volume whose file bacula_del_jobs has just removed.

toolVars == <<hist, rule, jobs, media, disk, up, tool, list, located, cur>>

Vol == 1..Len(hist)
NoVol == 0
Tool == {"idle", "resolve", "deljobs", "delvol", "jobids", "scatter"}

ToolsTypeOK ==
  /\ hist \in Seq(Backup)
  /\ rule \in Rule
  /\ jobs \subseteq Vol
  /\ media \in [Vol -> {"none", "Used", "Purged"}]
  /\ disk \subseteq Vol
  /\ up \subseteq Storage
  /\ tool \in Tool
  /\ cur \in Vol \cup {NoVol}
  /\ list \subseteq Vol \X (Storage \cup {NoPlace})
  /\ located \subseteq Vol \X (Storage \cup {NoPlace})

ToolsInit ==
  /\ hist \in Histories
  /\ rule \in Rules
  /\ jobs = Vol
  /\ media = [v \in Vol |-> "Used"]
  /\ disk = Vol
  /\ up = Storage
  /\ tool = "idle"
  /\ list = {}
  /\ located = {}
  /\ cur = NoVol

vs == <<hist, rule, jobs, media, disk, up>>

-----------------------------------------------------------------------------
(***************************************************************************)
(* bacula_del_jobs.py                                                      *)
(***************************************************************************)
\* One condition of the WHERE clause on a job and a storage.
Meets(d, j, s) ==
  CASE d = "DEL_NOT_FILESETS" -> hist[j].name \notin NameRule[d]
    [] d \in NameDirective \ {"DEL_NOT_FILESETS"} -> hist[j].name \in NameRule[d]
    [] d = "DEL_STORAGE_NAMES" -> s \in StorageRule
    [] d \in {"DEL_NEWER", "DEL_OLDER"} -> hist[j].day \in AgeRule[d]

Known == {v \in Vol : media[v] # "none"}
JoinedLoosely(j, v, s) == s = hist[v].storage  \* Variant: no j.jobid=jm.jobid.
\* What the joins before the conditions ask of a job, a volume and a storage.
Joined(j, v, s) == j = v /\ s = hist[v].storage

\* AND binds stronger than OR: with OR the joins are one alternative, and each
\* condition is another.
Where(j, v, s) ==
  IF rule.operator = "or"
  THEN Joined(j, v, s) \/ \E d \in rule.set : Meets(d, j, s)
  ELSE Joined(j, v, s) /\ \A d \in rule.set : Meets(d, j, s)

\* The test for an empty configuration looks at four directives only, and a
\* blank one passes it.
Directives == {"DEL_CLIENTS", "DEL_JOB_NAMES", "DEL_STORAGE_NAMES", "DEL_NEWER"}
NoRule == Directives \cap (rule.set \cup rule.blank) = {}

DelJobsSelect ==
  /\ tool = "idle"
  /\ ~ NoRule
  /\ list' = {r \in Known \X Storage : \E j \in jobs : Where(j, r[1], r[2])}
  /\ tool' = "resolve"
  /\ UNCHANGED <<vs, located, cur>>

\* Variant: a path is made up where the configuration has none.
build_volpath_any(s) == TRUE
\* build_volpath finds the directory of a storage that is configured, and says so
\* if it is not on the root file system or on the catalog's list.
build_volpath(s) == s \notin Unconfigured /\ (s \in up \/ s \in rule.catalog)

\* Where no path is found the row is skipped unless an option says otherwise.
Instead(v) ==
  IF rule.default # {} THEN {v} \X rule.default
  ELSE IF rule.force THEN {<<v, NoPlace>>} ELSE {}

\* A row's path is looked up three times, and its storage may be unmounted
\* before the last one.
DelJobsResolve(r) ==
  /\ tool = "resolve" /\ r \in list
  /\ list' = list \ {r}
  /\ \/ build_volpath(r[2]) /\ located' = located \cup {r}
     \/ build_volpath(r[2]) /\ r[2] \in Movable \ rule.catalog
        /\ located' = located \cup {<<r[1], NoPlace>>}
     \/ ~ build_volpath(r[2]) /\ located' = located \cup Instead(r[1])
  /\ UNCHANGED <<vs, tool, cur>>

DelJobsBegin ==
  /\ tool = "resolve" /\ list = {}
  /\ tool' = "deljobs" /\ list' = located /\ located' = {}
  /\ UNCHANGED <<vs, cur>>

Stop == tool' = "idle" /\ list' = {} /\ located' = {} /\ cur' = NoVol

\* os.path.basename(None) raises, dry run or not.  A file that is not found
\* counts as deleted already.
DelJobsRemove(r) ==
  /\ tool = "deljobs" /\ r \in list
  /\ IF r[2] = NoPlace THEN Stop /\ disk' = disk
     ELSE IF rule.dry THEN list' = list \ {r} /\ UNCHANGED <<disk, tool, located, cur>>
     ELSE /\ disk' = IF r[2] = hist[r[1]].storage /\ r[2] \in up THEN disk \ {r[1]} ELSE disk
          /\ list' = list \ {r}
          /\ tool' = "delvol" /\ cur' = r[1] /\ located' = located
  /\ UNCHANGED <<hist, rule, jobs, media, up>>

\* delete volume=... yes, which takes the volume's jobs along.
DelJobsDelete ==
  /\ tool = "delvol"
  /\ media' = [media EXCEPT ![cur] = "none"]
  /\ jobs' = jobs \ {cur}
  /\ tool' = "deljobs" /\ cur' = NoVol
  /\ UNCHANGED <<hist, rule, disk, up, list, located>>

(***************************************************************************)
(* bacula_del_catalog_jobids.py                                            *)
(***************************************************************************)
JobidsSelect ==
  /\ tool = "idle"
  /\ list' = {v \in jobs : hist[v].name \in Query} \X {NoPlace}
  /\ tool' = "jobids"
  /\ UNCHANGED <<vs, located, cur>>

del_from_catalog(r) ==
  /\ tool = "jobids" /\ r \in list
  /\ jobs' = IF rule.dry THEN jobs ELSE jobs \ {r[1]}
  /\ list' = list \ {r}
  /\ UNCHANGED <<hist, rule, media, disk, up, tool, located, cur>>

(***************************************************************************)
(* bacula_del_scatter.py.  Its -dry changes nothing; DRY_RUN does.         *)
(***************************************************************************)
\* The rows of the query: fulls only, so that the incrementals between two of
\* them are not seen.
Fulls ==
  {v \in jobs : hist[v].level = "F" /\ hist[v].name = ScatterJob /\ media[v] = "Used"}

\* The fulls whose next one is of the same level by the volume's name.
CullAll == Fulls  \* Variant: the last one as well.
Cull ==
  {v \in Fulls : \E w \in Fulls : /\ v < w /\ ~ \E x \in Fulls : v < x /\ x < w
                                 /\ hist[w].pool = hist[v].pool}

Index(v, S) == Cardinality({w \in S : w < v})
CeilDiv(n, m) == (n + m - 1) \div m

\* Days between the first and the last of S, in units of 24, rounded up.
Num(S) ==
  LET first == CHOOSE v \in S : Index(v, S) = 0
      last == CHOOSE v \in S : \A w \in S : w <= v
  IN  CeilDiv(hist[last].day - hist[first].day, 24)

\* Variant: counted from one.
evenspread_one(S, num) ==
  {v \in S : \E i \in 1..num : Index(v, S) = CeilDiv(i * Cardinality(S), num)}
evenspread(S, num) ==
  {v \in S : \E i \in 0..num - 1 : Index(v, S) = CeilDiv(i * Cardinality(S), num)}

\* An empty list and one shorter than num raise an IndexError.
ScatterSelect ==
  /\ tool = "idle"
  /\ Cull # {}
  /\ Num(Cull) <= Cardinality(Cull)
  /\ list' = (Cull \ evenspread(Cull, Num(Cull))) \X {NoPlace}
  /\ tool' = "scatter"
  /\ UNCHANGED <<vs, located, cur>>

PruneRecycled(v) == media' = [media EXCEPT ![v] = "Recycle"] /\ jobs' = jobs \ {v}  \* Variant
Prune(v) == media' = [media EXCEPT ![v] = "Purged"] /\ jobs' = jobs \ {v}

\* prune volume=..., with a retention of one second.  Nobody waits for bconsole
\* after the last answer: it may be gone before it has pruned.
ScatterPrune(r) ==
  /\ tool = "scatter" /\ r \in list
  /\ \A q \in list : r[1] <= q[1]
  /\ list' = list \ {r}
  /\ UNCHANGED <<jobs, media>> \/ (~ rule.dry /\ Prune(r[1]))
  /\ UNCHANGED <<hist, rule, disk, up, tool, located, cur>>

-----------------------------------------------------------------------------
Finish == tool \in {"deljobs", "jobids", "scatter"} /\ list = {} /\ Stop /\ UNCHANGED vs

Crash ==
  /\ "crash" \in ToolFaults
  /\ tool # "idle"
  /\ Stop
  /\ UNCHANGED vs

Remount(s) ==
  /\ up' = IF s \in up THEN up \ {s} ELSE up \cup {s}
  /\ UNCHANGED <<hist, rule, jobs, media, disk, tool, list, located, cur>>

ToolsNext ==
  \/ DelJobsSelect \/ DelJobsBegin \/ DelJobsDelete
  \/ JobidsSelect \/ ScatterSelect
  \/ \E r \in list :
       DelJobsResolve(r) \/ DelJobsRemove(r) \/ del_from_catalog(r) \/ ScatterPrune(r)
  \/ Finish \/ Crash
  \/ \E s \in Movable : Remount(s)

ToolsSpec == ToolsInit /\ [][ToolsNext]_toolVars

-----------------------------------------------------------------------------
(***************************************************************************)
(* Properties.                                                             *)
(***************************************************************************)
\* "that is match all filters or one of them" (bacula_del_jobs_conf.py:35).
Selected(v) ==
  LET Meets1(d) == Meets(d, v, hist[v].storage)
  IN  IF rule.operator = "or" THEN \E d \in rule.set : Meets1(d)
                              ELSE \A d \in rule.set : Meets1(d)

\* "Delete volumes that match the storage name or the job names" (l.8): whatever
\* the scripts do after one another and wherever they end, a file or an entry
\* goes only where the rules, all of them or one of them, select that backup.
\* Blank directives are no filter: all of none select everything.
OnlySelectedDeleted ==
  \A v \in Vol : v \notin disk \/ media[v] = "none" => Selected(v) /\ ~ rule.dry

\* An entry goes with its file: one whose file is still there was on a storage
\* that is unmounted at times, or in another directory than --default_storage;
\* where the configuration has no path the entry stays ("Neither deleting file
\* nor catalog", l.229) unless that option names a directory.
EntryGoesWithFile ==
  \A v \in Vol : media[v] = "none" =>
    /\ v \in disk => hist[v].storage \in Movable \cup Unconfigured
    /\ hist[v].storage \in Unconfigured => rule.default # {}

\* "Delete jobs matching the storage name. Don't delete the volume file"
\* (bacula_del_jobs_conf.py:26, of DEL_STORAGE_NAMES_CATALOG).
CatalogOnlyKeepsFile == \A v \in Vol : hist[v].storage \in rule.catalog => v \in disk

\* A full is only pruned while a later one of its job and pool is whole: in use,
\* its job in the catalog, and not itself about to be pruned.  Other scripts
\* may have deleted fulls since the list before was made, and prunes got lost.
Follower(w, v) ==
  /\ v < w /\ w \in jobs /\ media[w] = "Used"
  /\ hist[w].level = "F" /\ hist[w].name = ScatterJob /\ hist[w].pool = hist[v].pool
  /\ \A r \in list : r[1] # w
FollowerKept ==
  [][\A v \in Vol : media'[v] = "Purged" /\ media[v] # "Purged" =>
       \E w \in Vol : Follower(w, v)]_toolVars

\* "The even spread function favors older backups" (l.18): what it keeps begins
\* with the oldest, is as much as asked for, and leaves no longer gap than that
\* many evenly spread ones must.
EvenlySpread ==
  LET num == Num(Cull)
      kept == evenspread(Cull, num)
  IN  (Cull # {} /\ num \in 1..Cardinality(Cull)) =>
        /\ Cardinality(kept) = num
        /\ \A v \in Cull : \E k \in kept :
             /\ k <= v
             /\ Index(v, Cull) - Index(k, Cull) < CeilDiv(Cardinality(Cull), num)
=============================================================================
