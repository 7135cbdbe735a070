--------------------------- MODULE DelPurgedVols ---------------------------
(***************************************************************************)
(* bacula_del_purged_vols.py: reclaim the disk space of Purged volumes     *)
(* without breaking a backup chain.  A run reads the catalog with two      *)
(* SELECTs, looks at the file of every Purged volume and sorts it by the   *)
(* level `bls` reports, decides for each level which volumes may go, and   *)
(* then removes them one by one: first the file, then the catalog entry.   *)
(*                                                                         *)
(* Runs are started by cron and by hand, and nothing stops two of them     *)
(* from overlapping: Runner is the set of runs that may be in progress at  *)
(* once.  Backups and purges go on during a run.                           *)
(***************************************************************************)
EXTENDS BackupStore

CONSTANTS
  Runner,      \* The script's concurrent runs.
  DryRuns,     \* The values of -dry the runs are started with.
  Remote,      \* Streams whose storage daemon is on another host.
  Offsite,     \* Streams that are copies on a storage listed in OFFSITE_MT.
  PoolHint,    \* The level a copy's pool name hints at, by the copy's level.
  DelNoMeta    \* DEL_VOLS_WITH_NO_METADATA.

ASSUME RunnerAssumption ==
  /\ DryRuns \subseteq BOOLEAN
  /\ Remote \subseteq Stream
  /\ Offsite \subseteq Stream
  /\ PoolHint \in [Level -> Level \cup {"none"}]
  /\ DelNoMeta \in BOOLEAN

NoVol == 0

VARIABLES
  pc,         \* Where a run is.
  dry,        \* Its DRY_RUN.
  unpurged,   \* unpurged_backups: what the first SELECT found not Purged.
  todo,       \* purged_vols: what the second SELECT found, not yet sorted.
  lists,      \* full_purged, diff_purged, inc_purged; after the decision, the
              \* part of each that is in remove_backup.
  cur         \* The volume whose file was just removed, or was missing.

runVars == <<pc, dry, unpurged, todo, lists, cur>>
vars == <<storeVars, runVars>>

PC == {"idle", "selected", "sort", "sortcat", "delete", "delcat"}
NoLists == [l \in Level |-> {}]

TypeOK ==
  /\ StoreTypeOK
  /\ pc \in [Runner -> PC]
  /\ dry \in [Runner -> BOOLEAN]
  /\ unpurged \in [Runner -> SUBSET Vol]
  /\ todo \in [Runner -> SUBSET Vol]
  /\ lists \in [Runner -> [Level -> SUBSET Vol]]
  /\ cur \in [Runner -> Vol \cup {NoVol}]

Init ==
  /\ StoreInit
  /\ pc = [r \in Runner |-> "idle"]
  /\ dry = [r \in Runner |-> FALSE]
  /\ unpurged = [r \in Runner |-> {}]
  /\ todo = [r \in Runner |-> {}]
  /\ lists = [r \in Runner |-> NoLists]
  /\ cur = [r \in Runner |-> NoVol]

-----------------------------------------------------------------------------
(***************************************************************************)
(* The deletion rules.  S is unpurged_backups, v a Purged volume.  The     *)
(* catalog rows are compared by the jobtdate, v by the date in its file.   *)
(***************************************************************************)
OfStream(S, v, levels) ==
  {x \in S : job[x].level \in levels /\ job[x].stream = job[v].stream}
Newer(S, v, levels) == {x \in OfStream(S, v, levels) : jobtdate(x) > written(v)}
Older(S, v, levels) == {x \in OfStream(S, v, levels) : jobtdate(x) < written(v)}

BeforeAll(x, S) == \A n \in S : jobtdate(x) < jobtdate(n)
AfterAll(x, S) == \A o \in S : jobtdate(x) > jobtdate(o)

\* The unpurged backups that hang on a full or a diff: incrementals before the
\* next full or diff, diffs before the next full.
inc_backups(S, v) == {x \in Newer(S, v, {"I"}) : BeforeAll(x, Newer(S, v, {"F", "D"}))}
NoBackups(S, v) == {}  \* Variant of diff_backups: diffs are forgotten.
diff_backups(S, v) == {x \in Newer(S, v, {"D"}) : BeforeAll(x, Newer(S, v, {"F"}))}

\* The unpurged incrementals between the fulls or diffs around an incremental.
chained_inc_backups(S, v) ==
  {x \in OfStream(S, v, {"I"}) : /\ BeforeAll(x, Newer(S, v, {"F", "D"}))
                                 /\ AfterAll(x, Older(S, v, {"F", "D"}))}

\* Unpurged fulls and diffs that must be there before another one may go.
OneLess == 2  \* Variant of KeepFulls.
KeepFulls == 3
OneDiff == 1  \* Variant of KeepDiffs.
KeepDiffs == 2

\* Variant: the newest full is not spared.
DeletableFullAny(S, v) ==
  /\ inc_backups(S, v) = {}
  /\ diff_backups(S, v) = {}
  /\ Cardinality(OfStream(S, v, {"F"})) >= KeepFulls

DeletableFull(S, v) ==
  /\ Newer(S, v, {"F"}) # {}
  /\ inc_backups(S, v) = {}
  /\ diff_backups(S, v) = {}
  /\ Cardinality(OfStream(S, v, {"F"})) >= KeepFulls

\* Variant: only the incrementals that follow are looked at.
DeletableIncAfter(S, v) == inc_backups(S, v) = {}
DeletableInc(S, v) == chained_inc_backups(S, v) = {}

DeletableDiff(S, v) ==
  /\ Newer(S, v, {"F", "D"}) # {}
  /\ inc_backups(S, v) = {}
  /\ Cardinality(OfStream(S, v, {"D"})) >= KeepDiffs

Deletable(S, l, v) ==
  /\ l = "F" => DeletableFull(S, v)
  /\ l = "I" => DeletableInc(S, v)
  /\ l = "D" => DeletableDiff(S, v)

(***************************************************************************)
(* The level a run files a volume under.  `bls` reports the job's level,   *)
(* but "I" for every copy; a copy's pool name may say better.              *)
(***************************************************************************)
SeenLevelNoHint(v) ==  \* Variant: the pool's name is not looked at.
  IF job[v].stream \notin Offsite THEN job[v].level ELSE "I"
SeenLevel(v) ==
  LET l == job[v].level IN
  IF job[v].stream \notin Offsite THEN l
  ELSE IF PoolHint[l] # "none" THEN PoolHint[l] ELSE "I"

-----------------------------------------------------------------------------
(***************************************************************************)
(* One run.                                                                *)
(***************************************************************************)
\* The first SELECT, less the Purged volumes, and the second.
AllVolumes == Used \cup Purged  \* Variant of both: volstatus is not looked at.
unpurged_backups == Used
purged_vols == Purged

SelectVolumes(r, d) ==
  /\ pc[r] = "idle"
  /\ pc' = [pc EXCEPT ![r] = "selected"]
  /\ dry' = [dry EXCEPT ![r] = d]
  /\ unpurged' = [unpurged EXCEPT ![r] = unpurged_backups]
  /\ UNCHANGED <<storeVars, todo, lists, cur>>

\* The second SELECT, a statement with a snapshot of its own.
SelectPurged(r) ==
  /\ pc[r] = "selected"
  /\ pc' = [pc EXCEPT ![r] = "sort"]
  /\ todo' = [todo EXCEPT ![r] = purged_vols]
  /\ UNCHANGED <<storeVars, dry, unpurged, lists, cur>>

Sorting(r, v) == pc[r] = "sort" /\ v \in todo[r]
Sorted(r, v) == todo' = [todo EXCEPT ![r] = @ \ {v}]

\* A host is down, and its volumes cannot be looked at.  `bls` finds no
\* metadata, or is stopped by `timeout 0.1` before it has printed any.  A
\* storage is unmounted and mounted again (or its host leaves and comes back)
\* while a run is at work: two looks at a volume may tell different things.
Unavailable == "host" \in Faults
Unreadable == "bls" \in Faults
Unmounts == "umount" \in Faults

\* The looks at a volume - is its device mounted, is there a file, can it be
\* read - are one step, in which it has gone when another run just took it.
Missing(v) == v \notin disk
JustTaken(r, v) ==
  /\ Missing(v)
  /\ \E q \in Runner \ {r} : cur[q] = v /\ pc[q] \in {"sortcat", "delcat"}

\* The device is not mounted or its host down; the file was there and no longer
\* is; it cannot be read and is to be left alone.
SkipVol(r, v) ==
  /\ Sorting(r, v)
  /\ \/ Unavailable \/ Unmounts
     \/ JustTaken(r, v)
     \/ ~ Missing(v) /\ Unreadable /\ ~ DelNoMeta
  /\ Sorted(r, v)
  /\ UNCHANGED <<storeVars, pc, dry, unpurged, lists, cur>>

\* A removal by del_backups: a failure is logged at best.
KeepFile(v) == disk' = disk  \* Variant: it never gets at the file.
TakeFile(v) ==
  \/ disk' = disk \ {v}
  \/ ("rm" \in Faults \/ Unmounts) /\ disk' = disk

SortMissingNot(r, v) ==  \* Variant: a missing file is skipped.
  /\ Sorting(r, v)
  /\ Missing(v) \/ Unmounts
  /\ Sorted(r, v)
  /\ UNCHANGED <<storeVars, pc, dry, unpurged, lists, cur>>
\* The device is mounted and _isfile is False: del_backups, which tries to
\* remove the file all the same, and then drops the entry.  The look and the
\* removal are one step with every outcome that an unmount before, between or
\* after them has; a file that is there may have been missed, and then gone or
\* stayed.  A dry run does neither.
SortMissing(r, v) ==
  /\ Sorting(r, v)
  /\ Missing(v) \/ Unmounts
  /\ \/ /\ dry[r]
        /\ UNCHANGED <<disk, pc, cur>>
     \/ /\ ~ dry[r]
        /\ TakeFile(v)
        /\ pc' = [pc EXCEPT ![r] = "sortcat"]
        /\ cur' = [cur EXCEPT ![r] = v]
  /\ Sorted(r, v)
  /\ UNCHANGED <<label, job, needs, media, dry, unpurged, lists>>

SortParsed(r, v) ==
  /\ Sorting(r, v)
  /\ ~ Missing(v)
  /\ lists' = [lists EXCEPT ![r][SeenLevel(v)] = @ \cup {v}]
  /\ Sorted(r, v)
  /\ UNCHANGED <<storeVars, pc, dry, unpurged, cur>>

\* The locals of a run that is over.
Forget(r) ==
  /\ pc' = [pc EXCEPT ![r] = "idle"]
  /\ dry' = [dry EXCEPT ![r] = FALSE]
  /\ unpurged' = [unpurged EXCEPT ![r] = {}]
  /\ todo' = [todo EXCEPT ![r] = {}]
  /\ lists' = [lists EXCEPT ![r] = NoLists]
  /\ cur' = [cur EXCEPT ![r] = NoVol]

\* DEL_VOLS_WITH_NO_METADATA: the file goes, whatever dry_run says.
NoMetadata(r, v) ==
  /\ Sorting(r, v)
  /\ DelNoMeta
  /\ Unmounts \/ JustTaken(r, v) \/ (~ Missing(v) /\ Unreadable)

SortNoMeta(r, v) ==
  /\ NoMetadata(r, v)
  /\ ~ Missing(v)
  /\ job[v].stream \notin Remote
  /\ disk' = disk \ {v}
  /\ pc' = [pc EXCEPT ![r] = "sortcat"]
  /\ cur' = [cur EXCEPT ![r] = v]
  /\ Sorted(r, v)
  /\ UNCHANGED <<label, job, needs, media, dry, unpurged, lists>>

\* os.remove raises, and nothing catches that: the file has gone or may not be
\* removed, or is another host's, for which os.remove is called on this one.
NoMetaRaises(r, v) ==
  /\ NoMetadata(r, v)
  /\ \/ Missing(v) \/ Unmounts \/ "rm" \in Faults
     \/ job[v].stream \in Remote
  /\ Forget(r)
  /\ UNCHANGED storeVars

\* The "delete volume" command.  bconsole drops an entry, or fails and nobody
\* looks.
Unlist(v) == [media EXCEPT ![v] = "none"]
DropEntry(v) ==
  \/ media' = Unlist(v)
  \/ "bconsole" \in Faults /\ media' = media

SortCatalog(r) ==
  /\ pc[r] = "sortcat"
  /\ DropEntry(cur[r])
  /\ pc' = [pc EXCEPT ![r] = "sort"]
  /\ cur' = [cur EXCEPT ![r] = NoVol]
  /\ UNCHANGED <<label, job, needs, disk, dry, unpurged, todo, lists>>

\* All three decisions; they read nothing but the run's own lists.  A dry run
\* walks through remove_backup and does nothing.
Removes(r, l, v) == ~ dry[r] /\ Deletable(unpurged[r], l, v)

Decide(r) ==
  /\ pc[r] = "sort"
  /\ todo[r] = {}
  /\ pc' = [pc EXCEPT ![r] = "delete"]
  /\ lists' = [lists EXCEPT ![r] =
                 [l \in Level |-> {v \in lists[r][l] : Removes(r, l, v)}]]
  /\ UNCHANGED <<storeVars, dry, unpurged, todo, cur>>

\* remove_backup holds the fulls first, then the incrementals, then the diffs.
UpcomingNoDiffs(r) ==  \* Variant: the diffs are forgotten.
  IF lists[r]["F"] # {} THEN lists[r]["F"] ELSE lists[r]["I"]
Upcoming(r) ==
  IF lists[r]["F"] # {} THEN lists[r]["F"]
  ELSE IF lists[r]["I"] # {} THEN lists[r]["I"] ELSE lists[r]["D"]

\* Whether the removal worked or not, the entry is dropped next.
RemoveFile(r, v) ==
  /\ pc[r] = "delete"
  /\ v \in Upcoming(r)
  /\ TakeFile(v)
  /\ pc' = [pc EXCEPT ![r] = "delcat"]
  /\ cur' = [cur EXCEPT ![r] = v]
  /\ lists' = [lists EXCEPT ![r] = [l \in Level |-> @[l] \ {v}]]
  /\ UNCHANGED <<label, job, needs, media, dry, unpurged, todo>>

DeleteCatalog(r) ==
  /\ pc[r] = "delcat"
  /\ DropEntry(cur[r])
  /\ pc' = [pc EXCEPT ![r] = "delete"]
  /\ cur' = [cur EXCEPT ![r] = NoVol]
  /\ UNCHANGED <<label, job, needs, disk, dry, unpurged, todo, lists>>

Finish(r) ==
  /\ pc[r] = "delete"
  /\ lists[r] = NoLists
  /\ Forget(r)
  /\ UNCHANGED storeVars

\* The process is killed, or dies of an exception nobody catches.  (Killed with
\* nothing left to do it has finished: no step is both a Crash and a Finish.)
Crash(r) ==
  /\ "crash" \in Faults
  /\ pc[r] # "idle"
  /\ pc[r] = "delete" => lists[r] # NoLists
  /\ Forget(r)
  /\ UNCHANGED storeVars
-----------------------------------------------------------------------------
Write ==
  /\ \E s \in Stream, l \in Level, ok \in BOOLEAN : WriteBackup(s, l, ok)
  /\ UNCHANGED runVars

\* A volume is purged between the two SELECTs of a run only under "race".
PurgeVol ==
  /\ "race" \in Faults \/ \A r \in Runner : pc[r] # "selected"
  /\ \E v \in Vol : Purge(v)
  /\ UNCHANGED runVars

Run(r) ==
  \/ \E d \in DryRuns : SelectVolumes(r, d)
  \/ SelectPurged(r)
  \/ \E v \in Vol : \/ SkipVol(r, v) \/ SortMissing(r, v) \/ SortParsed(r, v)
                    \/ SortNoMeta(r, v) \/ NoMetaRaises(r, v)
                    \/ RemoveFile(r, v)
  \/ SortCatalog(r) \/ Decide(r) \/ DeleteCatalog(r) \/ Finish(r)

Next == Write \/ PurgeVol \/ \E r \in Runner : Run(r) \/ Crash(r)

Spec == Init /\ [][Next]_vars

-----------------------------------------------------------------------------
(***************************************************************************)
(* Safety.                                                                 *)
(***************************************************************************)
\* "if you delete a full backup, which has been marked 'purged', but still have
\* incremental backups dependent on it, then you'll have a broken incremental
\* backup chain" (docstring, l.22-23): every volume that a backup still in the
\* catalog needs for its restore keeps its file.
NoBrokenChain ==
  \A u \in Used : job[u].ok => needs[u] \cup {u} \subseteq disk

\* "Skipping and not removing, because it's the newest full backup" (l.326):
\* the newest full ever made of a stream stays, however much is purged later.
NewestFullKept ==
  \A s \in Stream : NewestOf(FullsOf(s)) \subseteq disk

\* "Don't delete full if there are ... less than four fulls" (l.9-10): once a
\* full of a stream has gone, three others are always left, although fulls are
\* purged and other runs delete while a run works through its list.
ThreeFullsKept ==
  \A s \in Stream : \/ FullsOf(s) \subseteq disk
                    \/ Cardinality(FullsOf(s) \cap disk) >= 3

\* "Don't delete diff if there are ... less than two diffs" (l.11), likewise.
DiffsOf(s) == {v \in Labelled : job[v].stream = s /\ job[v].level = "D"}
TwoDiffsKept ==
  \A s \in Stream : \/ DiffsOf(s) \subseteq disk
                    \/ Cardinality(DiffsOf(s) \cap disk) >= 2

\* "incremental backups within a chain are deleted all at once" (l.13): while an
\* incremental is unpurged, none that follows it in its run of incrementals goes.
SameRun(u, i) ==
  \A w \in Labelled : (u < w /\ w < i /\ job[w].stream = job[u].stream)
                        => job[w].level = "I"
IncsDeletedTogether ==
  \A u \in Used : \A i \in Labelled :
    (/\ job[u].level = "I" /\ job[i].level = "I"
     /\ job[u].stream = job[i].stream
     /\ u < i /\ SameRun(u, i)) => i \in disk

\* Where removals work and no storage is unmounted under a run (neither "rm" nor
\* "umount" is among the Faults), no file is left that the catalog has forgotten,
\* wherever runs are killed and whatever hosts, `bls` and bconsole do: the entry
\* goes after the file (l.202-227, l.284, l.293-297).
CatalogKnowsFiles == \A v \in disk : media[v] # "none"

\* No run touches a volume the catalog still holds a backup on: not one that
\* removes volumes without metadata (l.293), and whatever its looks tell.
UnpurgedUntouched == Used \subseteq disk

\* "-dry Simulate deletion" (l.417): while all runs in progress are dry ones, no
\* file and no catalog entry disappears.  Line 293 asks for no DRY_RUN.
DryRunHarmless ==
  [][(\A r \in Runner : pc[r] # "idle" => dry[r])
       => /\ disk \subseteq disk'
          /\ \A v \in Vol : media[v] # "none" => media'[v] # "none"]_vars

(***************************************************************************)
(* The script implements Retention: what is live is what the catalog holds *)
(* as not Purged, what is kept is what is on disk.  Every removal of a     *)
(* file is a Reclaim; dropping a catalog entry changes nothing.            *)
(***************************************************************************)
Promise == INSTANCE Retention WITH live <- Used, kept <- disk
ImplementsRetention == Promise!Spec

-----------------------------------------------------------------------------
(***************************************************************************)
(* Liveness.  cron starts the script again and again and a started run is  *)
(* scheduled until it ends, hence weak fairness of Run.  What is in its    *)
(* way ends some day: the machine does not kill every run for ever, hosts  *)
(* come back, bconsole works again.                                        *)
(***************************************************************************)
EntryFails(r) ==
  /\ pc[r] \in {"sortcat", "delcat"} /\ pc'[r] \in {"sort", "delete"}
  /\ media[cur[r]] # "none" /\ media' = media
Mishap(r) == Crash(r) \/ EntryFails(r) \/ \E v \in Vol : SkipVol(r, v)

Fairness ==
  /\ \A r \in Runner : WF_vars(Run(r))
  /\ <>[][~ \E r \in Runner : Mishap(r)]_vars

FairSpec == Spec /\ Fairness

\* A run that died between a file's removal and its entry's leaves work that a
\* later run finishes (l.282-285): no entry without a file stays for good.
MissingForgotten ==
  \A v \in Vol : (v \in Labelled /\ v \notin disk) ~> (media[v] = "none")

\* No volume the rules allow to go stays for ever.
Reclaimable(v) ==
  /\ media[v] = "Purged"
  /\ v \in disk
  /\ Deletable(Used, job[v].level, v)
SpaceReclaimed == \A v \in Vol : []<> ~ Reclaimable(v)

-----------------------------------------------------------------------------
(***************************************************************************)
(* Why the rules work, under conditions the code does not check; the runs  *)
(* purged_race and purged_shared_chain show what happens without them.     *)
(* What a run decides on the number and the age of volumes is right when   *)
(*   - nothing is purged between its SELECTs;                              *)
(*   - no volume is removed for want of metadata;                          *)
(*   - no storage is unmounted or mounted while a run is at work;          *)
(*   - a copy's pool is named after its level;                             *)
(*   - a volume begun after a job ended carries a later minute, so that    *)
(*     dates compare as volumes follow one another.                        *)
(***************************************************************************)
NoBlindRemoval == DelNoMeta /\ (Unreadable \/ Unmounts) => Stream \subseteq Remote

Steady ==
  /\ {"race", "umount"} \cap Faults = {}
  /\ NoBlindRemoval
  /\ \A l \in Level : PoolHint[l] = l
  /\ \A u, v \in Vol : /\ jobtdate(u) > written(v) <=> u >= v
                       /\ jobtdate(u) < written(v) <=> u < v

\* The volumes a run may yet remove.
Candidates(r) ==
  todo[r] \cup lists[r]["F"] \cup lists[r]["D"] \cup lists[r]["I"]
    \cup (IF pc[r] = "selected" THEN Purged ELSE {})

\* What a run has in hand is told apart from what it takes as unpurged.
SeenInv(r) ==
  /\ pc[r] \in {"idle", "selected"} => todo[r] = {} /\ lists[r] = NoLists
  /\ pc[r] = "selected" => unpurged[r] \subseteq Used
  /\ \A u \in unpurged[r] \cup Candidates(r) \cup {cur[r]} : u <= label
  /\ Candidates(r) \cap unpurged[r] = {}
  /\ (Candidates(r) \cup {cur[r]}) \cap Used = {}
  /\ \A l \in Level : \A v \in lists[r][l] : job[v].level = l

Listed == \A v \in Vol : media[v] # "none" => v <= label
SnapInv == Listed /\ \A r \in Runner : SeenInv(r)

(***************************************************************************)
(* Who depends on a volume the rules tell from levels and dates alone.     *)
(* That is right when, besides,                                            *)
(*   - no job fails;                                                       *)
(*   - no two streams (job names) share a chain.                           *)
(***************************************************************************)
Orderly ==
  /\ Steady
  /\ "job" \notin Faults
  /\ \A s, t \in Stream : ChainOf[s] = ChainOf[t] => s = t

\* What a backup needs is older than it, of its stream, and below it in level.
NeedsOlder ==
  \A u \in Vol : \A v \in needs[u] :
    /\ v < u /\ u <= label
    /\ job[v].stream = job[u].stream
    /\ job[u].level # "F"
    /\ job[u].level = "D" => job[v].level = "F"

\* Between a backup of S and what it needs S holds no backup that would have
\* been its base instead.
Clear(S) ==
  \A u \in S : \A v \in needs[u] : \A w \in S :
    (/\ job[w].stream = job[v].stream
     /\ v < w
     /\ job[w].level = "F" \/ (job[w].level = "D" /\ job[v].level # "F"))
    => u < w

StoreInv ==
  /\ \A v \in Vol : job[v].ok
  /\ NeedsOlder
  /\ Clear(Used)
  /\ \A u \in Used : needs[u] \cup {u} \subseteq disk

DependInv(r) ==
  /\ Clear(unpurged[r])
  \* Who depends on a candidate is seen through a backup in the snapshot.
  /\ \A v \in Candidates(r) : \A u \in Used :
       v \in needs[u] => \E b \in unpurged[r] : v \in needs[b]
  /\ pc[r] \in {"delete", "delcat"} =>
       \A v \in Candidates(r) : \A b \in unpurged[r] : v \notin needs[b]

ChainInv == StoreInv /\ \A r \in Runner : DependInv(r)
=============================================================================
