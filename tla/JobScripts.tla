----------------------------- MODULE JobScripts -----------------------------
(***************************************************************************)
(* What runs around a job.  bacula_encfs_backup.py mounts an encrypted     *)
(* directory before a job writes to it and unmounts it afterwards;         *)
(* bacula_db_backup.py dumps a database before the job that backs up the   *)
(* dump and removes a dump afterwards.  Both are Run Before Job and Run    *)
(* After Job scripts of the director: a before-script that is killed fails *)
(* its job, one that exits with 0 does not, and the after-script runs only *)
(* when the job went well.  bacula_monitor.py looks at the outcome.        *)
(*                                                                         *)
(* A job runs once a day.  Jobs of different names run at the same time,   *)
(* and their scripts' steps interleave.  Two pairs of calls are one step   *)
(* each: an unmount with the look after it, which nobody comes between     *)
(* where one job at a time uses the mount, and the glob with the removal   *)
(* of what it found, where no job's files match another's pattern.         *)
(***************************************************************************)
EXTENDS Integers, FiniteSets

CONSTANTS
  EncJob,    \* Jobs that write to MOUNT_DIR.
  DumpJob,   \* Jobs that back up the dump of a database of their own, which
             \* goes to standard output: mongodump's goes to a directory.
  Glob,      \* The jobs whose dumps "type_db_*" of a job's database matches.
  Excluded,  \* Jobs bacula_monitor leaves out: job_excludes, job_patterns.
  MaxAge,    \* max_days.
  MaxDay,    \* Bound: how many days pass.
  Serial,    \* One job at a time may write to MOUNT_DIR.
  NightFaults  \* "mount": encfs fails; "busy": a shell stands in MOUNT_DIR;
             \* "foreign": root mounts it; "bconsole": it fails; "services":
             \* a daemon is down; "dump": pg_dump fails; "kill": a script is.

Job == EncJob \cup DumpJob
Day == 1..MaxDay

ASSUME JobScriptsAssumption ==
  /\ EncJob \cap DumpJob = {}
  /\ Glob \in [DumpJob -> SUBSET DumpJob]
  /\ \A j \in DumpJob : j \in Glob[j]
  /\ MaxDay \in Nat \ {0} /\ MaxAge \in Nat
  /\ Serial \in BOOLEAN
  /\ NightFaults \subseteq {"mount", "busy", "foreign", "bconsole", "services", "dump", "kill"}

VARIABLES
  day,
  phase,      \* How far a job has got.
  started,    \* The day of its newest run.
  cancelled,  \* The director has been told to cancel an EncJob's run.
  mount,      \* Who has mounted MOUNT_DIR: the scripts' user, root, nobody.
  where,      \* What was mounted when an EncJob opened its volume.
  dumps,      \* The files in the dump directory.
  born,       \* The day in the name of that run's dump, or 0.
  made,       \* That dump was completed.
  left,       \* Ghost: how many runs have left their dump behind.
  good,       \* The day of a job's newest good backup in the catalog, or 0.
  rows,       \* What bacula_monitor has read of good and not come to yet.
  mailed      \* The jobs it sent a mail about since their last good backup.

scriptVars == <<phase, cancelled, mount, where>>
dumpVars == <<dumps, born, made, left>>
jobVars == <<day, started, good, scriptVars, dumpVars>>
monitorVars == <<rows, mailed>>
nightVars == <<jobVars, monitorVars>>

Phase == {"idle", "look", "umount", "lazy", "mount", "verify",
          "create", "dumping", "ready", "writing", "after"}
Mounter == {"none", "own", "foreign"}
Dump == [of : DumpJob, day : Day, whole : BOOLEAN]

NightTypeOK ==
  /\ day \in Day
  /\ phase \in [Job -> Phase]
  /\ started \in [Job -> 0..MaxDay]
  /\ cancelled \in [EncJob -> BOOLEAN]
  /\ mount \in Mounter
  /\ where \in [EncJob -> Mounter]
  /\ dumps \subseteq Dump
  /\ born \in [DumpJob -> 0..MaxDay]
  /\ made \in [DumpJob -> BOOLEAN]
  /\ left \in [DumpJob -> Nat]
  /\ good \in [Job -> 0..MaxDay]
  /\ rows \in [Job -> 0..MaxDay]
  /\ mailed \subseteq Job

NightInit ==
  /\ day = 1
  /\ phase = [j \in Job |-> "idle"]
  /\ started = [j \in Job |-> 0]
  /\ cancelled = [j \in EncJob |-> FALSE]
  /\ mount = "none"
  /\ where = [j \in EncJob |-> "none"]
  /\ dumps = {}
  /\ born = [j \in DumpJob |-> 0]
  /\ made = [j \in DumpJob |-> FALSE]
  /\ left = [j \in DumpJob |-> 0]
  /\ good = [j \in Job |-> 0]
  /\ rows = [j \in Job |-> 0]
  /\ mailed = {}

Go(j, p) == phase' = [phase EXCEPT ![j] = p]
SetMount(m) == mount' = m

-----------------------------------------------------------------------------
(***************************************************************************)
(* bacula_encfs_backup.py mount %i                                         *)
(***************************************************************************)
\* os.path.ismount: the mount of another user cannot be stat'ed, and does not
\* count as one.
IsMounted == mount = "own"

\* A job has a file open under the mount.
Held == \E j \in EncJob : phase[j] = "writing" /\ where[j] = "own"

cancel_none(j) == cancelled' = cancelled  \* Variant: echo without bconsole.
cancle_job(j) ==
  \/ cancelled' = [cancelled EXCEPT ![j] = TRUE]
  \/ "bconsole" \in NightFaults /\ cancelled' = cancelled

Look(j) ==
  /\ phase[j] = "look"
  /\ Go(j, IF IsMounted THEN "umount" ELSE "mount")
  /\ UNCHANGED <<cancelled, mount>>

\* fusermount -u fails on a mount that is in use, fusermount -z -u does not.
UmountedStale ==  \* Variant: a dead endpoint is left behind.
  IF mount = "own" THEN "stale" ELSE mount
Umounted == IF mount = "own" THEN "none" ELSE mount
umount == \/ ~ Held /\ SetMount(Umounted)
          \/ (Held \/ "busy" \in NightFaults) /\ SetMount(mount)
lazy_umount == \/ SetMount(Umounted)
               \/ "busy" \in NightFaults /\ SetMount(mount)

Umount(j) ==
  /\ phase[j] = "umount"
  /\ umount
  /\ Go(j, IF mount' = "own" THEN "lazy" ELSE "mount")
  /\ UNCHANGED cancelled

\* Still mounted: the job is cancelled, and the script exits with 0.
LazyUmount(j) ==
  /\ phase[j] = "lazy"
  /\ lazy_umount
  /\ \/ mount' # "own" /\ Go(j, "mount") /\ UNCHANGED cancelled
     \/ mount' = "own" /\ Go(j, "ready") /\ cancle_job(j)

\* encfs refuses a directory that is mounted; it may fail, or claim success.
MountEnc(j) ==
  /\ phase[j] = "mount"
  /\ \/ mount = "none" /\ SetMount("own") /\ Go(j, "verify") /\ UNCHANGED cancelled
     \/ /\ mount # "none" \/ "mount" \in NightFaults
        /\ SetMount(mount) /\ Go(j, "ready") /\ cancle_job(j)
     \/ "mount" \in NightFaults /\ SetMount(mount) /\ Go(j, "verify") /\ UNCHANGED cancelled

Verify(j) ==
  /\ phase[j] = "verify"
  /\ Go(j, "ready")
  /\ \/ IsMounted /\ UNCHANGED cancelled
     \/ ~ IsMounted /\ cancle_job(j)
  /\ UNCHANGED mount

encfs_mount(j) ==
  /\ Look(j) \/ Umount(j) \/ LazyUmount(j) \/ MountEnc(j) \/ Verify(j)
  /\ UNCHANGED <<day, started, good, where, dumpVars>>

EndEncRun(j) ==
  /\ Go(j, "idle")
  /\ cancelled' = [cancelled EXCEPT ![j] = FALSE]
  /\ where' = [where EXCEPT ![j] = "none"]

\* bacula_encfs_backup.py umount
AfterEnc(j) ==
  /\ phase[j] = "after" /\ j \in EncJob
  /\ umount
  /\ EndEncRun(j)
  /\ UNCHANGED <<day, started, good, dumpVars>>

-----------------------------------------------------------------------------
(***************************************************************************)
(* bacula_db_backup.py -c and -d.  With a service down both exit with 0    *)
(* and have done nothing; what pg_dump returns is not looked at.           *)
(***************************************************************************)
Named(j, d) == {f \in dumps : f.of = j /\ f.day = d}

\* open(fn, "w") empties the file if it is there.
CreateDump(j) ==
  /\ phase[j] = "create"
  /\ \/ /\ dumps' = (dumps \ Named(j, day)) \cup {[of |-> j, day |-> day, whole |-> FALSE]}
        /\ born' = [born EXCEPT ![j] = day]
        /\ Go(j, "dumping")
     \/ "services" \in NightFaults /\ UNCHANGED <<dumps, born>> /\ Go(j, "ready")
  /\ UNCHANGED <<day, started, good, cancelled, mount, where, made, left>>

\* pg_dump also writes to a file that has lost its name since.
Completed(S) == {[of |-> f.of, day |-> f.day, whole |-> TRUE] : f \in S}

EndDump(j) ==
  /\ phase[j] = "dumping"
  /\ \/ /\ dumps' = (dumps \ Named(j, born[j])) \cup Completed(Named(j, born[j]))
        /\ made' = [made EXCEPT ![j] = TRUE]
     \/ "dump" \in NightFaults /\ UNCHANGED <<dumps, made>>
  /\ Go(j, "ready")
  /\ UNCHANGED <<day, started, good, cancelled, mount, where, born, left>>

\* The files the pattern matches; one of them goes, in no particular order.
glob_type(j) == dumps  \* Variant: the pattern is "type_*".
glob(j) == {f \in dumps : f.of \in Glob[j]}

\* Variant: a directory with leftovers is left alone.
delbackup_single(j) == dumps' = IF Cardinality(glob(j)) = 1 THEN dumps \ glob(j) ELSE dumps
delbackup(j) ==
  \/ glob(j) = {} /\ dumps' = dumps
  \/ \E f \in glob(j) : dumps' = dumps \ {f}

\* A DumpJob's dump is left behind unless one was removed.
EndDumpRun(j, removed) ==
  /\ Go(j, "idle")
  /\ born' = [born EXCEPT ![j] = 0]
  /\ made' = [made EXCEPT ![j] = FALSE]
  /\ left' = [left EXCEPT ![j] = IF removed \/ born[j] = 0 THEN @ ELSE @ + 1]

AfterDump(j) ==
  /\ phase[j] = "after" /\ j \in DumpJob
  /\ \/ delbackup(j) /\ EndDumpRun(j, TRUE)
     \/ "services" \in NightFaults /\ dumps' = dumps /\ EndDumpRun(j, FALSE)
  /\ UNCHANGED <<day, started, good, cancelled, mount, where>>

-----------------------------------------------------------------------------
(***************************************************************************)
(* The director, and what else goes on.                                    *)
(***************************************************************************)
Active(j) == phase[j] # "idle"

StartJob(j) ==
  /\ ~ Active(j) /\ started[j] < day
  /\ Serial /\ j \in EncJob => \A k \in EncJob : ~ Active(k)
  /\ started' = [started EXCEPT ![j] = day]
  /\ Go(j, IF j \in EncJob THEN "look" ELSE "create")
  /\ UNCHANGED <<day, good, cancelled, mount, where, dumpVars>>

\* A job opens its volume on whatever is mounted; it fails where root has
\* mounted the directory, and a cancelled one does not come to it.
Refused(j) == j \in EncJob /\ (cancelled[j] \/ mount = "foreign")

BeginJob(j) ==
  /\ phase[j] = "ready"
  /\ ~ Refused(j)
  /\ Go(j, "writing")
  /\ where' = IF j \in EncJob THEN [where EXCEPT ![j] = mount] ELSE where
  /\ UNCHANGED <<day, started, good, cancelled, mount, dumpVars>>

Drop(j) ==
  /\ \/ j \in EncJob /\ EndEncRun(j) /\ UNCHANGED dumpVars
     \/ j \in DumpJob /\ EndDumpRun(j, FALSE) /\ UNCHANGED <<cancelled, where, dumps>>
  /\ UNCHANGED <<day, started, good, mount>>

RefuseJob(j) == phase[j] = "ready" /\ Refused(j) /\ Drop(j)

FailJob(j) == phase[j] = "writing" /\ Drop(j)

\* A script or the job is killed; the after-script's job has ended by then.
Kill(j) ==
  /\ "kill" \in NightFaults
  /\ phase[j] \notin {"idle", "ready", "writing"}
  /\ Drop(j)

EndJob(j) ==
  /\ phase[j] = "writing"
  /\ Go(j, "after")
  /\ good' = [good EXCEPT ![j] = day]
  /\ mailed' = mailed \ {j}
  /\ UNCHANGED <<day, started, cancelled, mount, where, dumpVars, rows>>

\* A job's last backup is pruned.
PruneJob(j) ==
  /\ 0 < good[j] /\ good[j] < day
  /\ good' = [good EXCEPT ![j] = 0]
  /\ UNCHANGED <<day, started, scriptVars, dumpVars, monitorVars>>

ForeignMount ==
  /\ "foreign" \in NightFaults
  /\ \/ mount = "none" /\ SetMount("foreign")
     \/ mount = "foreign" /\ SetMount("none")
  /\ UNCHANGED <<day, phase, started, cancelled, where, good, dumpVars>>

NextDay ==
  /\ day < MaxDay
  /\ day' = day + 1
  /\ UNCHANGED <<started, good, scriptVars, dumpVars, monitorVars>>

-----------------------------------------------------------------------------
(***************************************************************************)
(* bacula_monitor.py -r; bacula_monitor_dir.py runs the same code.         *)
(***************************************************************************)
Monitored == Job \ Excluded

\* One SELECT: a job without a good backup in the catalog has no row.  A list
\* of one name makes the statement invalid, and the run is over.
NewestGoodToday(j) ==  \* Variant: only what ran lately is selected.
  IF j \in Monitored /\ good[j] = day THEN day ELSE 0
NewestGood(j) == IF j \in Monitored THEN good[j] ELSE 0

MonitorSelect ==
  /\ \A j \in Job : rows[j] = 0
  /\ Cardinality(Monitored) > 1
  /\ rows' = [j \in Job |-> NewestGood(j)]
  /\ UNCHANGED <<jobVars, mailed>>

Overdue(d) == day - d > MaxAge

MonitorJob(j) ==
  /\ rows[j] # 0
  /\ mailed' = IF Overdue(rows[j]) THEN mailed \cup {j} ELSE mailed
  /\ rows' = [rows EXCEPT ![j] = 0]
  /\ UNCHANGED jobVars

Monitor == MonitorSelect \/ \E j \in Job : MonitorJob(j)

-----------------------------------------------------------------------------
JobStep(j) ==
  \/ /\ \/ encfs_mount(j) \/ AfterEnc(j) \/ CreateDump(j) \/ EndDump(j) \/ AfterDump(j)
        \/ StartJob(j) \/ BeginJob(j) \/ RefuseJob(j) \/ FailJob(j) \/ Kill(j)
     /\ UNCHANGED monitorVars
  \/ EndJob(j) \/ PruneJob(j)

NightNext ==
  \/ \E j \in Job : JobStep(j)
  \/ ForeignMount /\ UNCHANGED monitorVars
  \/ NextDay
  \/ Monitor

NightSpec == NightInit /\ [][NightNext]_nightVars

-----------------------------------------------------------------------------
(***************************************************************************)
(* Properties.                                                             *)
(***************************************************************************)
\* "If mount fails the job will be cancled" (bacula_encfs_backup.py:4): a job
\* writes only under the mount it was promised, never to the bare directory,
\* although every branch of the script ends with exit code 0.
NeverInClear ==
  \A j \in EncJob : phase[j] = "writing" => where[j] = "own"

\* A job that reads the dump its before-script has completed finds it there:
\* no after-script of another job, and none of an earlier run, takes it.
DumpBackedUp ==
  \A j \in DumpJob : phase[j] = "writing" /\ made[j] =>
    [of |-> j, day |-> born[j], whole |-> TRUE] \in dumps

\* "Delete a db dump backup" after the job (l.78): a run that went well leaves
\* no more dumps than it found, so that the directory holds one for each run
\* that could not clean up, whichever of them delbackup picks.
LeftoversBounded ==
  \A j \in DumpJob :
    Cardinality({f \in dumps : f.of = j}) <= left[j] + (IF born[j] = 0 THEN 0 ELSE 1)

(***************************************************************************)
(* Liveness.  cron runs the monitor again and again: one process that goes *)
(* on row by row.                                                          *)
(***************************************************************************)
MonitorFairness == WF_nightVars(Monitor)

\* "Check if backup jobs have run lately, else sent warning mail" (l.124-125 of
\* bacula_monitor.py), of a job that is not left out and has a good backup left
\* in the catalog; of the others nothing is said.
LateMailed ==
  MonitorFairness =>
    \A j \in Monitored : []<>(good[j] # 0 /\ Overdue(good[j]) => j \in mailed)
=============================================================================
