--------------------------- MODULE CleanupScripts ---------------------------
(***************************************************************************)
(* The cleanup scripts of README.md:30-46 and bacula_del_media_orphans.py  *)
(* at work on one storage while backups are made.  Each script looks at a  *)
(* snapshot, of the catalog or of the directory, and then treats the       *)
(* volumes in it one after another in steps the others may come between;   *)
(* cron and the administrator start them at any time, a kill ends them     *)
(* anywhere.                                                               *)
(*                                                                         *)
(* bacula_del_purged_vols.py appears by its effect only: which Purged      *)
(* volumes it spares is the subject of DelPurgedVols.  One volume holds    *)
(* one backup and its label is never used again (README.md:31,             *)
(* bacula_del_purged_vols.py:35-39).                                       *)
(***************************************************************************)
EXTENDS FiniteSets

CONSTANTS
  Volume,    \* The volumes that may come to be labelled.
  Script,    \* The scripts in use.
  Quiet,     \* The orphans script is only run while no job is.
  VERBOSE,   \* Its configuration: False and it looks at nothing.
  Simulated, \* It is run with -dry, and DRY_RUN is set.
  CleanupFaults, \* "db": the catalog cannot be reached for a moment;
             \* "rm": the removal of a file fails; "crash": a script is killed;
             \* "umount": the storage is unmounted now and then.
  NoVolume

AllScripts == {"failed", "missing", "orphans", "purged"}

ASSUME ScriptAssumption ==
  /\ Script \subseteq AllScripts
  /\ Quiet \in BOOLEAN /\ VERBOSE \in BOOLEAN /\ Simulated \in BOOLEAN
  /\ CleanupFaults \subseteq {"db", "rm", "crash", "umount"}
  /\ NoVolume \notin Volume

VARIABLES
  job,       \* How far the backup on each volume has got.
  volstatus, \* In the catalog; "none" when it has no such volume.
  stored,    \* The volumes whose file is on the storage.
  mounted,   \* The storage is mounted where the scripts look for it.
  todo,      \* The part of its snapshot a script has not come to yet.
  current,   \* The volume a script is in the middle of.
  found,     \* The orphans script has seen that the file of its current
             \* volume is missing.
  unrest     \* Scripts may still be killed and the storage unmounted.

store == <<job, volstatus, stored, mounted>>
cleanupVars == <<store, todo, current, found, unrest>>

\* "old" is a job that failed more than four days ago; "pruned" one that had
\* succeeded and was pruned.
Stage == {"none", "labelled", "running", "good", "failed", "old", "pruned"}
Status == {"none", "Append", "Used", "Purged"}

CleanupTypeOK ==
  /\ job \in [Volume -> Stage]
  /\ volstatus \in [Volume -> Status]
  /\ stored \subseteq Volume
  /\ mounted \in BOOLEAN
  /\ todo \in [Script -> SUBSET Volume]
  /\ current \in [Script -> Volume \cup {NoVolume}]
  /\ found \in BOOLEAN
  /\ unrest \in BOOLEAN

CleanupInit ==
  /\ job = [v \in Volume |-> "none"]
  /\ volstatus = [v \in Volume |-> "none"]
  /\ stored = {}
  /\ mounted = TRUE
  /\ todo = [s \in Script |-> {}]
  /\ current = [s \in Script |-> NoVolume]
  /\ found = FALSE
  /\ unrest = TRUE

Idle(s) == s \in Script => todo[s] = {} /\ current[s] = NoVolume
Between(s) == s \in Script /\ current[s] = NoVolume
Visible == IF mounted THEN stored ELSE {}
Catalogued == {v \in Volume : volstatus[v] # "none"}
JobsRunning == \E v \in Volume : job[v] \in {"labelled", "running"}

-----------------------------------------------------------------------------
(***************************************************************************)
(* Bareos, and the mounts (bacula_encfs_backup.py mounts and unmounts      *)
(* storages before and after jobs).                                        *)
(***************************************************************************)
\* The catalog learns of a volume before its file exists.
Label(v) ==
  /\ job[v] = "none"
  /\ Quiet => Idle("orphans")
  /\ job' = [job EXCEPT ![v] = "labelled"]
  /\ volstatus' = [volstatus EXCEPT ![v] = "Append"]
  /\ UNCHANGED <<stored, mounted, todo, current, found, unrest>>

Create(v) ==
  /\ job[v] = "labelled"
  /\ mounted
  /\ job' = [job EXCEPT ![v] = "running"]
  /\ stored' = stored \cup {v}
  /\ UNCHANGED <<volstatus, mounted, todo, current, found, unrest>>

EndBackup(v) ==
  /\ job[v] = "running"
  /\ \E end \in {"good", "failed"} : job' = [job EXCEPT ![v] = end]
  /\ volstatus' = [volstatus EXCEPT ![v] = IF @ = "none" THEN "none" ELSE "Used"]
  /\ UNCHANGED <<stored, mounted, todo, current, found, unrest>>

\* Four days pass since a job failed.
Age(v) ==
  /\ job[v] = "failed"
  /\ job' = [job EXCEPT ![v] = "old"]
  /\ UNCHANGED <<volstatus, stored, mounted, todo, current, found, unrest>>

BackupStep == \E v \in Volume : Label(v) \/ Create(v) \/ EndBackup(v) \/ Age(v)

\* encfs_mount unmounts what is mounted, under a running job as well, before it
\* mounts; the after-job script unmounts.
Mount ==
  /\ ~ mounted
  /\ mounted' = TRUE
  /\ UNCHANGED <<job, volstatus, stored, todo, current, found, unrest>>

Unmount ==
  /\ "umount" \in CleanupFaults /\ unrest
  /\ mounted
  /\ Quiet => Idle("orphans")
  /\ mounted' = FALSE
  /\ UNCHANGED <<job, volstatus, stored, todo, current, found, unrest>>

-----------------------------------------------------------------------------
(***************************************************************************)
(* What the scripts have in common.                                        *)
(***************************************************************************)
Snapshot(s, S) ==
  /\ Idle(s) /\ s \in Script
  /\ todo' = [todo EXCEPT ![s] = S]
  /\ UNCHANGED <<store, current, found, unrest>>

\* The script goes on to its next volume with v done with or in hand.
Skip(s, v) == todo' = [todo EXCEPT ![s] = @ \ {v}] /\ current' = current
Take(s, v) == todo' = [todo EXCEPT ![s] = @ \ {v}] /\ current' = [current EXCEPT ![s] = v]
Put(s) == current' = [current EXCEPT ![s] = NoVolume] /\ todo' = todo

\* An exception nobody catches, or a kill.
Die(s) == todo' = [todo EXCEPT ![s] = {}] /\ current' = [current EXCEPT ![s] = NoVolume]

\* bconsole: delete volume=... yes
DeleteVolume(s) ==
  /\ volstatus' = [volstatus EXCEPT ![current[s]] = "none"]
  /\ Put(s)
  /\ UNCHANGED <<job, stored, mounted, found, unrest>>

-----------------------------------------------------------------------------
(***************************************************************************)
(* bacula_prune_all.py: each `prune volume` is one command of bconsole,    *)
(* which purges the volume if its retention is over.  What was Used when   *)
(* the script took its snapshot is so still or has been purged since.      *)
(***************************************************************************)
Recycled(v) == [volstatus EXCEPT ![v] = "Recycle"]  \* Variant: Recycle = Yes.
Pruned(v) == [volstatus EXCEPT ![v] = "Purged"]

PruneVolume(v) ==
  /\ volstatus[v] = "Used"
  /\ job[v] = "good"
  /\ volstatus' = Pruned(v)
  /\ job' = [job EXCEPT ![v] = "pruned"]
  /\ UNCHANGED <<stored, mounted, todo, current, found, unrest>>

(***************************************************************************)
(* bacula_del_failed_jobs_and_volume.py                                    *)
(***************************************************************************)
\* Variant: the comparison with four days is turned round.
FailedYoung == {v \in Catalogued : job[v] = "failed"}
FailedVols == {v \in Catalogued : job[v] = "old"}
FailedSelect == FailedVols # {} /\ Snapshot("failed", FailedVols)

\* os.remove, which raises where the file is not to be seen.
FailedRemove(v) ==
  /\ Between("failed") /\ v \in todo["failed"]
  /\ \/ v \in Visible /\ stored' = stored \ {v} /\ Take("failed", v)
     \/ v \notin Visible /\ stored' = stored /\ Die("failed")
  /\ UNCHANGED <<job, volstatus, mounted, found, unrest>>

FailedDelete ==
  /\ "failed" \in Script /\ current["failed"] # NoVolume
  /\ DeleteVolume("failed")

Failed == FailedSelect \/ (\E v \in Volume : FailedRemove(v)) \/ FailedDelete

(***************************************************************************)
(* bacula_del_vols_missing_catalog.py                                      *)
(***************************************************************************)
MissingList == Visible # {} /\ Snapshot("missing", Visible)

\* Variant: only a volume that is full counts as one of the catalog's.
has_catalog_entry_used(v) == volstatus[v] \in {"Used", "Purged"}
has_catalog_entry_any(v) == TRUE  \* Variant: `res is not None`.
has_catalog_entry(v) == volstatus[v] # "none"

\* After an exception has_catalog_entry returns None, which is falsy.
MissingCheck(v) ==
  /\ Between("missing") /\ v \in todo["missing"]
  /\ \/ has_catalog_entry(v) /\ Skip("missing", v)
     \/ ~ has_catalog_entry(v) /\ Take("missing", v)
     \/ "db" \in CleanupFaults /\ Take("missing", v)
  /\ UNCHANGED <<store, found, unrest>>

MissingRemove ==
  /\ "missing" \in Script /\ current["missing"] # NoVolume
  /\ \/ current["missing"] \in Visible /\ stored' = stored \ {current["missing"]} /\ Put("missing")
     \/ current["missing"] \notin Visible /\ stored' = stored /\ Die("missing")
  /\ UNCHANGED <<job, volstatus, mounted, found, unrest>>

Missing == MissingList \/ (\E v \in Volume : MissingCheck(v)) \/ MissingRemove

(***************************************************************************)
(* bacula_del_media_orphans.py                                             *)
(***************************************************************************)
OrphansSelect ==
  /\ Quiet => ~ JobsRunning
  /\ Catalogued # {}
  /\ Snapshot("orphans", Catalogued)

\* find_mountpoint(ad, hn) == "/": nothing is said of a storage not mounted.
MountIgnored == TRUE  \* Variant of StorageMounted: the mount is not looked at.
StorageMounted == mounted

OrphansProbe(v) ==
  /\ Between("orphans") /\ v \in todo["orphans"]
  /\ \/ VERBOSE /\ StorageMounted /\ Take("orphans", v)
     \/ ~ (VERBOSE /\ StorageMounted) /\ Skip("orphans", v)
  /\ UNCHANGED <<store, found, unrest>>

OrphansLook ==
  /\ "orphans" \in Script /\ current["orphans"] # NoVolume /\ ~ found
  /\ \/ current["orphans"] \in Visible /\ found' = FALSE /\ Put("orphans")
     \/ current["orphans"] \notin Visible /\ found' = TRUE /\ UNCHANGED <<todo, current>>
  /\ UNCHANGED <<store, unrest>>

OrphansDelete ==
  /\ "orphans" \in Script /\ found
  /\ volstatus' = IF Simulated THEN volstatus
                  ELSE [volstatus EXCEPT ![current["orphans"]] = "none"]
  /\ found' = FALSE
  /\ Put("orphans")
  /\ UNCHANGED <<job, stored, mounted, unrest>>

Orphans ==
  OrphansSelect \/ (\E v \in Volume : OrphansProbe(v)) \/ OrphansLook \/ OrphansDelete

(***************************************************************************)
(* bacula_del_purged_vols.py, by its effect.                               *)
(***************************************************************************)
PurgedVols == {v \in Volume : volstatus[v] = "Purged"}
PurgedSelect == PurgedVols # {} /\ Snapshot("purged", PurgedVols)

\* Spared by its rules, or out of reach.
PurgedSkip(v) ==
  /\ Between("purged") /\ v \in todo["purged"]
  /\ v \in stored \/ ~ mounted
  /\ Skip("purged", v)
  /\ UNCHANGED <<store, found, unrest>>

\* Its catalog entry goes whether or not the removal succeeds; a volume without
\* a file on a mounted storage loses it, too.
PurgedRemove(v) ==
  /\ Between("purged") /\ v \in todo["purged"]
  /\ mounted
  /\ stored' = stored \ {v} \/ ("rm" \in CleanupFaults /\ stored' = stored)
  /\ Take("purged", v)
  /\ UNCHANGED <<job, volstatus, mounted, found, unrest>>

PurgedDelete ==
  /\ "purged" \in Script /\ current["purged"] # NoVolume
  /\ DeleteVolume("purged")

PurgedRun ==
  PurgedSelect \/ (\E v \in Volume : PurgedSkip(v) \/ PurgedRemove(v)) \/ PurgedDelete

-----------------------------------------------------------------------------
KillScript(s) ==
  /\ "crash" \in CleanupFaults /\ unrest
  /\ ~ Idle(s)
  /\ Die(s)
  /\ found' = (found /\ s # "orphans")
  /\ UNCHANGED <<store, unrest>>

\* From now on the surroundings leave the scripts alone.
Settle == unrest /\ unrest' = FALSE /\ UNCHANGED <<store, todo, current, found>>

CleanupNext ==
  \/ BackupStep \/ Mount \/ Unmount
  \/ \E v \in Volume : PruneVolume(v)
  \/ Failed \/ Missing \/ Orphans \/ PurgedRun
  \/ \E s \in Script : KillScript(s)
  \/ Settle

CleanupSpec == CleanupInit /\ [][CleanupNext]_cleanupVars

-----------------------------------------------------------------------------
(***************************************************************************)
(* Safety.                                                                 *)
(***************************************************************************)
\* The scripts remove "incomplete" backups (README.md:39), volumes "not know by
\* the catalog" (README.md:41) and Purged ones: however their steps interleave,
\* a backup that has succeeded keeps its file and its entry until it is pruned.
GoodKept ==
  \A v \in Volume : job[v] = "good" => v \in stored /\ volstatus[v] = "Used"

\* Nor do they get in the way of a job: from its label on the catalog keeps the
\* volume a running job writes to, and the file stays once it is there.
RunningKept ==
  \A v \in Volume :
    /\ job[v] \in {"labelled", "running"} => volstatus[v] = "Append"
    /\ job[v] = "running" => v \in stored

(***************************************************************************)
(* Why both hold: what a script has in hand is never a backup worth        *)
(* keeping.  The catalog must answer whenever the missing-catalog script   *)
(* asks, and the orphans script must be left alone by jobs and mounts.     *)
(***************************************************************************)
Careful == Quiet /\ "db" \notin CleanupFaults

InHand(s) == IF s \in Script /\ current[s] # NoVolume THEN {current[s]} ELSE {}
Ahead(s) == IF s \in Script THEN todo[s] ELSE {}
Over == {v \in Volume : job[v] \in {"old", "pruned"}}
Begun == {v \in Volume : job[v] # "none"}

StoreInv ==
  \A v \in Volume :
    /\ job[v] = "none" => volstatus[v] = "none" /\ v \notin stored
    /\ job[v] \in {"labelled", "running"} => volstatus[v] = "Append"
    /\ job[v] = "labelled" => v \notin stored
    /\ job[v] \in {"good", "failed"} => volstatus[v] = "Used"
    /\ job[v] \in {"running", "good", "failed"} => v \in stored
    /\ volstatus[v] = "Purged" => job[v] = "pruned"

ScriptInv ==
  /\ Ahead("failed") \cup InHand("failed") \subseteq Over
  /\ Ahead("purged") \cup InHand("purged") \subseteq Over
  /\ Ahead("missing") \subseteq {v \in Begun : job[v] # "labelled"}
  /\ InHand("missing") \subseteq Over
  /\ Ahead("orphans") \cup InHand("orphans") \subseteq Begun
  /\ ~ Idle("orphans") => ~ JobsRunning
  /\ InHand("orphans") # {} => mounted
  /\ found => InHand("orphans") # {} /\ InHand("orphans") \subseteq Over

CleanupInv == CleanupTypeOK /\ StoreInv /\ ScriptInv

(***************************************************************************)
(* Liveness.  The scripts that remove incomplete backups and unknown       *)
(* volumes are run again and again, as README.md:38-41 has it, and the day *)
(* comes after which none is killed and the storage stays mounted.  The    *)
(* other scripts may run but need not; of the orphans script the docstring *)
(* says "you should run this better manually and not recurring in cron"    *)
(* (l.7-8).                                                                *)
(***************************************************************************)
CleanupFairness ==
  /\ WF_cleanupVars(Failed) /\ WF_cleanupVars(Missing)
  /\ WF_cleanupVars(Mount) /\ WF_cleanupVars(Settle)

CleanupFairSpec == CleanupSpec /\ CleanupFairness

\* "so that the disk space is not filled up with incomplete backups"
\* (bacula_del_failed_jobs_and_volume.py:5-6): they are all removed some day.
FailedReclaimed == \A v \in Volume : job[v] = "old" ~> v \notin stored

\* What the code keeps of that: as long as no run of the script has been killed
\* between the file and the entry of a volume, every incomplete backup goes.  An
\* entry left without its file ends every later run of the script, until somebody
\* runs the orphans script.
Stuck ==
  \E w \in Catalogued : job[w] = "old" /\ w \notin stored /\ w \notin InHand("failed")
FailedReclaimedOrStuck ==
  CleanupFairness => []<>(Stuck \/ \A v \in Volume : job[v] = "old" => v \notin stored)

\* A file the catalog has forgotten, because its removal failed, is removed.
LeakReclaimed == CleanupFairness => []<>(stored \subseteq Catalogued)
=============================================================================
