---------------------------- MODULE BackupStore ----------------------------
(***************************************************************************)
(* The world the cleanup scripts act on: the director's catalog (its       *)
(* media and job tables), the volume files on the storages, and the two    *)
(* things that happen to them outside the scripts: Bareos writes a backup  *)
(* and Bareos (or bacula_prune_all) marks a volume Purged.                 *)
(*                                                                         *)
(* "Configure Bareos to use only one backup per volume" (README.md:33), so *)
(* a volume and the backup on it are one thing, named by the number of the *)
(* label the director gave it.  Labels are never reused: the scripts       *)
(* require Recycle = No (bacula_del_purged_vols.py:35-39).                 *)
(***************************************************************************)
EXTENDS Integers, FiniteSets

CONSTANTS
  MaxVol,       \* Bound: how many backups are made.
  Stream,       \* Combinations of client, fileset, job name and media type.
  ChainOf,      \* The chain Bareos keeps a stream's backups in: it looks up
                \* the previous backup by client and fileset, not job name.
  Granularity,  \* Clock units in the minute `bls` rounds a date down to.
  Faults        \* What the surroundings may do to a run; see each action.

FaultKind ==
  {"race", "job", "bls", "host", "umount", "rm", "bconsole", "crash"}

ASSUME StoreAssumption ==
  /\ MaxVol \in Nat \ {0}
  /\ Granularity \in Nat \ {0}
  /\ Stream # {}
  /\ ChainOf \in [Stream -> Stream]
  /\ Faults \subseteq FaultKind

Vol == 1..MaxVol
Level == {"F", "D", "I"}
Status == {"none", "Used", "Purged"}
Backup == [stream : Stream, level : Level, ok : BOOLEAN]

VARIABLES
  label,   \* How many volumes have been labelled; volume v exists iff v <= label.
  job,     \* The backup each volume was written by; set once.
  needs,   \* The volumes a restore of the backup reads besides its own; set once.
  media,   \* The catalog's volstatus; "none" when it has no such volume.
  disk     \* The volumes whose file is on its storage.

storeVars == <<label, job, needs, media, disk>>

(***************************************************************************)
(* Time.  Jobs run one after another; job v occupies the clock units       *)
(* (2v-2, 2v].  The catalog's jobtdate is when it ended.  The volume file  *)
(* carries when it was begun, and parse_vol reads that to the minute.      *)
(***************************************************************************)
jobtdate(v) == 2 * v
written(v) == ((2 * v - 1) \div Granularity) * Granularity

Labelled == 1..label
Used == {v \in Vol : media[v] = "Used"}
Purged == {v \in Vol : media[v] = "Purged"}
FullsOf(s) == {v \in Labelled : job[v].stream = s /\ job[v].level = "F"}

(***************************************************************************)
(* What the director bases a backup of stream s on: the newest successful  *)
(* backup of s's chain that still has its job in the catalog.              *)
(***************************************************************************)
Chain(s, levels) ==
  {v \in Used : /\ ChainOf[job[v].stream] = ChainOf[s]
                /\ job[v].level \in levels
                /\ job[v].ok}
NewestOf(S) == {b \in S : \A w \in S : w <= b}

\* What a backup of stream s at level l needs for its restore.
Bases(s, l) ==
  CASE l = "F" -> {{}}
    [] l = "D" -> {{b} : b \in NewestOf(Chain(s, {"F"}))}
    [] l = "I" -> {{b} \cup needs[b] : b \in NewestOf(Chain(s, Level))}

NoBackup == [stream |-> CHOOSE s \in Stream : TRUE, level |-> "F", ok |-> TRUE]

StoreInit ==
  /\ label = 0
  /\ job = [v \in Vol |-> NoBackup]
  /\ needs = [v \in Vol |-> {}]
  /\ media = [v \in Vol |-> "none"]
  /\ disk = {}

(***************************************************************************)
(* Bareos writes a backup of stream s at level l to a new volume.  Without *)
(* a full backup in the catalog it turns any level into a full one.  A job *)
(* that fails ("job") leaves a volume and a job entry like any other.      *)
(***************************************************************************)
WriteBackup(s, l, ok) ==
  /\ label < MaxVol
  /\ l # "F" => Chain(s, {"F"}) # {}
  /\ ok \/ "job" \in Faults
  /\ label' = label + 1
  /\ job' = [job EXCEPT ![label + 1] = [stream |-> s, level |-> l, ok |-> ok]]
  /\ \E base \in Bases(s, l) : needs' = [needs EXCEPT ![label + 1] = base]
  /\ media' = [media EXCEPT ![label + 1] = "Used"]
  /\ disk' = disk \cup {label + 1}

\* Variant: volumes are recycled, against User note (1) of the script.
MarkRecycle(v) == [media EXCEPT ![v] = "Recycle"]
MarkPurged(v) == [media EXCEPT ![v] = "Purged"]

(***************************************************************************)
(* A volume's jobs leave the catalog, by retention or by bacula_prune_all, *)
(* in any order: each level's pool has a retention of its own.             *)
(***************************************************************************)
Purge(v) ==
  /\ media[v] = "Used"
  /\ media' = MarkPurged(v)
  /\ UNCHANGED <<label, job, needs, disk>>

StoreTypeOK ==
  /\ label \in 0..MaxVol
  /\ job \in [Vol -> Backup]
  /\ needs \in [Vol -> SUBSET Vol]
  /\ media \in [Vol -> Status]
  /\ disk \subseteq Vol
=============================================================================
