----------------------------- MODULE Retention -----------------------------
(***************************************************************************)
(* What the retention scripts promise, without catalog, storage or script: *)
(* backups are written, the catalog lets go of them one by one, and a      *)
(* backup it has let go of may be reclaimed when nothing depends on it and *)
(* enough of its kind are left (bacula_del_purged_vols.py:8-13).           *)
(***************************************************************************)
EXTENDS Integers, FiniteSets

CONSTANTS MaxVol, Stream

Vol == 1..MaxVol
Backup == [stream : Stream, level : {"F", "D", "I"}, ok : BOOLEAN]

VARIABLES
  label,  \* How many backups were made.
  job,    \* What each of them is.
  needs,  \* The earlier backups each of them is restored with.
  live,   \* The backups the catalog still has.
  kept    \* The backups that still exist.

vars == <<label, job, needs, live, kept>>

Others(v) ==
  {w \in 1..label : /\ w # v
                    /\ job[w].stream = job[v].stream
                    /\ job[w].level = job[v].level}

AtLeast(n, S) == Cardinality(S) >= n

Init ==
  /\ label = 0
  /\ job \in [Vol -> Backup]
  /\ needs = [v \in Vol |-> {}]
  /\ live = {}
  /\ kept = {}

\* A new backup builds on backups that exist.
Make(b, base) ==
  /\ label < MaxVol
  /\ label' = label + 1
  /\ job' = [job EXCEPT ![label + 1] = b]
  /\ needs' = [needs EXCEPT ![label + 1] = base]
  /\ live' = live \cup {label + 1}
  /\ kept' = kept \cup {label + 1}

LetGo(v) ==
  /\ live' = live \ {v}
  /\ UNCHANGED <<label, job, needs, kept>>

\* Nothing live builds on v; three newer or older fulls, one of them newer, or
\* two diffs outlive it; and no live incremental precedes it in its run.
MayGo(v) ==
  /\ \A u \in live : v \notin needs[u]
  /\ job[v].level = "F" => /\ AtLeast(3, Others(v) \cap kept)
                           /\ \E w \in Others(v) : w > v
  /\ job[v].level = "D" => AtLeast(2, Others(v) \cap kept)
  /\ job[v].level = "I" =>
       \A u \in Others(v) \cap live : u < v =>
         \E w \in 1..label : /\ u < w /\ w < v
                             /\ job[w].stream = job[v].stream
                             /\ job[w].level # "I"

Reclaim(v) ==
  /\ v \in kept \ live
  /\ MayGo(v)
  /\ kept' = kept \ {v}
  /\ UNCHANGED <<label, job, needs, live>>

Next ==
  \/ \E b \in Backup, base \in SUBSET kept : Make(b, base)
  \/ \E v \in Vol : LetGo(v) \/ Reclaim(v)

Spec == Init /\ [][Next]_vars
=============================================================================
