------------------------ MODULE DelPurgedVolsProofs ------------------------
(***************************************************************************)
(* Proofs about DelPurgedVols, for every number of volumes, every set of   *)
(* streams and every set of overlapping runs.                              *)
(***************************************************************************)
EXTENDS DelPurgedVols, TLAPS

(***************************************************************************)
(* Types.  Nothing is assumed of the faults or the configuration.          *)
(***************************************************************************)
LEMMA WriteType ==
  ASSUME StoreTypeOK, NEW s \in Stream, NEW l \in Level, NEW ok \in BOOLEAN,
         WriteBackup(s, l, ok)
  PROVE  /\ StoreTypeOK'
         /\ label' = label + 1 /\ label + 1 \in Vol
         /\ \E base \in Bases(s, l) :
              /\ base \subseteq Vol
              /\ needs' = [needs EXCEPT ![label + 1] = base]
<1>1. label \in 0..MaxVol /\ label < MaxVol /\ label' = label + 1
  BY DEF StoreTypeOK, WriteBackup
<1>2. label + 1 \in Vol /\ label' \in 0..MaxVol
  BY <1>1, StoreAssumption DEF StoreAssumption, Vol
<1>3. job' \in [Vol -> Backup]
  BY DEF StoreTypeOK, WriteBackup, Backup
<1>4. PICK base \in Bases(s, l) : needs' = [needs EXCEPT ![label + 1] = base]
  BY DEF WriteBackup
<1>5. base \subseteq Vol
  BY <1>4 DEF Bases, NewestOf, Chain, Used, StoreTypeOK, Level
<1>6. needs' \in [Vol -> SUBSET Vol]
  BY <1>4, <1>5 DEF StoreTypeOK
<1>7. media' \in [Vol -> Status] /\ disk' \subseteq Vol
  BY <1>2 DEF StoreTypeOK, WriteBackup, Status
<1> QED
  BY <1>1, <1>2, <1>3, <1>4, <1>5, <1>6, <1>7 DEF StoreTypeOK

LEMMA SeenLevelType ==
  ASSUME StoreTypeOK, NEW v \in Vol
  PROVE  SeenLevel(v) \in Level
<1>1. job[v].level \in Level
  BY DEF StoreTypeOK, Backup
<1> QED
  BY <1>1, RunnerAssumption DEF RunnerAssumption, SeenLevel, Level

\* The type invariant of the script and its surroundings.
THEOREM TypeCorrect == Spec => []TypeOK
<1>1. Init => TypeOK
  <2> SUFFICES ASSUME Init PROVE TypeOK
    OBVIOUS
  <2>1. NoBackup \in Backup
    BY StoreAssumption DEF StoreAssumption, NoBackup, Backup, Level
  <2>2. StoreTypeOK
    BY <2>1, StoreAssumption
    DEF Init, StoreInit, StoreTypeOK, StoreAssumption, Status
  <2> QED
    BY <2>2 DEF Init, TypeOK, PC, NoLists, NoVol
<1>2. TypeOK /\ [Next]_vars => TypeOK'
  <2> SUFFICES ASSUME TypeOK, [Next]_vars PROVE TypeOK'
    OBVIOUS
  <2>1. CASE Write
    BY <2>1, WriteType DEF Write, TypeOK, runVars
  <2>2. CASE PurgeVol
    BY <2>2 DEF PurgeVol, Purge, MarkPurged, TypeOK, StoreTypeOK, runVars, Status
  <2>3. ASSUME NEW r \in Runner, NEW d \in DryRuns, SelectVolumes(r, d)
        PROVE  TypeOK'
    BY <2>3, RunnerAssumption
    DEF RunnerAssumption, SelectVolumes, TypeOK, StoreTypeOK, storeVars, PC, Used,
        unpurged_backups
  <2>4. ASSUME NEW r \in Runner, SelectPurged(r) PROVE TypeOK'
    BY <2>4 DEF SelectPurged, TypeOK, StoreTypeOK, storeVars, PC, Purged, purged_vols
  <2>5. ASSUME NEW r \in Runner, NEW v \in Vol, SkipVol(r, v) PROVE TypeOK'
    BY <2>5 DEF SkipVol, Sorted, TypeOK, StoreTypeOK, storeVars
  <2>6. ASSUME NEW r \in Runner, NEW v \in Vol, SortMissing(r, v) PROVE TypeOK'
    BY <2>6 DEF SortMissing, TakeFile, Sorted, TypeOK, StoreTypeOK, PC
  <2>7. ASSUME NEW r \in Runner, NEW v \in Vol, SortParsed(r, v) PROVE TypeOK'
    <3>1. SeenLevel(v) \in Level
      BY SeenLevelType DEF TypeOK
    <3>2. lists' \in [Runner -> [Level -> SUBSET Vol]]
      BY <2>7, <3>1 DEF SortParsed, TypeOK
    <3> QED
      BY <2>7, <3>2 DEF SortParsed, Sorted, TypeOK, StoreTypeOK, storeVars
  <2>8. ASSUME NEW r \in Runner, Forget(r), UNCHANGED storeVars PROVE TypeOK'
    BY <2>8 DEF Forget, TypeOK, StoreTypeOK, storeVars, PC, NoLists
  <2>9. ASSUME NEW r \in Runner, NEW v \in Vol, SortNoMeta(r, v) PROVE TypeOK'
    BY <2>9 DEF SortNoMeta, Sorted, TypeOK, StoreTypeOK, PC
  <2>10. ASSUME NEW r \in Runner, SortCatalog(r) PROVE TypeOK'
    BY <2>10 DEF SortCatalog, DropEntry, Unlist, TypeOK, StoreTypeOK, PC, Status
  <2>11. ASSUME NEW r \in Runner, Decide(r) PROVE TypeOK'
    <3>1. lists' \in [Runner -> [Level -> SUBSET Vol]]
      BY <2>11 DEF Decide, TypeOK
    <3> QED
      BY <2>11, <3>1 DEF Decide, TypeOK, StoreTypeOK, storeVars, PC
  <2>12. ASSUME NEW r \in Runner, NEW v \in Vol, RemoveFile(r, v) PROVE TypeOK'
    <3>1. lists' \in [Runner -> [Level -> SUBSET Vol]]
      BY <2>12 DEF RemoveFile, TypeOK
    <3> QED
      BY <2>12, <3>1 DEF RemoveFile, TakeFile, TypeOK, StoreTypeOK, PC
  <2>13. ASSUME NEW r \in Runner, DeleteCatalog(r) PROVE TypeOK'
    BY <2>13 DEF DeleteCatalog, DropEntry, Unlist, TypeOK, StoreTypeOK, PC, Status
  <2>14. CASE UNCHANGED vars
    BY <2>14 DEF vars, storeVars, runVars, TypeOK, StoreTypeOK
  <2> QED
    BY <2>1, <2>2, <2>3, <2>4, <2>5, <2>6, <2>7, <2>8, <2>9, <2>10, <2>11, <2>12,
       <2>13, <2>14
    DEF Next, Run, NoMetaRaises, Finish, Crash
<1> QED
  BY <1>1, <1>2, PTL DEF Spec

-----------------------------------------------------------------------------
(***************************************************************************)
(* What a step changes, and that a run tells what it has in hand apart     *)
(* from what it takes as unpurged.                                         *)
(***************************************************************************)
\* What a decided run will yet remove.
Pending(r, l) == IF pc[r] \in {"delete", "delcat"} THEN lists[r][l] ELSE {}

LEMMA CandidatesType ==
  ASSUME TypeOK, NEW r \in Runner
  PROVE  Candidates(r) \subseteq Vol /\ unpurged[r] \subseteq Vol /\ cur[r] \in Int
BY DEF TypeOK, Candidates, Purged, Level, NoVol, Vol

\* What a new backup changes: one new volume n, everything else as it was.
Written(n, s, l, ok, base) ==
  /\ n = label + 1 /\ label' = n /\ n \notin Used
  /\ Labelled' = Labelled \cup {n} /\ n \notin Labelled
  /\ job' = [job EXCEPT ![n] = [stream |-> s, level |-> l, ok |-> ok]]
  /\ needs' = [needs EXCEPT ![n] = base]
  /\ \A v \in Vol : v # n => job'[v] = job[v] /\ needs'[v] = needs[v]
  /\ job'[n] = [stream |-> s, level |-> l, ok |-> ok]
  /\ needs'[n] = base
  /\ Used' = Used \cup {n} /\ Purged' = Purged
  /\ disk' = disk \cup {n}
  /\ \A v \in Vol : v # n => media'[v] = media[v]

LEMMA WriteEffect ==
  ASSUME StoreTypeOK, Listed,
         NEW s \in Stream, NEW l \in Level, NEW ok \in BOOLEAN,
         WriteBackup(s, l, ok)
  PROVE  \E n \in Vol, base \in Bases(s, l) : Written(n, s, l, ok, base)
<1>1. label + 1 \in Vol /\ label \in Nat /\ label' = label + 1
  BY WriteType DEF StoreTypeOK
<1>2. media[label + 1] = "none"
  BY <1>1 DEF Listed, StoreTypeOK, Status
<1>3. PICK base \in Bases(s, l) : needs' = [needs EXCEPT ![label + 1] = base]
  BY DEF WriteBackup
<1>4. /\ job' = [job EXCEPT ![label + 1] = [stream |-> s, level |-> l, ok |-> ok]]
      /\ media' = [media EXCEPT ![label + 1] = "Used"]
      /\ disk' = disk \cup {label + 1}
  BY DEF WriteBackup
<1>5. Used' = Used \cup {label + 1} /\ Purged' = Purged
  BY <1>1, <1>2, <1>4 DEF Used, Purged, StoreTypeOK
<1>6. /\ job'[label + 1] = [stream |-> s, level |-> l, ok |-> ok]
      /\ needs'[label + 1] = base
      /\ \A v \in Vol : v # label + 1 =>
           job'[v] = job[v] /\ needs'[v] = needs[v] /\ media'[v] = media[v]
  BY <1>1, <1>3, <1>4 DEF StoreTypeOK
<1>7. Labelled' = Labelled \cup {label + 1} /\ label + 1 \notin Labelled
  BY <1>1 DEF Labelled
<1> QED
  BY <1>1, <1>2, <1>3, <1>4, <1>5, <1>6, <1>7 DEF Used, Written

LEMMA SeenWrite ==
  ASSUME TypeOK, SnapInv, Write
  PROVE  SnapInv'
<1>1. PICK s \in Stream, l \in Level, ok \in BOOLEAN : WriteBackup(s, l, ok)
  BY DEF Write
<1>2. PICK n \in Vol, base \in Bases(s, l) : Written(n, s, l, ok, base)
  <2>1. StoreTypeOK /\ Listed
    BY DEF TypeOK, SnapInv
  <2> QED
    BY <1>1, <2>1, WriteEffect
<1>3. /\ n = label + 1 /\ label' = n /\ n \notin Used
      /\ \A v \in Vol : v # n => job'[v] = job[v]
      /\ Used' = Used \cup {n} /\ Purged' = Purged
      /\ \A v \in Vol : v # n => media'[v] = media[v]
  BY <1>2 DEF Written
<1>4. label \in Int /\ Vol \subseteq Int
  BY DEF TypeOK, StoreTypeOK, Vol
<1>5. Listed'
  BY <1>3, <1>4 DEF SnapInv, Listed
<1>6. ASSUME NEW r \in Runner PROVE SeenInv(r)'
  <2>1. /\ UNCHANGED runVars /\ Candidates(r)' = Candidates(r)
    BY <1>3 DEF Write, runVars, Candidates
  <2>2. /\ SeenInv(r) /\ \A k \in Level : lists[r][k] \subseteq Candidates(r)
    BY DEF SnapInv, Candidates, Level
  <2>3. \A u \in unpurged[r] \cup Candidates(r) \cup {cur[r]} : u \in Int /\ u <= label
    BY <1>4, <2>2, CandidatesType DEF SeenInv
  <2>4. \A u \in unpurged[r] \cup Candidates(r) \cup {cur[r]} : u <= label' /\ u # n
    BY <1>3, <1>4, <2>3
  <2>5. \A u \in Candidates(r) : job'[u] = job[u]
    BY <1>3, <2>4, CandidatesType
  <2>6. \A k \in Level : \A v \in lists[r][k] : job'[v].level = k
    BY <2>2, <2>5 DEF SeenInv
  <2> QED
    BY <1>3, <2>1, <2>2, <2>4, <2>6 DEF SeenInv, runVars
<1> QED
  BY <1>5, <1>6 DEF SnapInv

\* A step that makes no backup, purges nothing between a run's SELECTs and
\* leaves the run's locals alone.
LEMMA SeenKept ==
  ASSUME NEW r \in Runner, SeenInv(r), UNCHANGED <<label, job>>,
         pc'[r] = pc[r], unpurged'[r] = unpurged[r], todo'[r] = todo[r],
         lists'[r] = lists[r], cur'[r] = cur[r],
         Used' \subseteq Used,
         pc[r] = "selected" => Used' = Used /\ Purged' \subseteq Purged
  PROVE  SeenInv(r)'
<1>1. Candidates(r)' \subseteq Candidates(r)
  BY DEF Candidates
<1> QED
  BY <1>1 DEF SeenInv

\* A run that goes on with the same snapshot and no new candidates.
LEMMA SeenProgress ==
  ASSUME NEW r \in Runner, SeenInv(r), UNCHANGED <<label, job>>, Used' = Used,
         pc'[r] \in {"sort", "sortcat", "delete", "delcat"},
         unpurged'[r] = unpurged[r], cur'[r] <= label, cur'[r] \notin Used,
         Candidates(r)' \subseteq Candidates(r),
         \A l \in Level : \A v \in lists'[r][l] : job[v].level = l
  PROVE  SeenInv(r)'
<1>1. \A u \in unpurged'[r] \cup Candidates(r)' \cup {cur'[r]} : u <= label'
  BY DEF SeenInv
<1>2. Candidates(r)' \cap unpurged'[r] = {} /\ (Candidates(r)' \cup {cur'[r]}) \cap Used' = {}
  BY DEF SeenInv
<1> QED
  BY <1>1, <1>2 DEF SeenInv

\* A run that is over.
LEMMA SeenForget ==
  ASSUME NEW r \in Runner, TypeOK, Forget(r), UNCHANGED storeVars
  PROVE  SeenInv(r)' /\ Candidates(r)' = {}
<1>1. /\ pc'[r] = "idle" /\ unpurged'[r] = {} /\ todo'[r] = {}
      /\ lists'[r] = NoLists /\ cur'[r] = NoVol
  BY DEF Forget, TypeOK
<1>2. Candidates(r)' = {} /\ \A l \in Level : lists'[r][l] = {}
  BY <1>1 DEF Candidates, NoLists, Level
<1>3. NoVol \notin Used' /\ NoVol <= label'
  BY DEF NoVol, Used, Vol, TypeOK, StoreTypeOK, storeVars
<1> QED
  BY <1>1, <1>2, <1>3 DEF SeenInv

LEMMA StartEffect ==
  ASSUME TypeOK, SnapInv, NEW r \in Runner, NEW d \in DryRuns, SelectVolumes(r, d)
  PROVE  /\ SnapInv'
         /\ UNCHANGED storeVars /\ UNCHANGED lists /\ unpurged' = [unpurged EXCEPT ![r] = Used]
         /\ Used' = Used /\ Candidates(r)' = Purged /\ pc'[r] = "selected"
         /\ \A q \in Runner : q # r => Candidates(q)' = Candidates(q) /\ pc'[q] = pc[q]
         /\ \A q \in Runner, l \in Level : Pending(q, l)' = Pending(q, l)
<1>1. /\ UNCHANGED storeVars /\ UNCHANGED <<lists, todo, cur>>
      /\ unpurged' = [unpurged EXCEPT ![r] = Used]
      /\ pc[r] = "idle" /\ pc' = [pc EXCEPT ![r] = "selected"]
  BY DEF SelectVolumes, unpurged_backups
<1>2. todo[r] = {} /\ lists[r] = NoLists /\ SeenInv(r)
  BY <1>1 DEF SnapInv, SeenInv
<1>3. Purged' = Purged /\ Used' = Used /\ UNCHANGED <<label, job, media>>
  BY <1>1 DEF storeVars, Purged, Used
<1>4. /\ Candidates(r)' = Purged /\ pc'[r] = "selected" /\ unpurged'[r] = Used
      /\ \A q \in Runner : q # r => Candidates(q)' = Candidates(q) /\ pc'[q] = pc[q]
      /\ \A q \in Runner, l \in Level : Pending(q, l)' = Pending(q, l)
  BY <1>1, <1>2, <1>3 DEF Candidates, Pending, NoLists, Level, TypeOK
<1>5. \A v \in Used \cup Purged : v <= label
  BY DEF SnapInv, Listed, Used, Purged
<1>6. Purged \cap Used = {} /\ \A l \in Level : lists[r][l] = {}
  BY <1>2 DEF Purged, Used, NoLists
<1>7. SeenInv(r)'
  BY <1>1, <1>2, <1>3, <1>4, <1>5, <1>6 DEF SeenInv
<1>8. ASSUME NEW q \in Runner, q # r PROVE SeenInv(q)'
  <2>1. pc'[q] = pc[q] /\ unpurged'[q] = unpurged[q]
    BY <1>1, <1>8 DEF TypeOK
  <2> QED
    BY <1>1, <1>3, <2>1, SeenKept DEF SnapInv
<1>9. Listed'
  BY <1>3 DEF SnapInv, Listed
<1> QED
  BY <1>1, <1>3, <1>4, <1>7, <1>8, <1>9 DEF SnapInv

\* What a step of run r does, unless it starts the run.
LEMMA RunEffect ==
  ASSUME Steady, TypeOK, SnapInv, NEW r \in Runner, Run(r) \/ Crash(r),
         ~ \E d \in DryRuns : SelectVolumes(r, d)
  PROVE  /\ SnapInv'
         /\ UNCHANGED <<label, job, needs>> /\ Used' = Used
         /\ \A q \in Runner :
              /\ Candidates(q)' \subseteq Candidates(q)
              /\ \/ unpurged'[q] = unpurged[q]
                 \/ unpurged'[q] = {} /\ Candidates(q)' = {}
              /\ \/ pc'[q] \in {"delete", "delcat"} => pc[q] \in {"delete", "delcat"}
                 \/ q = r /\ Decide(r)
         /\ \A q \in Runner, l \in Level :
              Pending(q, l)' \subseteq Pending(q, l) \/ (q = r /\ Decide(r))
         /\ disk' = disk \/ \E l \in Level : \E v \in Pending(r, l) : disk' = disk \ {v}
<1> DEFINE Others == \A q \in Runner : q # r =>
                       /\ pc'[q] = pc[q] /\ unpurged'[q] = unpurged[q] /\ todo'[q] = todo[q]
                       /\ lists'[q] = lists[q] /\ cur'[q] = cur[q]
           Removal == disk' = disk \/ \E l \in Level : \E v \in Pending(r, l) : disk' = disk \ {v}
           Goes == /\ UNCHANGED <<label, job, needs>> /\ Others /\ Removal
                   /\ SeenInv(r)' /\ Candidates(r)' \subseteq Candidates(r)
                   /\ unpurged'[r] = unpurged[r] \/ (Candidates(r)' = {} /\ unpurged'[r] = {})
           NoMore == /\ pc'[r] \in {"delete", "delcat"} => pc[r] \in {"delete", "delcat"}
                     /\ \A l \in Level : Pending(r, l)' \subseteq Pending(r, l)
<1>1. /\ SeenInv(r) /\ StoreTypeOK /\ Candidates(r) \subseteq Vol
      /\ (Candidates(r) \cup {cur[r]}) \cap Used = {}
  BY CandidatesType DEF SnapInv, SeenInv, TypeOK
<1>2. /\ Purged' \subseteq Purged /\ Used' = Used
      /\ \A w \in Vol : media'[w] # "none" => media[w] # "none"
  <2>1. ASSUME NEW v \in Candidates(r) \cup {cur[r]}, media' \in {media, Unlist(v)}
        PROVE  /\ Purged' \subseteq Purged /\ Used' = Used
               /\ \A w \in Vol : media'[w] # "none" => media[w] # "none"
    BY <1>1, <2>1 DEF Unlist, Purged, Used, StoreTypeOK
  <2>2. media' = media \/ \E v \in Candidates(r) \cup {cur[r]} : media' = Unlist(v)
    BY DEF Run, Crash, SelectVolumes, SelectPurged, SkipVol, SortMissing, SortParsed, SortNoMeta,
       NoMetaRaises, RemoveFile, SortCatalog, Decide, DeleteCatalog, Finish, DropEntry,
       Sorting, Candidates, storeVars
  <2> QED
    BY <1>1, <2>1, <2>2 DEF Purged, Used
<1>3. ASSUME SelectPurged(r) PROVE Goes /\ NoMore
  <2>1. lists[r] = NoLists /\ todo[r] = {} /\ \A l \in Level : lists[r][l] = {}
    BY <1>1, <1>3 DEF SeenInv, SelectPurged, NoLists
  <2>2. /\ UNCHANGED <<label, job, needs, disk, unpurged, lists, cur>>
        /\ pc[r] = "selected" /\ pc'[r] = "sort" /\ todo'[r] = Purged /\ Others
    BY <1>3 DEF SelectPurged, purged_vols, storeVars, TypeOK
  <2>3. Candidates(r)' = Candidates(r)
    BY <2>1, <2>2 DEF Candidates, NoLists, Level
  <2>4. SeenInv(r)'
    BY <1>1, <1>2, <2>1, <2>2, <2>3, SeenProgress DEF SeenInv
  <2> QED
    BY <2>2, <2>3, <2>4 DEF Pending
\* Sorting: a volume leaves todo, perhaps for the list of its level.
<1>4. ASSUME NEW v \in Vol, SkipVol(r, v) \/ SortMissing(r, v) \/ SortParsed(r, v)
      PROVE  Goes /\ NoMore
  <2>1. /\ UNCHANGED <<label, job, needs, disk, unpurged>> /\ pc[r] = "sort"
        /\ v \in todo[r] /\ todo' = [todo EXCEPT ![r] = @ \ {v}]
        /\ \/ UNCHANGED <<pc, cur>>
           \/ /\ pc' = [pc EXCEPT ![r] = "sortcat"]
              /\ cur' = [cur EXCEPT ![r] = v]
        /\ \/ lists' = lists
           \/ lists' = [lists EXCEPT ![r][SeenLevel(v)] = @ \cup {v}]
    <3>1. CASE SkipVol(r, v) \/ SortParsed(r, v)
      BY <3>1 DEF SkipVol, SortParsed, Sorting, Sorted, storeVars
    <3>2. CASE SortMissing(r, v)
      <4>1. ~ Unmounts
        BY DEF Unmounts, Steady
      <4>2. v \notin disk /\ (disk' = disk \/ disk' = disk \ {v})
        BY <3>2, <4>1 DEF SortMissing, Missing, TakeFile
      <4>3. disk' = disk
        BY <4>2
      <4> QED
        BY <3>2, <4>3 DEF SortMissing, Sorting, Sorted
    <3> QED
      BY <1>4, <3>1, <3>2
  <2>2. SeenLevel(v) = job[v].level /\ job[v].level \in Level
    BY <1>1, RunnerAssumption
    DEF SeenLevel, Steady, RunnerAssumption, StoreTypeOK, Backup, Level
  <2>3. \A l \in Level : lists'[r][l] \subseteq lists[r][l]
                        \cup (IF job[v].level = l THEN {v} ELSE {})
    BY <2>1, <2>2 DEF TypeOK
  <2>4. /\ todo'[r] = todo[r] \ {v} /\ Others
        /\ pc'[r] \in {"sort", "sortcat"} /\ cur'[r] \in {cur[r], v}
    BY <2>1 DEF TypeOK
  <2>5. Candidates(r)' \subseteq Candidates(r)
    <3>1. \A l \in Level : lists'[r][l] \subseteq lists[r][l] \cup {v}
      BY <2>3
    <3> QED
      BY <2>1, <2>4, <3>1 DEF Candidates, Level
  <2>6. \A l \in Level : \A w \in lists'[r][l] : job[w].level = l
    BY <1>1, <2>3 DEF SeenInv
  <2>7. v \in Candidates(r)
    BY <2>1 DEF Candidates
  <2>8. cur'[r] <= label /\ cur'[r] \notin Used
    BY <1>1, <2>4, <2>7 DEF SeenInv
  <2>9. SeenInv(r)'
    BY <1>1, <1>2, <2>1, <2>4, <2>5, <2>6, <2>8, SeenProgress
  <2> QED
    BY <2>1, <2>4, <2>5, <2>9 DEF Pending
<1>5. ASSUME Decide(r) PROVE Goes
  <2>1. /\ UNCHANGED <<label, job, needs, disk, unpurged, todo, cur>> /\ Others
        /\ pc'[r] = "delete" /\ \A l \in Level : lists'[r][l] \subseteq lists[r][l]
    BY <1>5 DEF Decide, TypeOK, storeVars
  <2>2. Candidates(r)' \subseteq Candidates(r)
    BY <2>1 DEF Candidates, Level
  <2>3. SeenInv(r)'
    BY <1>1, <1>2, <2>1, <2>2, SeenProgress DEF SeenInv
  <2> QED
    BY <2>1, <2>2, <2>3
<1>6. ASSUME NEW v \in Vol, RemoveFile(r, v) PROVE Goes /\ NoMore
  <2>1. /\ UNCHANGED <<label, job, needs, unpurged, todo>> /\ Others
        /\ pc[r] = "delete" /\ pc'[r] = "delcat" /\ cur'[r] = v
        /\ \A l \in Level : lists'[r][l] \subseteq lists[r][l]
    BY <1>6 DEF RemoveFile, TypeOK
  <2>2. Candidates(r)' \subseteq Candidates(r)
    BY <2>1 DEF Candidates, Level
  <2>3. \E l \in Level : v \in lists[r][l]
    BY <1>6 DEF RemoveFile, Upcoming, Level
  <2>4. v \in Candidates(r)
    BY <2>3 DEF Candidates, Level
  <2>5. SeenInv(r)'
    BY <1>1, <1>2, <2>1, <2>2, <2>4, SeenProgress DEF SeenInv
  <2> QED
    BY <1>6, <2>1, <2>2, <2>3, <2>5 DEF RemoveFile, TakeFile, Pending
<1>7. ASSUME DeleteCatalog(r) PROVE Goes /\ NoMore
  <2>1. /\ UNCHANGED <<label, job, needs, disk, unpurged, todo, lists>> /\ Others
        /\ pc[r] = "delcat" /\ pc'[r] = "delete" /\ cur'[r] = NoVol
    BY <1>7 DEF DeleteCatalog, TypeOK
  <2>2. Candidates(r)' = Candidates(r)
    BY <2>1 DEF Candidates
  <2>3. NoVol <= label /\ NoVol \notin Used
    BY <1>1 DEF NoVol, StoreTypeOK, Used, Vol
  <2>4. SeenInv(r)'
    BY <1>1, <1>2, <2>1, <2>2, <2>3, SeenProgress DEF SeenInv
  <2> QED
    BY <2>1, <2>2, <2>4 DEF Pending
\* Finish, Crash and a run that dies.
<1>8. ASSUME Forget(r), UNCHANGED storeVars PROVE Goes /\ NoMore
  <2>1. SeenInv(r)' /\ Candidates(r)' = {}
    BY <1>8, SeenForget
  <2>2. /\ UNCHANGED <<label, job, needs, disk>> /\ Others
        /\ pc'[r] = "idle" /\ unpurged'[r] = {}
    BY <1>8 DEF Forget, TypeOK, storeVars
  <2> QED
    BY <2>1, <2>2 DEF Pending
<1>9. ASSUME NEW v \in Vol, SortNoMeta(r, v) PROVE FALSE
  <2>1. job[v].stream \in Stream
    BY <1>1 DEF StoreTypeOK, Backup
  <2> QED
    BY <1>9, <2>1 DEF SortNoMeta, NoMetadata, Missing, JustTaken, Steady, NoBlindRemoval
<1>10. ASSUME SortCatalog(r) PROVE Goes /\ NoMore
  <2>1. /\ UNCHANGED <<label, job, needs, disk, unpurged, todo, lists>> /\ Others
        /\ pc[r] = "sortcat" /\ pc'[r] = "sort" /\ cur'[r] = NoVol
    BY <1>10 DEF SortCatalog, TypeOK
  <2>2. Candidates(r)' = Candidates(r)
    BY <2>1 DEF Candidates
  <2>3. NoVol <= label /\ NoVol \notin Used
    BY <1>1 DEF NoVol, StoreTypeOK, Used, Vol
  <2>4. SeenInv(r)'
    BY <1>1, <1>2, <2>1, <2>2, <2>3, SeenProgress DEF SeenInv
  <2> QED
    BY <2>1, <2>2, <2>4 DEF Pending
<1>11. Goes /\ (NoMore \/ Decide(r))
  BY <1>3, <1>4, <1>5, <1>6, <1>7, <1>8, <1>9, <1>10 DEF Run, Finish, Crash, NoMetaRaises
<1>12. ASSUME NEW q \in Runner, q # r
       PROVE  /\ SeenInv(q)' /\ Candidates(q)' \subseteq Candidates(q)
              /\ pc'[q] = pc[q] /\ unpurged'[q] = unpurged[q]
              /\ \A l \in Level : Pending(q, l)' = Pending(q, l)
  <2>1. /\ pc'[q] = pc[q] /\ unpurged'[q] = unpurged[q] /\ todo'[q] = todo[q]
        /\ lists'[q] = lists[q] /\ cur'[q] = cur[q] /\ SeenInv(q)
    BY <1>11, <1>12 DEF SnapInv
  <2>2. SeenInv(q)'
    BY <1>2, <1>11, <2>1, SeenKept
  <2> QED
    BY <1>2, <2>1, <2>2 DEF Candidates, Pending
<1>13. SnapInv'
  BY <1>2, <1>11, <1>12 DEF SnapInv, Listed
<1> QED
  BY <1>2, <1>11, <1>12, <1>13

LEMMA PurgeEffect ==
  ASSUME Steady, TypeOK, SnapInv, PurgeVol
  PROVE  /\ SnapInv'
         /\ UNCHANGED <<label, job, needs, disk>> /\ UNCHANGED runVars /\ Used' \subseteq Used
         /\ \A r \in Runner : Candidates(r)' = Candidates(r)
         /\ \A r \in Runner, l \in Level : Pending(r, l)' = Pending(r, l)
<1>1. /\ UNCHANGED <<label, job, needs, disk>> /\ UNCHANGED runVars /\ Used' \subseteq Used
      /\ \A r \in Runner : pc[r] # "selected"
      /\ \A w \in Vol : media'[w] # "none" => media[w] # "none"
  BY DEF PurgeVol, Purge, MarkPurged, Steady, Used, TypeOK, StoreTypeOK
<1>2. /\ \A r \in Runner : Candidates(r)' = Candidates(r)
      /\ \A r \in Runner, l \in Level : Pending(r, l)' = Pending(r, l)
  BY <1>1 DEF Candidates, Pending, runVars
<1>3. \A r \in Runner : SeenInv(r)'
  BY <1>1, SeenKept DEF SnapInv, runVars
<1>4. Listed'
  BY <1>1 DEF SnapInv, Listed
<1> QED
  BY <1>1, <1>2, <1>3, <1>4 DEF SnapInv

LEMMA StutterEffect ==
  ASSUME SnapInv, UNCHANGED vars
  PROVE  /\ SnapInv'
         /\ UNCHANGED <<label, job, needs, media, disk>> /\ UNCHANGED runVars /\ Used' = Used
         /\ \A r \in Runner : Candidates(r)' = Candidates(r)
         /\ \A r \in Runner, l \in Level : Pending(r, l)' = Pending(r, l)
<1>1. /\ UNCHANGED <<label, job, needs, media, disk>> /\ UNCHANGED runVars
      /\ Used' = Used /\ Purged' = Purged
  BY DEF vars, storeVars, Used, Purged
<1>2. /\ \A r \in Runner : Candidates(r)' = Candidates(r)
      /\ \A r \in Runner, l \in Level : Pending(r, l)' = Pending(r, l)
  BY <1>1 DEF Candidates, Pending, runVars
<1>3. \A r \in Runner : SeenInv(r)'
  BY <1>1, SeenKept DEF SnapInv, runVars
<1> QED
  BY <1>1, <1>2, <1>3 DEF SnapInv, Listed

LEMMA DecideEffect ==
  ASSUME TypeOK, NEW r \in Runner, Decide(r)
  PROVE  /\ UNCHANGED storeVars
         /\ \A q \in Runner, l \in Level : q # r => Pending(q, l)' = Pending(q, l)
         /\ \A l \in Level : \A v \in Pending(r, l)' :
              v \in lists[r][l] /\ Deletable(unpurged[r], l, v)
<1>1. /\ UNCHANGED storeVars
      /\ \A q \in Runner : q # r => lists'[q] = lists[q] /\ pc'[q] = pc[q]
      /\ pc'[r] = "delete"
      /\ \A l \in Level : lists'[r][l] = {v \in lists[r][l] : Removes(r, l, v)}
  BY DEF Decide, TypeOK
<1> QED
  BY <1>1 DEF Pending, Removes

\* What runs have in hand to remove is labelled, of its list's level and not Used.
LEMMA PendingType ==
  ASSUME TypeOK, SnapInv, NEW r \in Runner, NEW l \in Level, NEW v \in Pending(r, l)
  PROVE  /\ v \in Vol /\ v \in Labelled /\ v \in Candidates(r) /\ v \notin Used
         /\ v \in lists[r][l] /\ job[v].level = l /\ pc[r] \in {"delete", "delcat"}
<1>1. v \in lists[r][l] /\ v \in Vol /\ v \in Candidates(r) /\ pc[r] \in {"delete", "delcat"}
  BY DEF Pending, Candidates, Level, TypeOK
<1>2. v <= label /\ v \notin Used /\ job[v].level = l
  BY <1>1 DEF SnapInv, SeenInv
<1> QED
  BY <1>1, <1>2 DEF Labelled, Vol, TypeOK, StoreTypeOK

\* Runs never confuse what they may remove with what they took as unpurged,
\* jobs that fail and streams that share a chain included.
THEOREM SnapInvariant == ASSUME Steady PROVE Spec => []SnapInv
<1>1. Init => SnapInv
  BY DEF Init, StoreInit, SnapInv, Listed, SeenInv, Candidates, Used, Purged, NoLists, Level, NoVol
<1>2. TypeOK /\ SnapInv /\ [Next]_vars => SnapInv'
  BY SeenWrite, PurgeEffect, StartEffect, RunEffect, StutterEffect DEF Next, Run
<1> QED
  BY <1>1, <1>2, TypeCorrect, PTL DEF Spec

-----------------------------------------------------------------------------
(***************************************************************************)
(* No run breaks a chain.                                                  *)
(***************************************************************************)
\* A Purged volume that some backup of the snapshot needs is not deletable: the
\* dependent backup itself lies in the window the rules look at, or a diff does.
LEMMA NeededIsKept ==
  ASSUME Steady, StoreTypeOK, NeedsOlder,
         NEW S \in SUBSET Vol, Clear(S),
         NEW b \in S, NEW v \in needs[b], v \notin S
  PROVE  ~ Deletable(S, job[v].level, v)
<1>1. /\ v \in Vol /\ b \in Vol /\ Vol \subseteq Int /\ v < b
      /\ job[v].stream = job[b].stream
      /\ job[b].level # "F"
      /\ job[b].level = "D" => job[v].level = "F"
      /\ job[v].level \in Level /\ job[b].level \in Level
  BY DEF NeedsOlder, StoreTypeOK, Backup, Vol
<1>2. \A x \in S, L \in SUBSET Level :
        /\ x \in Newer(S, v, L) <=>
             job[x].level \in L /\ job[x].stream = job[v].stream /\ v < x
        /\ x \in Older(S, v, L) <=>
             job[x].level \in L /\ job[x].stream = job[v].stream /\ x < v
  BY <1>1 DEF Newer, Older, OfStream, Steady
<1>3. \A L : Newer(S, v, L) \subseteq S /\ Older(S, v, L) \subseteq S
  BY DEF Newer, Older, OfStream
<1>4. \A x, n \in Vol : /\ jobtdate(x) < jobtdate(n) <=> x < n
                        /\ jobtdate(x) > jobtdate(n) <=> n < x
  BY <1>1 DEF jobtdate
<1>5. {"F"} \subseteq Level /\ {"D"} \subseteq Level /\ {"I"} \subseteq Level
      /\ {"F", "D"} \subseteq Level
  BY DEF Level
\* Every full of the snapshot that is newer than v is newer than b.
<1>6. ASSUME NEW n \in Newer(S, v, {"F"}) PROVE b < n
  <2>1. n \in S /\ job[n].level = "F" /\ job[n].stream = job[v].stream /\ v < n
    BY <1>2, <1>3, <1>5
  <2> QED
    BY <2>1 DEF Clear
<1>7. CASE job[v].level = "F" /\ job[b].level = "D"
  <2>1. b \in Newer(S, v, {"D"})
    BY <1>1, <1>2, <1>5, <1>7
  <2>2. BeforeAll(b, Newer(S, v, {"F"}))
    BY <1>1, <1>3, <1>4, <1>6 DEF BeforeAll
  <2> QED
    BY <1>7, <2>1, <2>2 DEF Deletable, DeletableFull, inc_backups, diff_backups
<1>8. CASE job[v].level = "F" /\ job[b].level = "I"
  <2>1. CASE \E d \in Newer(S, v, {"D"}) : d < b
    <3>1. PICK d \in Newer(S, v, {"D"}) : d < b
      BY <2>1
    <3>2. d \in Vol /\ \A n \in Newer(S, v, {"F"}) : n \in Vol /\ d < n
      <4> SUFFICES ASSUME NEW n \in Newer(S, v, {"F"})
                   PROVE  d \in Vol /\ n \in Vol /\ d < n
        BY <1>3, <3>1
      <4>1. d \in Vol /\ n \in Vol
        BY <1>3, <3>1
      <4>2. b < n
        BY <1>6
      <4> QED
        BY <1>1, <3>1, <4>1, <4>2
    <3>3. BeforeAll(d, Newer(S, v, {"F"}))
      BY <1>4, <3>2 DEF BeforeAll
    <3> QED
      BY <1>8, <3>1, <3>3 DEF Deletable, DeletableFull, inc_backups, diff_backups
  <2>2. CASE ~ \E d \in Newer(S, v, {"D"}) : d < b
    <3>1. b \in Newer(S, v, {"I"})
      BY <1>1, <1>2, <1>5, <1>8
    <3>2. \A n \in Newer(S, v, {"F", "D"}) : b < n
      <4> SUFFICES ASSUME NEW n \in Newer(S, v, {"F", "D"}) PROVE b < n
        OBVIOUS
      <4>1. n \in S /\ n \in Int /\ b \in Int /\ v < n /\ job[n].level \in {"F", "D"}
            /\ job[n].stream = job[v].stream
        BY <1>1, <1>2, <1>3, <1>5
      <4>2. CASE job[n].level = "F"
        BY <1>2, <1>5, <1>6, <4>1, <4>2
      <4>3. CASE job[n].level = "D"
        <5>1. n \in Newer(S, v, {"D"})
          BY <1>2, <1>5, <4>1, <4>3
        <5>2. ~ (n < b) /\ n # b
          BY <2>2, <5>1, <4>3, <1>8
        <5> QED
          BY <4>1, <5>2
      <4> QED
        BY <4>1, <4>2, <4>3
    <3>3. BeforeAll(b, Newer(S, v, {"F", "D"}))
      BY <1>1, <1>3, <1>4, <3>2 DEF BeforeAll
    <3> QED
      BY <1>8, <3>1, <3>3 DEF Deletable, DeletableFull, inc_backups, diff_backups
  <2> QED
    BY <2>1, <2>2
<1>9. CASE job[v].level # "F"
  <2>1. job[b].level = "I"
    BY <1>1, <1>9 DEF Level
  <2>2. \A n \in Newer(S, v, {"F", "D"}) : b < n
    BY <1>1, <1>2, <1>3, <1>5, <1>9 DEF Clear
  <2>3. b \in Newer(S, v, {"I"}) /\ BeforeAll(b, Newer(S, v, {"F", "D"}))
    BY <1>1, <1>2, <1>3, <1>4, <1>5, <2>1, <2>2 DEF BeforeAll
  <2>4. CASE job[v].level = "D"
    BY <2>3, <2>4 DEF Deletable, DeletableDiff, inc_backups
  <2>5. CASE job[v].level = "I"
    <3>1. b \in OfStream(S, v, {"I"})
      BY <1>1, <2>1 DEF OfStream
    <3>2. ASSUME NEW o \in Older(S, v, {"F", "D"})
          PROVE  o \in Vol /\ o < b
      <4>1. o \in Vol /\ o < v
        BY <1>2, <1>3, <1>5
      <4> QED
        BY <1>1, <4>1
    <3>3. AfterAll(b, Older(S, v, {"F", "D"}))
      BY <1>1, <1>4, <3>2 DEF AfterAll
    <3> QED
      BY <2>3, <2>5, <3>1, <3>3 DEF Deletable, DeletableInc, chained_inc_backups
  <2> QED
    BY <1>1, <1>9, <2>4, <2>5 DEF Level
<1> QED
  BY <1>1, <1>7, <1>8, <1>9 DEF Level

\* A step that makes no backup keeps StoreInv if it takes no file an unpurged
\* backup needs.
LEMMA StoreInvKept ==
  ASSUME StoreInv, UNCHANGED <<label, job, needs>>,
         Used' \subseteq Used,
         \A u \in Used' : needs[u] \cup {u} \subseteq disk'
  PROVE  StoreInv'
<1>1. NeedsOlder' /\ Clear(Used)'
  BY DEF StoreInv, NeedsOlder, Clear
<1> QED
  BY <1>1 DEF StoreInv

\* A run that takes nothing more in hand and does not decide.
LEMMA DependInvKept ==
  ASSUME NEW r \in Runner, DependInv(r), UNCHANGED <<label, job, needs>>, Used' \subseteq Used,
         Candidates(r)' \subseteq Candidates(r),
         \/ unpurged'[r] = unpurged[r]
         \/ unpurged'[r] = {} /\ Candidates(r)' = {},
         pc'[r] \in {"delete", "delcat"} => pc[r] \in {"delete", "delcat"}
  PROVE  DependInv(r)'
BY DEF DependInv, Clear

\* A backup's bases are what the invariants ask for: unpurged or needed by an
\* unpurged backup, and with no better base in between.
LEMMA BasesSound ==
  ASSUME Orderly, StoreTypeOK, Listed, StoreInv,
         NEW s \in Stream, NEW l \in Level, NEW base \in Bases(s, l),
         NEW v \in base
  PROVE  /\ v \in Vol /\ v <= label /\ l # "F" /\ job[v].stream = s
         /\ v \in Used \/ \E b \in Used : v \in needs[b]
         /\ v \in disk
         /\ l = "D" => job[v].level = "F"
         /\ \A w \in Used :
              ~ /\ job[w].stream = s /\ v < w
                /\ job[w].level = "F" \/ (job[w].level = "D" /\ job[v].level # "F")
<1>1. \A w \in Used, L \in SUBSET Level :
        w \in Chain(s, L) <=> job[w].stream = s /\ job[w].level \in L
  BY DEF Chain, StoreInv, Orderly, StoreTypeOK, Backup, Used
<1>2. Used \subseteq Vol /\ \A w \in Used : w <= label /\ w \in disk
  BY DEF Used, StoreInv, Listed
<1>3. {"F"} \subseteq Level /\ Vol \subseteq Int /\ label \in Int
  BY DEF Level, Vol, StoreTypeOK
<1>4. CASE l = "F"
  BY <1>4 DEF Bases
<1>5. CASE l = "D"
  <2>1. v \in NewestOf(Chain(s, {"F"}))
    BY <1>5 DEF Bases
  <2>2. v \in Used /\ v \in Chain(s, {"F"})
    BY <2>1 DEF NewestOf, Chain
  <2>3. job[v].stream = s /\ job[v].level = "F"
    BY <1>1, <1>3, <2>2
  <2>4. ASSUME NEW w \in Used, job[w].stream = s, v < w, job[w].level = "F"
        PROVE  FALSE
    <3>1. w \in Chain(s, {"F"})
      BY <1>1, <1>3, <2>4
    <3>2. w <= v /\ w \in Int /\ v \in Int
      BY <1>2, <1>3, <2>1, <2>2, <3>1 DEF NewestOf
    <3> QED
      BY <2>4, <3>2
  <2> QED
    BY <1>2, <1>5, <2>2, <2>3, <2>4
<1>6. CASE l = "I"
  <2>1. PICK b \in NewestOf(Chain(s, Level)) : v \in {b} \cup needs[b]
    BY <1>6 DEF Bases
  <2>2. b \in Used /\ b \in Chain(s, Level) /\ b \in Vol
    BY <2>1 DEF NewestOf, Chain, Used
  <2>3. job[b].stream = s
    BY <1>1, <2>2
  <2>4. ASSUME NEW w \in Used, job[w].stream = s, b < w
        PROVE  FALSE
    <3>1. job[w].level \in Level
      BY <1>2 DEF StoreTypeOK, Backup
    <3>2. w \in Chain(s, Level)
      BY <1>1, <2>4, <3>1
    <3> QED
      BY <1>2, <1>3, <2>1, <2>2, <2>4, <3>2 DEF NewestOf
  <2>5. CASE v = b
    BY <1>2, <1>6, <2>2, <2>3, <2>4, <2>5
  <2>6. CASE v \in needs[b]
    <3>1. v \in Vol /\ v < b /\ job[v].stream = s /\ v \in disk
      BY <2>2, <2>3, <2>6 DEF StoreInv, NeedsOlder, StoreTypeOK
    <3>2. v <= label
      BY <1>2, <1>3, <2>2, <3>1
    <3>3. ASSUME NEW w \in Used, job[w].stream = s, v < w,
                 job[w].level = "F" \/ (job[w].level = "D" /\ job[v].level # "F")
          PROVE  FALSE
      <4>1. b < w
        BY <2>2, <2>6, <3>1, <3>3 DEF StoreInv, Clear
      <4> QED
        BY <2>4, <3>3, <4>1
    <3> QED
      BY <1>6, <2>2, <2>6, <3>1, <3>2, <3>3
  <2> QED
    BY <2>1, <2>5, <2>6
<1> QED
  BY <1>4, <1>5, <1>6 DEF Level

LEMMA WriteStoreInv ==
  ASSUME Orderly, StoreTypeOK, Listed, StoreInv,
         NEW s \in Stream, NEW l \in Level, NEW ok \in BOOLEAN,
         WriteBackup(s, l, ok)
  PROVE  StoreInv'
<1>1. PICK n \in Vol, base \in Bases(s, l) :
           /\ n = label + 1 /\ label' = n /\ n \notin Used
           /\ \A v \in Vol : v # n => job'[v] = job[v] /\ needs'[v] = needs[v]
           /\ job'[n] = [stream |-> s, level |-> l, ok |-> TRUE]
           /\ needs'[n] = base
           /\ Used' = Used \cup {n} /\ disk' = disk \cup {n}
  <2>1. ok = TRUE
    BY DEF WriteBackup, Orderly
  <2> QED
    BY <2>1, WriteEffect DEF Written
<1>2. Vol \subseteq Int /\ label \in Int /\ Used \subseteq Vol
  BY DEF Vol, StoreTypeOK, Used
<1>3. \A v \in Vol : job'[v].ok
  BY <1>1 DEF StoreInv
<1>4. \A v \in base :
        /\ v \in Vol /\ v <= label /\ l # "F" /\ job[v].stream = s
        /\ v \in Used \/ \E b \in Used : v \in needs[b]
        /\ v \in disk
        /\ l = "D" => job[v].level = "F"
        /\ \A w \in Used :
             ~ /\ job[w].stream = s /\ v < w
               /\ job[w].level = "F" \/ (job[w].level = "D" /\ job[v].level # "F")
  BY BasesSound
<1>5. \A u \in Used : u \in Vol /\ u # n /\ u < n
  BY <1>1, <1>2 DEF Listed, Used
<1>6. \A u \in Vol : \A v \in needs[u] : v \in Vol /\ u # n /\ v # n /\ v < u
  BY <1>1, <1>2 DEF StoreInv, NeedsOlder, StoreTypeOK
<1>7. NeedsOlder'
  <2> SUFFICES ASSUME NEW u \in Vol, NEW v \in needs'[u]
               PROVE  /\ v < u /\ u <= label'
                      /\ job'[v].stream = job'[u].stream
                      /\ job'[u].level # "F"
                      /\ job'[u].level = "D" => job'[v].level = "F"
    BY DEF NeedsOlder
  <2>1. CASE u = n
    <3>1. v \in base /\ job'[u].stream = s /\ job'[u].level = l
      BY <1>1, <2>1
    <3>2. v # n /\ v < n
      <4>1. v \in Int /\ v <= label
        BY <1>2, <1>4, <3>1
      <4> QED
        BY <1>1, <1>2, <4>1
    <3>3. job'[v] = job[v]
      BY <1>1, <1>4, <3>1, <3>2
    <3> QED
      BY <1>1, <1>2, <1>4, <2>1, <3>1, <3>2, <3>3
  <2>2. CASE u # n
    <3>1. v \in needs[u]
      BY <1>1, <2>2
    <3>2. v \in Vol /\ v # n /\ job'[v] = job[v] /\ job'[u] = job[u]
      BY <1>1, <1>6, <2>2, <3>1
    <3>3. u <= label'
      BY <1>1, <1>2, <3>1 DEF StoreInv, NeedsOlder
    <3> QED
      BY <3>1, <3>2, <3>3 DEF StoreInv, NeedsOlder
  <2> QED
    BY <2>1, <2>2
<1>8. Clear(Used)'
  <2> SUFFICES ASSUME NEW u \in Used', NEW v \in needs'[u], NEW w \in Used',
                      job'[w].stream = job'[v].stream, v < w,
                      job'[w].level = "F" \/ (job'[w].level = "D" /\ job'[v].level # "F")
               PROVE  u < w
    BY DEF Clear
  <2>1. u \in Used \/ u = n
    BY <1>1
  <2>2. w \in Used \/ w = n
    BY <1>1
  <2>3. CASE u \in Used
    <3>1. v \in needs[u] /\ v \in Vol /\ job'[v] = job[v]
      BY <1>1, <1>5, <1>6, <2>3
    <3>2. CASE w \in Used
      BY <1>1, <1>5, <2>3, <3>1, <3>2 DEF StoreInv, Clear
    <3> QED
      BY <1>5, <2>2, <2>3, <3>2
  <2>4. CASE u = n
    <3>1. v \in base /\ v # n /\ job'[v] = job[v] /\ job[v].stream = s
      BY <1>1, <1>2, <1>4, <2>4
    <3>2. CASE w \in Used
      <4>1. job'[w] = job[w]
        BY <1>1, <1>5, <3>2
      <4> QED
        BY <1>4, <3>1, <3>2, <4>1
    <3>3. CASE w = n
      BY <1>1, <1>4, <3>1, <3>3
    <3> QED
      BY <2>2, <3>2, <3>3
  <2> QED
    BY <2>1, <2>3, <2>4
<1>9. \A u \in Used' : needs'[u] \cup {u} \subseteq disk'
  <2> SUFFICES ASSUME NEW u \in Used' PROVE needs'[u] \cup {u} \subseteq disk'
    OBVIOUS
  <2>1. CASE u = n
    BY <1>1, <1>4, <2>1
  <2>2. CASE u \in Used
    BY <1>1, <1>5, <2>2 DEF StoreInv
  <2> QED
    BY <1>1, <2>1, <2>2
<1> QED
  BY <1>3, <1>7, <1>8, <1>9 DEF StoreInv

LEMMA WriteDependInv ==
  ASSUME Orderly, TypeOK, SnapInv, StoreInv, NEW r \in Runner, DependInv(r), Write
  PROVE  DependInv(r)'
<1>1. PICK s \in Stream, l \in Level, ok \in BOOLEAN : WriteBackup(s, l, ok)
  BY DEF Write
<1>2. StoreTypeOK /\ Listed /\ SeenInv(r)
  BY DEF TypeOK, SnapInv
<1>3. PICK n \in Vol, base \in Bases(s, l) : Written(n, s, l, ok, base)
  BY <1>1, <1>2, WriteEffect
<1>4. Vol \subseteq Int /\ label \in Int /\ n = label + 1 /\ Used \subseteq Vol
  BY <1>2, <1>3 DEF Vol, StoreTypeOK, Used, Written
<1>5. Candidates(r)' = Candidates(r) /\ unpurged' = unpurged /\ pc' = pc
  BY <1>3 DEF Write, Written, Candidates, runVars
<1>6. \A u \in unpurged[r] \cup Candidates(r) : u \in Vol /\ u # n /\ u <= label
  BY <1>2, <1>4, CandidatesType DEF SeenInv
<1>7. /\ \A u \in unpurged[r] \cup Candidates(r) : job'[u] = job[u] /\ needs'[u] = needs[u]
      /\ \A u \in Vol : u # n => job'[u] = job[u] /\ needs'[u] = needs[u]
      /\ needs'[n] = base /\ Used' = Used \cup {n}
  BY <1>3, <1>6 DEF Written
<1>8. Clear(unpurged[r])'
  <2>1. \A u \in unpurged[r] : \A v \in needs[u] : v \in Vol /\ job'[v] = job[v]
    <3> SUFFICES ASSUME NEW u \in unpurged[r], NEW v \in needs[u]
                 PROVE  v \in Vol /\ job'[v] = job[v]
      OBVIOUS
    <3>1. v \in Vol /\ v < u /\ u <= label /\ u \in Vol
      BY <1>2, <1>6 DEF StoreInv, NeedsOlder, StoreTypeOK
    <3> QED
      BY <1>4, <1>7, <3>1
  <2> QED
    BY <1>5, <1>7, <2>1 DEF DependInv, Clear
<1>9. \A v \in Candidates(r) : \A u \in Used' :
        v \in needs'[u] => \E b \in unpurged[r] : v \in needs'[b]
  <2> SUFFICES ASSUME NEW v \in Candidates(r), NEW u \in Used', v \in needs'[u]
               PROVE  \E b \in unpurged[r] : v \in needs[b]
    BY <1>7
  <2>1. CASE u = n
    <3>1. v \in Used \/ \E b \in Used : v \in needs[b]
      BY <1>2, <1>7, <2>1, BasesSound
    <3>2. v \notin Used
      BY <1>2 DEF SeenInv
    <3> QED
      BY <3>1, <3>2 DEF DependInv
  <2>2. CASE u # n
    BY <1>4, <1>7, <2>2 DEF DependInv
  <2> QED
    BY <2>1, <2>2
<1>10. pc[r] \in {"delete", "delcat"} =>
         \A v \in Candidates(r) : \A b \in unpurged[r] : v \notin needs'[b]
  BY <1>7 DEF DependInv
<1> QED
  BY <1>5, <1>8, <1>9, <1>10 DEF DependInv

\* What is on a list after the decision is needed by no backup in the snapshot.
LEMMA DecidedUnneeded ==
  ASSUME Steady, TypeOK, SnapInv, StoreInv, NEW r \in Runner, DependInv(r), Decide(r)
  PROVE  DependInv(r)'
<1>1. /\ UNCHANGED <<label, job, needs>> /\ unpurged'[r] = unpurged[r] /\ todo'[r] = {}
      /\ pc'[r] = "delete" /\ Used' = Used
      /\ \A l \in Level : lists'[r][l] = {v \in lists[r][l] : Removes(r, l, v)}
  BY DEF Decide, TypeOK, storeVars, Used
<1>2. /\ \A v \in Candidates(r)' : \E l \in Level : v \in lists'[r][l]
      /\ \A l \in Level : lists[r][l] \subseteq Candidates(r)
  BY <1>1 DEF Candidates, Level
<1>3. Candidates(r)' \subseteq Candidates(r)
  BY <1>1, <1>2
<1>4. ASSUME NEW v \in Candidates(r)', NEW b \in unpurged[r], v \in needs[b]
      PROVE  FALSE
  <2>1. PICK l \in Level : v \in lists'[r][l]
    BY <1>2
  <2>2. job[v].level = l /\ Deletable(unpurged[r], job[v].level, v)
    BY <1>1, <2>1 DEF SnapInv, SeenInv, Removes
  <2>3. v \notin unpurged[r]
    BY <1>3 DEF SnapInv, SeenInv
  <2>4. unpurged[r] \in SUBSET Vol /\ Clear(unpurged[r]) /\ NeedsOlder /\ StoreTypeOK
    BY CandidatesType DEF DependInv, StoreInv, TypeOK
  <2> QED
    BY <1>4, <2>2, <2>3, <2>4, NeededIsKept
<1> QED
  BY <1>1, <1>3, <1>4 DEF DependInv, Clear

LEMMA ChainInvStep ==
  ASSUME Orderly, TypeOK, SnapInv, ChainInv, [Next]_vars
  PROVE  ChainInv'
<1> USE DEF ChainInv
<1>1. Steady /\ StoreTypeOK /\ Listed /\ \A u \in Used : needs[u] \cup {u} \subseteq disk
  BY DEF Orderly, TypeOK, SnapInv, StoreInv
<1>2. CASE Write
  BY <1>1, <1>2, WriteStoreInv, WriteDependInv DEF Write
<1>3. CASE PurgeVol
  <2>1. /\ UNCHANGED <<label, job, needs, disk, pc, unpurged>> /\ Used' \subseteq Used
        /\ \A r \in Runner : Candidates(r)' = Candidates(r)
    BY <1>1, <1>3, PurgeEffect DEF runVars
  <2> QED
    BY <1>1, <2>1, StoreInvKept, DependInvKept
<1>4. ASSUME NEW r \in Runner, NEW d \in DryRuns, SelectVolumes(r, d) PROVE ChainInv'
  <2>1. /\ UNCHANGED <<label, job, needs, disk>> /\ Used' = Used
        /\ unpurged' = [unpurged EXCEPT ![r] = Used]
        /\ Candidates(r)' = Purged /\ pc'[r] = "selected"
        /\ \A q \in Runner : q # r => Candidates(q)' = Candidates(q) /\ pc'[q] = pc[q]
    BY <1>4, StartEffect DEF storeVars
  <2>2. unpurged'[r] = Used /\ \A q \in Runner : q # r => unpurged'[q] = unpurged[q]
    BY <2>1 DEF TypeOK
  <2>3. StoreInv'
    BY <1>1, <2>1, StoreInvKept
  <2>4. DependInv(r)'
    BY <2>1, <2>2 DEF StoreInv, DependInv, Clear
  <2>5. \A q \in Runner : q # r => DependInv(q)'
    BY <2>1, <2>2, DependInvKept
  <2> QED
    BY <2>3, <2>4, <2>5
<1>5. ASSUME NEW r \in Runner, Run(r) \/ Crash(r), ~ \E d \in DryRuns : SelectVolumes(r, d)
      PROVE  ChainInv'
  <2>1. /\ UNCHANGED <<label, job, needs>> /\ Used' = Used
        /\ \A q \in Runner :
             /\ Candidates(q)' \subseteq Candidates(q)
             /\ \/ unpurged'[q] = unpurged[q]
                \/ unpurged'[q] = {} /\ Candidates(q)' = {}
             /\ \/ pc'[q] \in {"delete", "delcat"} => pc[q] \in {"delete", "delcat"}
                \/ q = r /\ Decide(r)
        /\ disk' = disk \/ \E l \in Level : \E v \in Pending(r, l) : disk' = disk \ {v}
    BY <1>1, <1>5, RunEffect
  \* A file that goes is needed by no unpurged backup.
  <2>2. ASSUME NEW l \in Level, NEW v \in Pending(r, l), NEW u \in Used
        PROVE  v \notin needs[u] \cup {u}
    <3>1. v \in Candidates(r) /\ v \notin Used /\ pc[r] \in {"delete", "delcat"}
      BY PendingType
    <3> QED
      BY <3>1 DEF DependInv
  <2>3. \A u \in Used' : needs[u] \cup {u} \subseteq disk'
    BY <1>1, <2>1, <2>2
  <2>4. StoreInv'
    BY <2>1, <2>3, StoreInvKept
  <2>5. ASSUME NEW q \in Runner PROVE DependInv(q)'
    BY <1>1, <2>1, DependInvKept, DecidedUnneeded
  <2> QED
    BY <2>4, <2>5
<1>6. CASE UNCHANGED vars
  <2>1. /\ UNCHANGED <<label, job, needs, disk, pc, unpurged>> /\ Used' = Used
        /\ \A r \in Runner : Candidates(r)' = Candidates(r)
    BY <1>6, StutterEffect DEF runVars
  <2> QED
    BY <1>1, <2>1, StoreInvKept, DependInvKept
<1> QED
  BY <1>2, <1>3, <1>4, <1>5, <1>6 DEF Next, Run

\* In an orderly installation the inductive invariant always holds.
THEOREM ChainInvariant == ASSUME Orderly PROVE Spec => []ChainInv
<1>1. Init => ChainInv
  BY DEF Init, StoreInit, ChainInv, StoreInv, NeedsOlder, Clear, DependInv, Candidates,
         Used, Purged, NoLists, NoBackup, Level
<1>2. TypeOK /\ SnapInv /\ ChainInv /\ [Next]_vars => ChainInv'
  BY ChainInvStep
<1>3. Steady
  BY DEF Orderly
<1> QED
  BY <1>1, <1>2, <1>3, TypeCorrect, SnapInvariant, PTL DEF Spec

\* No run of the script, however many overlap and wherever they crash, removes
\* the file of a volume that an unpurged backup is restored with.
THEOREM ChainsStayWhole == ASSUME Orderly PROVE Spec => []NoBrokenChain
<1>1. ChainInv => NoBrokenChain
  BY DEF ChainInv, StoreInv, NoBrokenChain
<1> QED
  BY <1>1, ChainInvariant, PTL
=============================================================================
