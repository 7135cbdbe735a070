------------------------ MODULE CleanupScriptsProofs ------------------------
(***************************************************************************)
(* Proofs about CleanupScripts, for any set of volumes and any choice of   *)
(* the scripts that are in use.                                            *)
(***************************************************************************)
EXTENDS CleanupScripts, TLAPS

\* Every way a script goes on keeps the types of its variables.
LEMMA HandsType ==
  ASSUME CleanupTypeOK, NEW s \in Script, NEW v \in Volume,
         Skip(s, v) \/ Take(s, v) \/ Put(s) \/ Die(s)
  PROVE  /\ todo' \in [Script -> SUBSET Volume]
         /\ current' \in [Script -> Volume \cup {NoVolume}]
BY DEF CleanupTypeOK, Skip, Take, Put, Die

LEMMA SnapshotType ==
  ASSUME CleanupTypeOK, NEW s, NEW S \in SUBSET Volume, Snapshot(s, S)
  PROVE  CleanupTypeOK'
BY DEF CleanupTypeOK, Snapshot, store

LEMMA DeleteVolumeType ==
  ASSUME CleanupTypeOK, NEW s \in Script, current[s] # NoVolume, DeleteVolume(s), UNCHANGED unrest
  PROVE  CleanupTypeOK'
<1>1. current[s] \in Volume
  BY DEF CleanupTypeOK
<1> QED
  BY <1>1, HandsType DEF CleanupTypeOK, DeleteVolume, Status

\* The variables of the scripts and of what they work on keep their types.
THEOREM ScriptsTypeCorrect == CleanupSpec => []CleanupTypeOK
<1>1. CleanupInit => CleanupTypeOK
  BY DEF CleanupInit, CleanupTypeOK, Stage, Status
<1>2. CleanupTypeOK /\ [CleanupNext]_cleanupVars => CleanupTypeOK'
  <2> SUFFICES ASSUME CleanupTypeOK, [CleanupNext]_cleanupVars PROVE CleanupTypeOK'
    OBVIOUS
  <2>1. CASE BackupStep
    BY <2>1 DEF BackupStep, Label, Create, EndBackup, Age, CleanupTypeOK, Stage, Status
  <2>2. CASE Mount \/ Unmount \/ Settle
    BY <2>2 DEF Mount, Unmount, Settle, CleanupTypeOK, store
  <2>3. ASSUME NEW v \in Volume, PruneVolume(v) PROVE CleanupTypeOK'
    BY <2>3 DEF PruneVolume, Pruned, CleanupTypeOK, Stage, Status
  <2>4. CASE FailedSelect \/ MissingList \/ OrphansSelect \/ PurgedSelect
    <3>1. /\ FailedVols \in SUBSET Volume /\ Visible \in SUBSET Volume
          /\ Catalogued \in SUBSET Volume /\ PurgedVols \in SUBSET Volume
      BY DEF FailedVols, Visible, Catalogued, PurgedVols, CleanupTypeOK
    <3> QED
      BY <2>4, <3>1, SnapshotType DEF FailedSelect, MissingList, OrphansSelect, PurgedSelect
  <2>5. ASSUME NEW v \in Volume, FailedRemove(v) PROVE CleanupTypeOK'
    BY <2>5, HandsType DEF FailedRemove, Between, CleanupTypeOK
  <2>6. CASE FailedDelete \/ PurgedDelete
    BY <2>6, DeleteVolumeType DEF FailedDelete, PurgedDelete, DeleteVolume
  <2>7. ASSUME NEW v \in Volume, MissingCheck(v) PROVE CleanupTypeOK'
    BY <2>7, HandsType DEF MissingCheck, Between, CleanupTypeOK, store
  <2>8. CASE MissingRemove
    <3>1. current["missing"] \in Volume
      BY <2>8 DEF MissingRemove, CleanupTypeOK
    <3> QED
      BY <2>8, <3>1, HandsType DEF MissingRemove, CleanupTypeOK
  <2>9. ASSUME NEW v \in Volume, OrphansProbe(v) PROVE CleanupTypeOK'
    BY <2>9, HandsType DEF OrphansProbe, Between, CleanupTypeOK, store
  <2>10. CASE OrphansLook
    <3>1. current["orphans"] \in Volume
      BY <2>10 DEF OrphansLook, CleanupTypeOK
    <3> QED
      BY <2>10, <3>1, HandsType DEF OrphansLook, CleanupTypeOK, store
  <2>11. CASE OrphansDelete
    BY <2>11 DEF OrphansDelete, Put, CleanupTypeOK, Status
  <2>12. ASSUME NEW v \in Volume, PurgedSkip(v) \/ PurgedRemove(v) PROVE CleanupTypeOK'
    BY <2>12, HandsType DEF PurgedSkip, PurgedRemove, Between, CleanupTypeOK, store
  <2>13. ASSUME NEW s \in Script, KillScript(s) PROVE CleanupTypeOK'
    BY <2>13 DEF KillScript, Die, CleanupTypeOK, store
  <2>14. CASE UNCHANGED cleanupVars
    BY <2>14 DEF cleanupVars, store, CleanupTypeOK
  <2> QED
    BY <2>1, <2>2, <2>3, <2>4, <2>5, <2>6, <2>7, <2>8, <2>9, <2>10, <2>11, <2>12,
       <2>13, <2>14
    DEF CleanupNext, Failed, Missing, Orphans, PurgedRun
<1> QED
  BY <1>1, <1>2, PTL DEF CleanupSpec

(***************************************************************************)
(* What a script has in hand is over.                                      *)
(***************************************************************************)
\* No step of a job takes anything from what is over or begun.
LEMMA JobStepInv ==
  ASSUME Careful, CleanupInv, NEW v \in Volume, Label(v) \/ Create(v) \/ EndBackup(v) \/ Age(v)
  PROVE  StoreInv' /\ ScriptInv'
<1>1. StoreInv'
  BY DEF CleanupInv, CleanupTypeOK, StoreInv, Label, Create, EndBackup, Age, Stage, Status
<1>2. Over \subseteq Over' /\ Begun \subseteq Begun'
  BY DEF CleanupInv, CleanupTypeOK, Label, Create, EndBackup, Age, Over, Begun
<1>3. {w \in Begun : job[w] # "labelled"} \subseteq {w \in Begun' : job'[w] # "labelled"}
  BY DEF CleanupInv, CleanupTypeOK, Label, Create, EndBackup, Age, Begun
<1>4. ~ Idle("orphans") => ~ JobsRunning'
  BY DEF CleanupInv, ScriptInv, Careful, CleanupTypeOK, Label, Create, EndBackup, Age, JobsRunning
<1>5. UNCHANGED <<todo, current, found, mounted>>
  BY DEF Label, Create, EndBackup, Age
<1> QED
  BY <1>1, <1>2, <1>3, <1>4, <1>5 DEF CleanupInv, ScriptInv, Ahead, InHand, Idle

LEMMA PruneInv ==
  ASSUME Careful, CleanupInv, NEW v \in Volume, PruneVolume(v)
  PROVE  StoreInv' /\ ScriptInv'
<1>1. StoreInv'
  BY DEF CleanupInv, CleanupTypeOK, StoreInv, PruneVolume, Pruned
<1>2. Over \subseteq Over' /\ Begun \subseteq Begun'
  BY DEF CleanupInv, CleanupTypeOK, PruneVolume, Over, Begun
<1>3. {w \in Begun : job[w] # "labelled"} \subseteq {w \in Begun' : job'[w] # "labelled"}
  BY DEF CleanupInv, CleanupTypeOK, PruneVolume, Begun
<1>4. ~ Idle("orphans") => ~ JobsRunning'
  BY DEF CleanupInv, ScriptInv, CleanupTypeOK, PruneVolume, JobsRunning
<1>5. UNCHANGED <<todo, current, found, mounted>>
  BY DEF PruneVolume
<1> QED
  BY <1>1, <1>2, <1>3, <1>4, <1>5 DEF CleanupInv, ScriptInv, Ahead, InHand, Idle

\* A snapshot holds only volumes its script may treat.
LEMMA SnapshotInv ==
  ASSUME Careful, CleanupInv, FailedSelect \/ MissingList \/ OrphansSelect \/ PurgedSelect
  PROVE  StoreInv' /\ ScriptInv'
<1>1. UNCHANGED <<store, current, found>>
  BY DEF FailedSelect, MissingList, OrphansSelect, PurgedSelect, Snapshot
<1>2. StoreInv' /\ Over' = Over /\ Begun' = Begun /\ JobsRunning' = JobsRunning
  BY <1>1 DEF CleanupInv, StoreInv, store, Over, Begun, JobsRunning
<1>3. FailedVols \subseteq Over /\ PurgedVols \subseteq Over /\ Catalogued \subseteq Begun
  BY DEF CleanupInv, StoreInv, FailedVols, PurgedVols, Catalogued, Over, Begun
<1>4. Visible \subseteq {w \in Begun : job[w] # "labelled"}
  BY DEF CleanupInv, CleanupTypeOK, StoreInv, Visible, Begun
<1>5. CASE FailedSelect
  BY <1>1, <1>2, <1>3, <1>5
  DEF FailedSelect, Snapshot, CleanupInv, ScriptInv, CleanupTypeOK, Ahead, InHand, Idle, store
<1>6. CASE MissingList
  BY <1>1, <1>2, <1>4, <1>6
  DEF MissingList, Snapshot, CleanupInv, ScriptInv, CleanupTypeOK, Ahead, InHand, Idle, store
<1>7. CASE OrphansSelect
  BY <1>1, <1>2, <1>3, <1>7
  DEF OrphansSelect, Careful, Snapshot, CleanupInv, ScriptInv, CleanupTypeOK, Ahead, InHand,
      Idle, store
<1>8. CASE PurgedSelect
  BY <1>1, <1>2, <1>3, <1>8
  DEF PurgedSelect, Snapshot, CleanupInv, ScriptInv, CleanupTypeOK, Ahead, InHand, Idle, store
<1> QED
  BY <1>2, <1>5, <1>6, <1>7, <1>8

\* A script that goes on, drops what it has in hand or dies has nothing else in
\* hand than before, or what it was about to treat; the others' are untouched.
LEMMA HandsInv ==
  ASSUME CleanupTypeOK, NEW s \in Script, NEW v \in todo[s],
         Skip(s, v) \/ Take(s, v) \/ Put(s) \/ Die(s)
  PROVE  /\ \A t : Ahead(t)' \subseteq Ahead(t)
         /\ \A t : t # s => Ahead(t)' = Ahead(t) /\ InHand(t)' = InHand(t)
         /\ Skip(s, v) => InHand(s)' = InHand(s)
         /\ Take(s, v) => InHand(s)' \subseteq {v}
         /\ Put(s) \/ Die(s) => InHand(s)' = {}
BY DEF CleanupTypeOK, Skip, Take, Put, Die, Ahead, InHand

LEMMA EmptyHandsInv ==
  ASSUME CleanupTypeOK, NEW s \in Script, Put(s) \/ Die(s)
  PROVE  /\ \A t : Ahead(t)' \subseteq Ahead(t)
         /\ \A t : t # s => Ahead(t)' = Ahead(t) /\ InHand(t)' = InHand(t)
         /\ InHand(s)' = {}
BY DEF CleanupTypeOK, Put, Die, Ahead, InHand

\* What is over may lose its file and its entry.
LEMMA RemovalInv ==
  ASSUME CleanupInv, UNCHANGED job, NEW v \in Over,
         volstatus' \in {volstatus, [volstatus EXCEPT ![v] = "none"]},
         stored' \in {stored, stored \ {v}}
  PROVE  StoreInv' /\ Over' = Over /\ Begun' = Begun /\ JobsRunning' = JobsRunning
BY DEF CleanupInv, CleanupTypeOK, StoreInv, Over, Begun, JobsRunning

LEMMA FailedInv ==
  ASSUME Careful, CleanupInv, NEW v, FailedRemove(v) \/ FailedDelete
  PROVE  StoreInv' /\ ScriptInv'
<1>1. CASE FailedRemove(v)
  <2>1. "failed" \in Script /\ v \in todo["failed"] /\ v \in Over
    BY <1>1 DEF FailedRemove, Between, CleanupInv, ScriptInv, Ahead
  <2>2. StoreInv' /\ Over' = Over /\ Begun' = Begun /\ JobsRunning' = JobsRunning
    BY <1>1, <2>1, RemovalInv DEF FailedRemove
  <2>3. job' = job /\ mounted' = mounted /\ found' = found
    BY <1>1 DEF FailedRemove
  <2>4. Take("failed", v) \/ Die("failed")
    BY <1>1 DEF FailedRemove
  <2>5. (Idle("orphans") <=> Idle("orphans")')
    BY <2>1, <2>4 DEF CleanupInv, CleanupTypeOK, Take, Die, Idle
  <2> QED
    BY <2>1, <2>2, <2>3, <2>4, <2>5, HandsInv DEF CleanupInv, ScriptInv
<1>2. CASE FailedDelete
  <2>1. "failed" \in Script /\ current["failed"] \in Over /\ Put("failed")
    BY <1>2 DEF FailedDelete, DeleteVolume, CleanupInv, ScriptInv, InHand
  <2>2. StoreInv' /\ Over' = Over /\ Begun' = Begun /\ JobsRunning' = JobsRunning
    BY <1>2, <2>1, RemovalInv DEF FailedDelete, DeleteVolume
  <2>3. job' = job /\ mounted' = mounted /\ found' = found
    BY <1>2 DEF FailedDelete, DeleteVolume
  <2>4. (Idle("orphans") <=> Idle("orphans")')
    BY <2>1 DEF CleanupInv, CleanupTypeOK, Put, Idle
  <2> QED
    BY <2>1, <2>2, <2>3, <2>4, EmptyHandsInv DEF CleanupInv, ScriptInv
<1> QED
  BY <1>1, <1>2

LEMMA MissingInv ==
  ASSUME Careful, CleanupInv, NEW v, MissingCheck(v) \/ MissingRemove
  PROVE  StoreInv' /\ ScriptInv'
<1>1. CASE MissingCheck(v)
  <2>1. "missing" \in Script /\ v \in todo["missing"] /\ v \in Begun /\ job[v] # "labelled"
    BY <1>1 DEF MissingCheck, Between, CleanupInv, ScriptInv, Ahead
  <2>2. UNCHANGED <<job, volstatus, stored, mounted, found>>
    BY <1>1 DEF MissingCheck, store
  <2>3. StoreInv' /\ Over' = Over /\ Begun' = Begun /\ JobsRunning' = JobsRunning
    BY <2>2 DEF CleanupInv, StoreInv, Over, Begun, JobsRunning
  <2>4. Skip("missing", v) \/ (volstatus[v] = "none" /\ Take("missing", v))
    BY <1>1 DEF MissingCheck, Careful, has_catalog_entry
  \* No entry means that the job is over: the catalog answered.
  <2>5. volstatus[v] = "none" => v \in Over
    BY <2>1 DEF CleanupInv, CleanupTypeOK, StoreInv, Over, Begun, Stage
  <2>6. (Idle("orphans") <=> Idle("orphans")')
    BY <2>1, <2>4 DEF CleanupInv, CleanupTypeOK, Take, Skip, Idle
  <2> QED
    BY <2>1, <2>2, <2>3, <2>4, <2>5, <2>6, HandsInv DEF CleanupInv, ScriptInv
<1>2. CASE MissingRemove
  <2>1. "missing" \in Script /\ current["missing"] \in Over /\ (Put("missing") \/ Die("missing"))
    BY <1>2 DEF MissingRemove, CleanupInv, ScriptInv, InHand
  <2>2. StoreInv' /\ Over' = Over /\ Begun' = Begun /\ JobsRunning' = JobsRunning
    BY <1>2, <2>1, RemovalInv DEF MissingRemove
  <2>3. job' = job /\ mounted' = mounted /\ found' = found
    BY <1>2 DEF MissingRemove
  <2>4. (Idle("orphans") <=> Idle("orphans")')
    BY <2>1 DEF CleanupInv, CleanupTypeOK, Put, Die, Idle
  <2> QED
    BY <2>1, <2>2, <2>3, <2>4, EmptyHandsInv DEF CleanupInv, ScriptInv
<1> QED
  BY <1>1, <1>2

LEMMA PurgedInv ==
  ASSUME Careful, CleanupInv, NEW v,
         PurgedSkip(v) \/ PurgedRemove(v) \/ PurgedDelete
  PROVE  StoreInv' /\ ScriptInv'
<1>1. CASE PurgedSkip(v) \/ PurgedRemove(v)
  <2>1. "purged" \in Script /\ v \in todo["purged"] /\ v \in Over
    BY <1>1 DEF PurgedSkip, PurgedRemove, Between, CleanupInv, ScriptInv, Ahead
  <2>2. job' = job /\ mounted' = mounted /\ found' = found
    BY <1>1 DEF PurgedSkip, PurgedRemove, store
  <2>3. StoreInv' /\ Over' = Over /\ Begun' = Begun /\ JobsRunning' = JobsRunning
    BY <1>1, <2>1, <2>2, RemovalInv DEF PurgedSkip, PurgedRemove, store
  <2>4. Skip("purged", v) \/ Take("purged", v)
    BY <1>1 DEF PurgedSkip, PurgedRemove
  <2>5. (Idle("orphans") <=> Idle("orphans")')
    BY <2>1, <2>4 DEF CleanupInv, CleanupTypeOK, Take, Skip, Idle
  <2> QED
    BY <2>1, <2>2, <2>3, <2>4, <2>5, HandsInv DEF CleanupInv, ScriptInv
<1>2. CASE PurgedDelete
  <2>1. "purged" \in Script /\ current["purged"] \in Over /\ Put("purged")
    BY <1>2 DEF PurgedDelete, DeleteVolume, CleanupInv, ScriptInv, InHand
  <2>2. StoreInv' /\ Over' = Over /\ Begun' = Begun /\ JobsRunning' = JobsRunning
    BY <1>2, <2>1, RemovalInv DEF PurgedDelete, DeleteVolume
  <2>3. job' = job /\ mounted' = mounted /\ found' = found
    BY <1>2 DEF PurgedDelete, DeleteVolume
  <2>4. (Idle("orphans") <=> Idle("orphans")')
    BY <2>1 DEF CleanupInv, CleanupTypeOK, Put, Idle
  <2> QED
    BY <2>1, <2>2, <2>3, <2>4, EmptyHandsInv DEF CleanupInv, ScriptInv
<1> QED
  BY <1>1, <1>2

LEMMA OrphansInv ==
  ASSUME Careful, CleanupInv, NEW v, OrphansProbe(v) \/ OrphansLook \/ OrphansDelete
  PROVE  StoreInv' /\ ScriptInv'
<1>1. CASE OrphansProbe(v)
  <2>1. "orphans" \in Script /\ v \in todo["orphans"] /\ v \in Begun /\ ~ Idle("orphans")
        /\ ~ found
    BY <1>1 DEF OrphansProbe, Between, CleanupInv, ScriptInv, Ahead, InHand, Idle
  <2>2. UNCHANGED <<job, volstatus, stored, mounted, found>>
    BY <1>1 DEF OrphansProbe, store
  <2>3. StoreInv' /\ Over' = Over /\ Begun' = Begun /\ JobsRunning' = JobsRunning
    BY <2>2 DEF CleanupInv, StoreInv, Over, Begun, JobsRunning
  <2>4. Skip("orphans", v) \/ (mounted /\ Take("orphans", v))
    BY <1>1 DEF OrphansProbe, StorageMounted
  <2>5. InHand("orphans") = {}
    BY <1>1 DEF OrphansProbe, Between, InHand
  <2> QED
    BY <2>1, <2>2, <2>3, <2>4, <2>5, HandsInv DEF CleanupInv, ScriptInv
<1>2. CASE OrphansLook
  <2>1. "orphans" \in Script /\ current["orphans"] # NoVolume /\ ~ Idle("orphans") /\ ~ JobsRunning
        /\ mounted /\ current["orphans"] \in Begun /\ current["orphans"] \in Volume
    BY <1>2 DEF OrphansLook, CleanupInv, ScriptInv, InHand, Idle, Begun
  <2>2. UNCHANGED <<job, volstatus, stored, mounted>>
    BY <1>2 DEF OrphansLook, store
  <2>3. StoreInv' /\ Over' = Over /\ Begun' = Begun /\ JobsRunning' = JobsRunning
    BY <2>2 DEF CleanupInv, StoreInv, Over, Begun, JobsRunning
  \* A missing file on a mounted storage belongs to a job that is over.
  <2>4. current["orphans"] \notin Visible => current["orphans"] \in Over
    BY <2>1 DEF CleanupInv, CleanupTypeOK, StoreInv, Visible, JobsRunning, Begun, Over, Stage
  <2>5. CASE Put("orphans") /\ found' = FALSE
    BY <2>1, <2>2, <2>3, <2>5, EmptyHandsInv DEF CleanupInv, ScriptInv
  <2>6. CASE current["orphans"] \notin Visible /\ found' = TRUE /\ UNCHANGED <<todo, current>>
    BY <2>1, <2>2, <2>3, <2>4, <2>6 DEF CleanupInv, ScriptInv, Ahead, InHand, Idle
  <2> QED
    BY <1>2, <2>5, <2>6 DEF OrphansLook
<1>3. CASE OrphansDelete
  <2>1. "orphans" \in Script /\ current["orphans"] \in Over /\ ~ Idle("orphans") /\ Put("orphans")
    BY <1>3 DEF OrphansDelete, CleanupInv, ScriptInv, InHand, Idle
  <2>2. StoreInv' /\ Over' = Over /\ Begun' = Begun /\ JobsRunning' = JobsRunning
    BY <1>3, <2>1, RemovalInv DEF OrphansDelete
  <2>3. job' = job /\ mounted' = mounted /\ found' = FALSE
    BY <1>3 DEF OrphansDelete
  <2> QED
    BY <2>1, <2>2, <2>3, EmptyHandsInv DEF CleanupInv, ScriptInv
<1> QED
  BY <1>1, <1>2, <1>3

LEMMA SurroundingsInv ==
  ASSUME Careful, CleanupInv,
         Mount \/ Unmount \/ Settle \/ (\E s \in Script : KillScript(s)) \/ UNCHANGED cleanupVars
  PROVE  StoreInv' /\ ScriptInv'
<1>1. UNCHANGED <<job, volstatus, stored>>
  BY DEF Mount, Unmount, Settle, KillScript, cleanupVars, store
<1>2. StoreInv' /\ Over' = Over /\ Begun' = Begun /\ JobsRunning' = JobsRunning
  BY <1>1 DEF CleanupInv, StoreInv, Over, Begun, JobsRunning
<1>3. CASE Mount \/ Settle \/ UNCHANGED cleanupVars
  BY <1>2, <1>3
  DEF Mount, Settle, cleanupVars, store, CleanupInv, ScriptInv, Ahead, InHand, Idle
<1>4. CASE Unmount
  BY <1>2, <1>4 DEF Unmount, Careful, CleanupInv, ScriptInv, Ahead, InHand, Idle
<1>5. ASSUME NEW s \in Script, KillScript(s) PROVE ScriptInv'
  <2>1. Die(s) /\ UNCHANGED <<mounted>> /\ found' = (found /\ s # "orphans")
    BY <1>5 DEF KillScript, store
  <2>2. ~ Idle("orphans")' => ~ Idle("orphans")
    BY <2>1 DEF CleanupInv, CleanupTypeOK, Die, Idle
  <2>3. /\ \A t : Ahead(t)' \subseteq Ahead(t)
        /\ \A t : InHand(t)' \subseteq InHand(t)
    BY <2>1, EmptyHandsInv DEF CleanupInv
  <2>4. found' => found /\ InHand("orphans")' = InHand("orphans")
    BY <2>1, EmptyHandsInv DEF CleanupInv
  <2> QED
    <3>1. mounted' = mounted
      BY <2>1
    <3>2. ScriptInv
      BY DEF CleanupInv
    <3> QED
      BY <1>1, <1>2, <2>2, <2>3, <2>4, <3>1, <3>2 DEF ScriptInv
<1> QED
  BY <1>2, <1>3, <1>4, <1>5

\* Used with care, no script ever has a backup worth keeping in hand.
THEOREM CleanupInvariant == ASSUME Careful PROVE CleanupSpec => []CleanupInv
<1>1. CleanupInit => StoreInv /\ ScriptInv
  <2> SUFFICES ASSUME CleanupInit PROVE StoreInv /\ ScriptInv
    OBVIOUS
  <2>1. StoreInv
    BY DEF CleanupInit, StoreInv
  <2>2. \A s : Ahead(s) = {} /\ InHand(s) = {} /\ Idle(s)
    BY DEF CleanupInit, Ahead, InHand, Idle
  <2>3. ~ found
    BY DEF CleanupInit
  <2> QED
    BY <2>1, <2>2, <2>3 DEF ScriptInv
<1>2. CleanupTypeOK /\ StoreInv /\ ScriptInv /\ [CleanupNext]_cleanupVars => StoreInv' /\ ScriptInv'
  <2> SUFFICES ASSUME CleanupInv, [CleanupNext]_cleanupVars PROVE StoreInv' /\ ScriptInv'
    BY DEF CleanupInv
  <2>1. CASE BackupStep \/ (\E v \in Volume : PruneVolume(v))
    BY <2>1, JobStepInv, PruneInv DEF BackupStep
  <2>2. CASE Failed \/ PurgedRun
    BY <2>2, SnapshotInv, FailedInv, PurgedInv DEF Failed, PurgedRun
  <2>3. CASE Missing
    BY <2>3, SnapshotInv, MissingInv DEF Missing
  <2>4. CASE Orphans
    BY <2>4, SnapshotInv, OrphansInv DEF Orphans
  <2>5. CASE Mount \/ Unmount \/ Settle \/ (\E s \in Script : KillScript(s)) \/ UNCHANGED cleanupVars
    BY <2>5, SurroundingsInv
  <2> QED
    BY <2>1, <2>2, <2>3, <2>4, <2>5 DEF CleanupNext
<1>3. CleanupSpec => [](StoreInv /\ ScriptInv)
  BY <1>1, <1>2, ScriptsTypeCorrect, PTL DEF CleanupSpec
<1> QED
  BY <1>3, ScriptsTypeCorrect, PTL DEF CleanupInv

\* However the scripts interleave with each other and with jobs, a backup that
\* has succeeded keeps its file and its entry until it is pruned.
THEOREM GoodBackupsKept == ASSUME Careful PROVE CleanupSpec => []GoodKept
<1>1. CleanupInv => GoodKept
  BY DEF CleanupInv, StoreInv, GoodKept
<1> QED
  BY <1>1, CleanupInvariant, PTL

\* Nor do they take a volume from a job that runs.
THEOREM RunningJobsKept == ASSUME Careful PROVE CleanupSpec => []RunningKept
<1>1. CleanupInv => RunningKept
  BY DEF CleanupInv, StoreInv, RunningKept
<1> QED
  BY <1>1, CleanupInvariant, PTL
=============================================================================
