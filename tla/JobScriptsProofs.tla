-------------------------- MODULE JobScriptsProofs --------------------------
(***************************************************************************)
(* Theorems about JobScripts, for any number of jobs and days.             *)
(***************************************************************************)
EXTENDS JobScripts, FiniteSetTheorems, TLAPS

-----------------------------------------------------------------------------
(***************************************************************************)
(* Types.                                                                  *)
(***************************************************************************)
LEMMA NightInitTypes == NightInit => NightTypeOK
  BY JobScriptsAssumption DEF NightInit, NightTypeOK, Job, Day, Phase, Mounter

\* The ways a run ends.
LEMMA EndRunTypes ==
  ASSUME NightTypeOK, NEW j \in Job
  PROVE  /\ j \in EncJob /\ EndEncRun(j) =>
              /\ phase' \in [Job -> Phase] /\ cancelled' \in [EncJob -> BOOLEAN]
              /\ where' \in [EncJob -> Mounter]
         /\ \A removed \in BOOLEAN : j \in DumpJob /\ EndDumpRun(j, removed) =>
              /\ phase' \in [Job -> Phase] /\ born' \in [DumpJob -> 0..MaxDay]
              /\ made' \in [DumpJob -> BOOLEAN] /\ left' \in [DumpJob -> Nat]
<1>1. phase \in [Job -> Phase] /\ "idle" \in Phase /\ 0 \in 0..MaxDay
  BY JobScriptsAssumption DEF NightTypeOK, Phase
<1>2. ASSUME j \in EncJob, EndEncRun(j)
      PROVE  /\ phase' \in [Job -> Phase] /\ cancelled' \in [EncJob -> BOOLEAN]
             /\ where' \in [EncJob -> Mounter]
  BY <1>1, <1>2 DEF EndEncRun, Go, NightTypeOK, Mounter
<1>3. ASSUME NEW removed \in BOOLEAN, j \in DumpJob, EndDumpRun(j, removed)
      PROVE  /\ phase' \in [Job -> Phase] /\ born' \in [DumpJob -> 0..MaxDay]
             /\ made' \in [DumpJob -> BOOLEAN] /\ left' \in [DumpJob -> Nat]
  <2>1. phase' \in [Job -> Phase] /\ born' \in [DumpJob -> 0..MaxDay] /\ made' \in [DumpJob -> BOOLEAN]
    BY <1>1, <1>3 DEF EndDumpRun, Go, NightTypeOK
  <2>2. left' \in [DumpJob -> Nat]
    BY <1>3 DEF EndDumpRun, NightTypeOK
  <2> QED
    BY <2>1, <2>2
<1> QED
  BY <1>2, <1>3

\* The steps of the mount script are those of jobs that use it, since no other
\* job comes to its phases.
EncPhase == {"look", "umount", "lazy", "mount", "verify"}
DumpPhase == {"create", "dumping"}
OwnPhases ==
  /\ \A j \in EncJob : phase[j] \notin DumpPhase
  /\ \A j \in DumpJob : phase[j] \notin EncPhase

Typed == NightTypeOK /\ OwnPhases

LEMMA MountTypes ==
  ASSUME Typed, NEW j \in Job, encfs_mount(j), UNCHANGED monitorVars
  PROVE  NightTypeOK' /\ j \in EncJob
<1>1. j \in EncJob
  BY DEF Typed, OwnPhases, EncPhase, Job, encfs_mount, Look, Umount, LazyUmount, MountEnc, Verify
<1>2. mount' \in Mounter
  BY DEF Typed, NightTypeOK, encfs_mount, Look, Umount, LazyUmount, MountEnc, Verify,
     umount, lazy_umount, SetMount, Umounted, Mounter
<1>3. cancelled' \in [EncJob -> BOOLEAN]
  BY <1>1 DEF Typed, NightTypeOK, encfs_mount, Look, Umount, LazyUmount, MountEnc, Verify, cancle_job
<1>4. phase' \in [Job -> Phase]
  <2>1. \A p \in Phase : Go(j, p) => phase' \in [Job -> Phase]
    BY DEF Typed, NightTypeOK, Go
  <2>2. \E p \in Phase : Go(j, p)
    BY DEF encfs_mount, Look, Umount, LazyUmount, MountEnc, Verify, Phase
  <2> QED
    BY <2>1, <2>2
<1> QED
  BY <1>1, <1>2, <1>3, <1>4 DEF Typed, NightTypeOK, encfs_mount, dumpVars, monitorVars, Job, Day,
     Phase, Mounter, Dump

LEMMA MountPhases ==
  ASSUME Typed, NEW j \in Job, encfs_mount(j), UNCHANGED monitorVars
  PROVE  OwnPhases'
<1>1. j \in EncJob /\ j \notin DumpJob
  BY MountTypes, JobScriptsAssumption
<1>2. \E p \in Phase \ DumpPhase : Go(j, p)
  BY DEF encfs_mount, Look, Umount, LazyUmount, MountEnc, Verify, Phase, DumpPhase
<1> QED
  BY <1>1, <1>2 DEF Typed, NightTypeOK, OwnPhases, Go, Job

LEMMA CompletedDumps ==
  ASSUME NEW S \in SUBSET Dump
  PROVE  Completed(S) \subseteq Dump
<1> SUFFICES ASSUME NEW f \in S
             PROVE  [of |-> f.of, day |-> f.day, whole |-> TRUE] \in Dump
  BY DEF Completed
<1> QED
  BY f \in Dump DEF Dump

\* One step keeps the types, and keeps jobs to the phases of their scripts.
LEMMA StepTyped ==
  ASSUME Typed, [NightNext]_nightVars
  PROVE  Typed'
<1> USE DEF Typed
<1>0. /\ NightTypeOK /\ OwnPhases
      /\ \A j \in EncJob : j \in Job /\ j \notin DumpJob
      /\ \A j \in DumpJob : j \in Job /\ j \notin EncJob
      /\ 0 \in 0..MaxDay /\ Day \subseteq 0..MaxDay
  BY JobScriptsAssumption DEF Job, Day
<1>1. ASSUME NEW j \in Job, encfs_mount(j), UNCHANGED monitorVars PROVE Typed'
  BY <1>1, MountTypes, MountPhases
<1>a. ASSUME NEW j \in EncJob, EndEncRun(j), UNCHANGED <<day, started, good, dumpVars, monitorVars>>,
             mount' \in Mounter
      PROVE  Typed'
  <2>1. NightTypeOK'
    BY <1>0, <1>a, EndRunTypes DEF NightTypeOK, dumpVars, monitorVars, Job, Day, Phase, Mounter, Dump
  <2>2. OwnPhases'
    BY <1>0, <1>a DEF NightTypeOK, OwnPhases, EndEncRun, Go, EncPhase, DumpPhase
  <2> QED
    BY <2>1, <2>2
<1>b. ASSUME NEW j \in DumpJob, NEW removed \in BOOLEAN, EndDumpRun(j, removed), dumps' \subseteq dumps,
             UNCHANGED <<day, started, good, cancelled, mount, where, monitorVars>>
      PROVE  Typed'
  <2>1. NightTypeOK'
    <3>1. dumps' \subseteq Dump
      BY <1>b DEF NightTypeOK
    <3>2. /\ phase' \in [Job -> Phase] /\ born' \in [DumpJob -> 0..MaxDay]
          /\ made' \in [DumpJob -> BOOLEAN] /\ left' \in [DumpJob -> Nat]
      BY <1>0, <1>b, EndRunTypes
    <3> QED
      BY <1>0, <1>b, <3>1, <3>2 DEF NightTypeOK, monitorVars, Job, Day, Phase, Mounter, Dump
  <2>2. OwnPhases'
    BY <1>0, <1>b DEF NightTypeOK, OwnPhases, EndDumpRun, Go, EncPhase, DumpPhase
  <2> QED
    BY <2>1, <2>2
<1>2. ASSUME NEW j \in Job, AfterEnc(j), UNCHANGED monitorVars PROVE Typed'
  <2>1. mount' \in Mounter
    BY <1>0, <1>2 DEF AfterEnc, umount, SetMount, Umounted, Mounter, NightTypeOK
  <2> QED
    BY <1>2, <1>a, <2>1 DEF AfterEnc
<1>3. ASSUME NEW j \in Job, CreateDump(j), UNCHANGED monitorVars PROVE Typed'
  <2>1. j \in DumpJob
    BY <1>0, <1>3 DEF CreateDump, OwnPhases, DumpPhase, Job
  <2>2. dumps' \subseteq Dump /\ born' \in [DumpJob -> 0..MaxDay]
    <3>1. [of |-> j, day |-> day, whole |-> FALSE] \in Dump
      BY <2>1 DEF NightTypeOK, Dump
    <3>2. born' \in [DumpJob -> 0..MaxDay]
      BY <1>0, <1>3, <2>1 DEF CreateDump, NightTypeOK
    <3> QED
      BY <1>0, <1>3, <3>1, <3>2 DEF CreateDump, NightTypeOK
  <2>3. phase' \in [Job -> Phase] /\ OwnPhases'
    BY <1>0, <1>3, <2>1 DEF CreateDump, NightTypeOK, OwnPhases, Go, Phase, EncPhase, DumpPhase
  <2> QED
    BY <1>0, <1>3, <2>2, <2>3 DEF CreateDump, NightTypeOK, monitorVars, Job, Day, Phase, Mounter, Dump
<1>4. ASSUME NEW j \in Job, EndDump(j), UNCHANGED monitorVars PROVE Typed'
  <2>1. j \in DumpJob
    BY <1>0, <1>4 DEF EndDump, OwnPhases, DumpPhase, Job
  <2>2. dumps' \subseteq Dump /\ made' \in [DumpJob -> BOOLEAN]
    <3>1. Completed(Named(j, born[j])) \subseteq Dump
      BY <1>0, CompletedDumps DEF Named, NightTypeOK
    <3> QED
      BY <1>0, <1>4, <2>1, <3>1 DEF EndDump, NightTypeOK
  <2>3. phase' \in [Job -> Phase] /\ OwnPhases'
    BY <1>0, <1>4, <2>1 DEF EndDump, NightTypeOK, OwnPhases, Go, Phase, EncPhase, DumpPhase
  <2> QED
    BY <1>0, <1>4, <2>2, <2>3 DEF EndDump, NightTypeOK, monitorVars, Job, Day, Phase, Mounter, Dump
<1>5. ASSUME NEW j \in Job, AfterDump(j), UNCHANGED monitorVars PROVE Typed'
  <2>1. j \in DumpJob /\ dumps' \subseteq dumps /\ \E removed \in BOOLEAN : EndDumpRun(j, removed)
    BY <1>5 DEF AfterDump, delbackup
  <2> QED
    BY <1>5, <1>b, <2>1 DEF AfterDump
<1>6. ASSUME NEW j \in Job, StartJob(j), UNCHANGED monitorVars PROVE Typed'
  <2>1. phase' \in [Job -> Phase] /\ OwnPhases' /\ started' \in [Job -> 0..MaxDay]
    BY <1>0, <1>6 DEF StartJob, NightTypeOK, OwnPhases, Go, Phase, EncPhase, DumpPhase, Job
  <2> QED
    BY <1>0, <1>6, <2>1 DEF StartJob, NightTypeOK, dumpVars, monitorVars, Job, Day, Phase, Mounter, Dump
<1>7. ASSUME NEW j \in Job, BeginJob(j), UNCHANGED monitorVars PROVE Typed'
  <2>1. phase' \in [Job -> Phase] /\ OwnPhases' /\ where' \in [EncJob -> Mounter]
    BY <1>0, <1>7 DEF BeginJob, NightTypeOK, OwnPhases, Go, Phase, EncPhase, DumpPhase, Job
  <2> QED
    BY <1>0, <1>7, <2>1 DEF BeginJob, NightTypeOK, dumpVars, monitorVars, Job, Day, Phase, Mounter, Dump
<1>8. ASSUME NEW j \in Job, Drop(j), UNCHANGED monitorVars PROVE Typed'
  BY <1>8, <1>0, <1>a, <1>b DEF Drop, NightTypeOK
<1>9. ASSUME NEW j \in Job, EndJob(j) PROVE Typed'
  <2>1. phase' \in [Job -> Phase] /\ OwnPhases'
    BY <1>0, <1>9 DEF EndJob, NightTypeOK, OwnPhases, Go, Phase, EncPhase, DumpPhase, Job
  <2>2. good' \in [Job -> 0..MaxDay] /\ mailed' \subseteq Job
    BY <1>0, <1>9 DEF EndJob, NightTypeOK
  <2> QED
    BY <1>0, <1>9, <2>1, <2>2 DEF EndJob, NightTypeOK, dumpVars, Job, Day, Phase, Mounter, Dump
<1>10. ASSUME NEW j \in Job, PruneJob(j) PROVE Typed'
  <2>1. good' \in [Job -> 0..MaxDay]
    BY <1>0, <1>10 DEF PruneJob, NightTypeOK
  <2> QED
    BY <1>0, <1>10, <2>1 DEF PruneJob, NightTypeOK, OwnPhases, scriptVars, dumpVars, monitorVars, Job,
       Day, Phase, Mounter, Dump
<1>11. ASSUME ForeignMount, UNCHANGED monitorVars PROVE Typed'
  BY <1>0, <1>11 DEF ForeignMount, SetMount, NightTypeOK, OwnPhases, dumpVars, monitorVars, Job, Day,
     Phase, Mounter, Dump
<1>12. ASSUME NextDay PROVE Typed'
  <2>1. day' \in Day
    BY <1>0, <1>12, JobScriptsAssumption DEF NextDay, NightTypeOK, Day
  <2> QED
    BY <1>0, <1>12, <2>1 DEF NextDay, NightTypeOK, OwnPhases, scriptVars, dumpVars, monitorVars, Job, Day,
       Phase, Mounter, Dump
<1>13. ASSUME Monitor PROVE Typed'
  <2>1. rows' \in [Job -> 0..MaxDay] /\ mailed' \subseteq Job
    BY <1>0, <1>13 DEF Monitor, MonitorSelect, NewestGood, MonitorJob, NightTypeOK
  <2> QED
    BY <1>0, <1>13, <2>1 DEF Monitor, MonitorSelect, MonitorJob, NightTypeOK, OwnPhases, jobVars,
       scriptVars, dumpVars, Job, Day, Phase, Mounter, Dump
<1>14. ASSUME UNCHANGED nightVars PROVE Typed'
  BY <1>0, <1>14 DEF nightVars, jobVars, NightTypeOK, OwnPhases, scriptVars, dumpVars, monitorVars, Job,
     Day, Phase, Mounter, Dump
<1>15. ASSUME NEW j \in Job, JobStep(j) PROVE Typed'
  BY <1>15, <1>1, <1>2, <1>3, <1>4, <1>5, <1>6, <1>7, <1>8, <1>9, <1>10 DEF JobStep, RefuseJob, FailJob, Kill
<1> QED
  BY <1>11, <1>12, <1>13, <1>14, <1>15 DEF NightNext

\* The variables keep their types, whatever fails and however jobs overlap.
THEOREM NightTypeCorrect == NightSpec => []NightTypeOK
<1>1. NightInit => Typed
  BY NightInitTypes, JobScriptsAssumption DEF NightInit, Typed, OwnPhases, EncPhase, DumpPhase, Job
<1>2. Typed /\ [NightNext]_nightVars => Typed'
  BY StepTyped
<1>3. Typed => NightTypeOK
  BY DEF Typed
<1> QED
  BY <1>1, <1>2, <1>3, PTL DEF NightSpec

-----------------------------------------------------------------------------
(***************************************************************************)
(* The mount.  NeverInClear rests on three things: jobs that share the     *)
(* directory do not overlap, bconsole passes the cancellation on, and a    *)
(* job whose script is over has its mount or has been cancelled.           *)
(***************************************************************************)
Orderly == Serial /\ "bconsole" \notin NightFaults

OneAtATime == \A j, k \in EncJob : Active(j) /\ Active(k) => j = k
MountedOrCancelled == \A j \in EncJob : phase[j] = "ready" => cancelled[j] \/ mount = "own"
MountInv == Typed /\ OneAtATime /\ MountedOrCancelled /\ NeverInClear

\* A step that starts no EncJob and leaves those that go on as they are, and
\* their mount as long as one is ready.
LEMMA MountKept ==
  ASSUME MountInv,
         \A k \in EncJob : Active(k)' => Active(k),
         \A k \in EncJob : phase'[k] = "ready" => cancelled'[k] \/ mount' = "own",
         \A k \in EncJob : phase'[k] = "writing" => where'[k] = "own"
  PROVE  OneAtATime' /\ MountedOrCancelled' /\ NeverInClear'
  BY DEF MountInv, OneAtATime, MountedOrCancelled, NeverInClear

LEMMA MountStep ==
  ASSUME Orderly, MountInv, [NightNext]_nightVars
  PROVE  OneAtATime' /\ MountedOrCancelled' /\ NeverInClear'
<1>0. /\ NightTypeOK /\ OneAtATime /\ MountedOrCancelled /\ NeverInClear
      /\ \A j \in EncJob : j \in Job /\ j \notin DumpJob
      /\ \A j \in DumpJob : j \in Job /\ j \notin EncJob
  BY JobScriptsAssumption DEF MountInv, Typed, Job
\* The mount script: nobody else is active.
<1>1. ASSUME NEW j \in Job, encfs_mount(j), UNCHANGED monitorVars
      PROVE  OneAtATime' /\ MountedOrCancelled' /\ NeverInClear'
  <2>1. j \in EncJob
    BY <1>1, MountTypes DEF MountInv
  <2>2. \E p \in Phase \ {"idle", "writing"} : Go(j, p)
    BY <1>1 DEF encfs_mount, Look, Umount, LazyUmount, MountEnc, Verify, Phase
  <2>3. phase[j] # "idle" /\ where' = where
    BY <1>1 DEF encfs_mount, Look, Umount, LazyUmount, MountEnc, Verify
  <2>4. \A k \in EncJob : k # j => phase'[k] = "idle"
    BY <1>0, <2>1, <2>2, <2>3 DEF OneAtATime, Active, Go, NightTypeOK
  <2>5. phase'[j] = "ready" => cancelled'[j] \/ mount' = "own"
    <3>1. cancle_job(j) => cancelled'[j]
      BY <1>0, <2>1 DEF cancle_job, Orderly, NightTypeOK
    <3>2. \A p \in Phase : Go(j, p) => phase'[j] = p
      BY <1>0, <2>1 DEF Go, NightTypeOK
    <3>3. CASE Look(j)
      BY <3>2, <3>3 DEF Look, Phase
    <3>4. CASE Umount(j)
      BY <3>2, <3>4 DEF Umount, Phase
    <3>5. CASE LazyUmount(j)
      BY <3>1, <3>2, <3>5 DEF LazyUmount, Phase
    <3>6. CASE MountEnc(j)
      BY <3>1, <3>2, <3>6 DEF MountEnc, Phase
    <3>7. CASE Verify(j)
      BY <3>1, <3>7 DEF Verify, IsMounted
    <3> QED
      BY <1>1, <3>3, <3>4, <3>5, <3>6, <3>7 DEF encfs_mount
  <2>6. phase'[j] # "writing"
    BY <1>0, <2>1, <2>2 DEF Go, NightTypeOK
  <2> QED
    BY <2>3, <2>4, <2>5, <2>6, MountKept DEF Active
\* The end of an EncJob, after which nobody is active.
<1>a. ASSUME NEW j \in EncJob, phase[j] # "idle", EndEncRun(j)
      PROVE  OneAtATime' /\ MountedOrCancelled' /\ NeverInClear'
  <2>1. \A k \in EncJob : phase'[k] = "idle"
    BY <1>0, <1>a DEF OneAtATime, Active, EndEncRun, Go, NightTypeOK
  <2> QED
    BY <2>1, MountKept DEF Active
\* Steps of other jobs.
<1>b. ASSUME NEW j \in DumpJob, \E p \in Phase : Go(j, p), UNCHANGED <<cancelled, mount, where>>
      PROVE  OneAtATime' /\ MountedOrCancelled' /\ NeverInClear'
  <2>1. \A k \in EncJob : phase'[k] = phase[k]
    BY <1>0, <1>b DEF Go, NightTypeOK
  <2> QED
    BY <1>0, <1>b, <2>1, MountKept DEF Active, MountedOrCancelled, NeverInClear
<1>c. ASSUME UNCHANGED scriptVars
      PROVE  OneAtATime' /\ MountedOrCancelled' /\ NeverInClear'
  BY <1>0, <1>c, MountKept DEF scriptVars, Active, MountedOrCancelled, NeverInClear
<1>2. ASSUME NEW j \in Job, AfterEnc(j)
      PROVE  OneAtATime' /\ MountedOrCancelled' /\ NeverInClear'
  BY <1>2, <1>a DEF AfterEnc
<1>3. ASSUME NEW j \in Job, CreateDump(j) \/ EndDump(j) \/ AfterDump(j)
      PROVE  OneAtATime' /\ MountedOrCancelled' /\ NeverInClear'
  <2>1. j \in DumpJob
    BY <1>3 DEF CreateDump, EndDump, AfterDump, MountInv, Typed, OwnPhases, DumpPhase, Job
  <2> QED
    BY <1>3, <1>b, <2>1 DEF CreateDump, EndDump, AfterDump, EndDumpRun, Phase
<1>4. ASSUME NEW j \in Job, StartJob(j)
      PROVE  OneAtATime' /\ MountedOrCancelled' /\ NeverInClear'
  <2>1. CASE j \in EncJob
    <3>1. \A k \in EncJob : phase[k] = "idle"
      BY <1>4, <2>1 DEF StartJob, Orderly, Active
    <3>2. \A k \in EncJob : phase'[k] = IF k = j THEN "look" ELSE "idle"
      BY <1>0, <1>4, <2>1, <3>1 DEF StartJob, Go, NightTypeOK
    <3> QED
      BY <3>2 DEF OneAtATime, Active, MountedOrCancelled, NeverInClear
  <2>2. CASE j \in DumpJob
    BY <1>4, <1>b, <2>2, <1>0 DEF StartJob, Phase
  <2> QED
    BY <2>1, <2>2 DEF Job
<1>5. ASSUME NEW j \in Job, BeginJob(j)
      PROVE  OneAtATime' /\ MountedOrCancelled' /\ NeverInClear'
  <2>1. CASE j \in EncJob
    <3>1. mount = "own" /\ where'[j] = "own"
      BY <1>0, <1>5, <2>1 DEF BeginJob, Refused, MountedOrCancelled, NightTypeOK
    <3>2. \A k \in EncJob : k # j => phase'[k] = phase[k] /\ where'[k] = where[k]
      BY <1>0, <1>5, <2>1 DEF BeginJob, Go, NightTypeOK
    <3>3. phase[j] # "idle" /\ phase'[j] = "writing"
      BY <1>0, <1>5, <2>1 DEF BeginJob, Go, NightTypeOK
    <3> QED
      BY <1>0, <1>5, <3>1, <3>2, <3>3, MountKept DEF Active, NeverInClear, MountedOrCancelled, BeginJob
  <2>2. CASE j \in DumpJob
    BY <1>0, <1>5, <1>b, <2>2 DEF BeginJob, Phase
  <2> QED
    BY <2>1, <2>2 DEF Job
<1>6. ASSUME NEW j \in Job, phase[j] # "idle", Drop(j)
      PROVE  OneAtATime' /\ MountedOrCancelled' /\ NeverInClear'
  BY <1>6, <1>a, <1>b DEF Drop, EndDumpRun, Phase
<1>7. ASSUME NEW j \in Job, EndJob(j)
      PROVE  OneAtATime' /\ MountedOrCancelled' /\ NeverInClear'
  <2>1. \A k \in EncJob : k # j => phase'[k] = phase[k]
    BY <1>0, <1>7 DEF EndJob, Go, NightTypeOK
  <2>2. phase[j] = "writing" /\ phase'[j] = "after"
    BY <1>0, <1>7 DEF EndJob, Go, NightTypeOK
  <2> QED
    BY <1>0, <1>7, <2>1, <2>2, MountKept DEF Active, MountedOrCancelled, NeverInClear, EndJob
<1>8. ASSUME ForeignMount
      PROVE  OneAtATime' /\ MountedOrCancelled' /\ NeverInClear'
  BY <1>0, <1>8, MountKept DEF ForeignMount, SetMount, Active, MountedOrCancelled, NeverInClear
<1>9. ASSUME NEW j \in Job, JobStep(j)
      PROVE  OneAtATime' /\ MountedOrCancelled' /\ NeverInClear'
  BY <1>9, <1>1, <1>2, <1>3, <1>4, <1>5, <1>6, <1>7, <1>c
     DEF JobStep, RefuseJob, FailJob, Kill, PruneJob
<1>10. ASSUME NextDay \/ Monitor \/ UNCHANGED nightVars
      PROVE  OneAtATime' /\ MountedOrCancelled' /\ NeverInClear'
  BY <1>10, <1>c DEF NextDay, Monitor, MonitorSelect, MonitorJob, jobVars, nightVars
<1> QED
  BY <1>8, <1>9, <1>10 DEF NightNext

\* One job at a time, and cancellations that arrive: no job ever writes past the
\* encrypted mount, whatever mounts and unmounts fail and whoever is killed.
THEOREM NothingInClear ==
  ASSUME Orderly
  PROVE  NightSpec => []NeverInClear
<1>1. NightInit => MountInv
  BY NightInitTypes, JobScriptsAssumption DEF NightInit, MountInv, Typed, OwnPhases, EncPhase, DumpPhase,
     Job, OneAtATime, Active, MountedOrCancelled, NeverInClear
<1>2. MountInv /\ [NightNext]_nightVars => MountInv'
  BY MountStep, StepTyped DEF MountInv
<1>3. MountInv => NeverInClear
  BY DEF MountInv
<1> QED
  BY <1>1, <1>2, <1>3, PTL DEF NightSpec

-----------------------------------------------------------------------------
(***************************************************************************)
(* The dumps, where no database's name begins with another one's.  What a  *)
(* job does concerns the files of its own database only, so the invariant  *)
(* is one about each job for itself.                                       *)
(***************************************************************************)
OwnFiles == \A j \in DumpJob : Glob[j] = {j}

Files(j) == {f \in dumps : f.of = j}
File(j, d, whole) == [of |-> j, day |-> d, whole |-> whole]
Present(j) == IF born[j] = 0 THEN 0 ELSE 1

DumpInvOf(j) ==
  /\ phase[j] \in {"idle", "create"} => born[j] = 0
  /\ phase[j] \in {"idle", "create", "dumping"} => ~ made[j]
  /\ phase[j] = "dumping" => born[j] \in Day /\ Named(j, born[j]) = {File(j, born[j], FALSE)}
  /\ phase[j] \in {"ready", "writing"} /\ made[j] => File(j, born[j], TRUE) \in Files(j)
  /\ IsFiniteSet(Files(j))
  /\ Cardinality(Files(j)) <= left[j] + Present(j)

DumpInv == Typed /\ \A j \in DumpJob : DumpInvOf(j)

\* The files of a job and what is known of its run decide.
LEMMA DumpInvKept ==
  ASSUME NEW j \in DumpJob, DumpInvOf(j), Files(j)' = Files(j),
         phase'[j] = phase[j], born'[j] = born[j], made'[j] = made[j], left'[j] = left[j]
  PROVE  DumpInvOf(j)'
<1>1. \A d : Named(j, d)' = {f \in Files(j) : f.day = d} /\ Named(j, d) = {f \in Files(j) : f.day = d}
  BY DEF Named, Files
<1> QED
  BY <1>1 DEF DumpInvOf, Present, File

\* A job goes on to a phase of no concern for its dump.
LEMMA DumpInvOn ==
  ASSUME NEW j \in DumpJob, DumpInvOf(j), Files(j)' = Files(j),
         \/ phase[j] = "idle" /\ phase'[j] = "create"
         \/ phase[j] = "ready" /\ phase'[j] = "writing"
         \/ phase[j] = "writing" /\ phase'[j] = "after"
         \/ phase[j] \in {"create", "dumping"} /\ phase'[j] = "ready",
         born'[j] = born[j], made'[j] = made[j], left'[j] = left[j]
  PROVE  DumpInvOf(j)'
  BY DEF DumpInvOf, Present, File

LEMMA CompletedFile ==
  ASSUME NEW j \in DumpJob, NEW d \in Day
  PROVE  Completed({File(j, d, FALSE)}) = {File(j, d, TRUE)}
<1>1. File(j, d, FALSE).of = j /\ File(j, d, FALSE).day = d
  BY DEF File
<1> QED
  BY <1>1 DEF Completed, File

\* The end of a run; when a file was removed, there is one less.
LEMMA DumpInvEnd ==
  ASSUME NightTypeOK, NEW j \in DumpJob, DumpInvOf(j), NEW removed \in BOOLEAN,
         EndDumpRun(j, removed),
         \/ Files(j)' = Files(j) /\ (removed => Files(j) = {})
         \/ removed /\ \E f \in Files(j) : Files(j)' = Files(j) \ {f}
  PROVE  DumpInvOf(j)'
<1>1. /\ phase'[j] = "idle" /\ born'[j] = 0 /\ ~ made'[j]
      /\ left'[j] = IF removed \/ born[j] = 0 THEN left[j] ELSE left[j] + 1
      /\ left[j] \in Nat
  <2>1. phase'[j] = "idle" /\ born'[j] = 0 /\ ~ made'[j]
    BY DEF EndDumpRun, Go, NightTypeOK, Job
  <2> QED
    BY <2>1 DEF EndDumpRun, NightTypeOK
<1>2. IsFiniteSet(Files(j)') /\ Cardinality(Files(j)') <= left'[j]
  <2>1. IsFiniteSet(Files(j)) /\ Cardinality(Files(j)) \in Nat
    BY FS_CardinalityType DEF DumpInvOf
  <2>2. CASE Files(j)' = Files(j) /\ ~ removed
    BY <1>1, <2>1, <2>2 DEF DumpInvOf, Present
  <2>3. CASE Files(j)' = {} /\ removed
    BY <1>1, <2>3, FS_EmptySet
  <2>4. CASE removed /\ \E f \in Files(j) : Files(j)' = Files(j) \ {f}
    <3>1. PICK f \in Files(j) : Files(j)' = Files(j) \ {f}
      BY <2>4
    <3>2. IsFiniteSet(Files(j)') /\ Cardinality(Files(j)') = Cardinality(Files(j)) - 1
      BY <2>1, <3>1, FS_RemoveElement
    <3> QED
      BY <1>1, <2>1, <2>4, <3>2 DEF DumpInvOf, Present
  <2> QED
    BY <2>2, <2>3, <2>4
<1> QED
  BY <1>1, <1>2 DEF DumpInvOf, Present

\* What is left when T makes way for x.
LEMMA Replaced ==
  ASSUME NEW S, IsFiniteSet(S), NEW T \in SUBSET S, NEW x
  PROVE  LET R == (S \ T) \cup {x}
         IN  /\ IsFiniteSet(R) /\ Cardinality(R) \in Nat
             /\ Cardinality(R) <= Cardinality(S) + 1
             /\ T # {} => Cardinality(R) <= Cardinality(S)
<1> DEFINE R == (S \ T) \cup {x}
<1>1. IsFiniteSet(S \ T) /\ Cardinality(S \ T) <= Cardinality(S)
  BY FS_Subset
<1>2. /\ Cardinality(S) \in Nat /\ Cardinality(S \ T) \in Nat
      /\ IsFiniteSet(R) /\ Cardinality(R) <= Cardinality(S \ T) + 1
  <2>1. Cardinality(S) \in Nat /\ Cardinality(S \ T) \in Nat
    BY <1>1, FS_CardinalityType
  <2>2. /\ IsFiniteSet(R)
        /\ Cardinality(R) = IF x \in S \ T THEN Cardinality(S \ T) ELSE Cardinality(S \ T) + 1
    BY <1>1, FS_AddElement
  <2> QED
    BY <2>1, <2>2
<1>3. Cardinality(R) \in Nat
  BY <1>2, FS_CardinalityType
<1>4. ASSUME T # {} PROVE Cardinality(S \ T) # Cardinality(S)
  BY <1>1, <1>4, FS_Subset
<1>5. IsFiniteSet(R) /\ Cardinality(R) \in Nat /\ Cardinality(R) <= Cardinality(S) + 1
  BY <1>1, <1>2, <1>3
<1>6. T # {} => Cardinality(R) <= Cardinality(S)
  BY <1>1, <1>2, <1>3, <1>4
<1> QED
  BY <1>5, <1>6

LEMMA CreateDumpInv ==
  ASSUME DumpInv, NEW j \in DumpJob, CreateDump(j)
  PROVE  DumpInvOf(j)'
<1>0. /\ NightTypeOK /\ DumpInvOf(j) /\ phase[j] = "create" /\ born[j] = 0 /\ ~ made[j]
      /\ made' = made /\ left' = left /\ left[j] \in Nat
      /\ IsFiniteSet(Files(j))
  BY DEF DumpInv, DumpInvOf, Typed, NightTypeOK, CreateDump
<1>00. day \in Day /\ day # 0 /\ Cardinality(Files(j)) \in Nat
  BY <1>0, FS_CardinalityType, JobScriptsAssumption DEF NightTypeOK, Day
<1>1. CASE /\ dumps' = (dumps \ Named(j, day)) \cup {File(j, day, FALSE)}
           /\ born' = [born EXCEPT ![j] = day]
           /\ Go(j, "dumping")
  <2>1. phase'[j] = "dumping" /\ born'[j] = day
    BY <1>0, <1>1 DEF Go, NightTypeOK, Job
  <2>2. File(j, day, FALSE).of = j /\ File(j, day, FALSE).day = day
    BY DEF File
  <2>3. Named(j, day)' = {File(j, day, FALSE)}
    <3>1. \A f : f \in Named(j, day)' <=> f \in dumps' /\ f.of = j /\ f.day = day'
      BY <1>0, <1>1 DEF Named
    <3>2. day' = day
      BY DEF CreateDump
    <3> QED
      BY <1>1, <2>2, <3>1, <3>2 DEF Named
  <2>4. Files(j)' = (Files(j) \ Named(j, day)) \cup {File(j, day, FALSE)}
    BY <1>1, <2>2 DEF Files, Named
  <2>5. /\ IsFiniteSet(Files(j)') /\ Cardinality(Files(j)') \in Nat
        /\ Cardinality(Files(j)') <= Cardinality(Files(j)) + 1
    <3>1. Named(j, day) \in SUBSET Files(j)
      BY DEF Named, Files
    <3> DEFINE R == (Files(j) \ Named(j, day)) \cup {File(j, day, FALSE)}
    <3>2. IsFiniteSet(R) /\ Cardinality(R) \in Nat /\ Cardinality(R) <= Cardinality(Files(j)) + 1
      BY <1>0, <3>1, Replaced
    <3> QED
      BY <2>4, <3>2
  <2>6. day' = day
    BY DEF CreateDump
  <2>7. Cardinality(Files(j)) <= left[j]
    BY <1>0 DEF DumpInvOf, Present
  <2> QED
    <3>1. Present(j)' = 1 /\ Cardinality(Files(j)') <= left'[j] + 1
      BY <1>0, <1>00, <2>1, <2>5, <2>7 DEF Present
    <3>2. Named(j, born[j])' = {File(j, day, FALSE)}
      BY <2>1, <2>3, <2>6 DEF Named
    <3>3. born'[j] \in Day /\ File(j, born[j], FALSE)' = File(j, day, FALSE) /\ ~ made'[j]
      BY <1>0, <1>00, <2>1 DEF File
    <3> QED
      BY <2>1, <2>5, <3>1, <3>2, <3>3 DEF DumpInvOf, Day
<1>2. CASE UNCHANGED <<dumps, born>> /\ Go(j, "ready")
  BY <1>0, <1>2, DumpInvOn DEF Go, NightTypeOK, Job, Files
<1> QED
  BY <1>1, <1>2 DEF CreateDump, File

LEMMA EndDumpInv ==
  ASSUME DumpInv, NEW j \in DumpJob, EndDump(j)
  PROVE  DumpInvOf(j)'
<1>0. /\ NightTypeOK /\ DumpInvOf(j) /\ phase[j] = "dumping" /\ phase'[j] = "ready"
      /\ born' = born /\ left' = left /\ left[j] \in Nat
      /\ born[j] \in Day /\ Named(j, born[j]) = {File(j, born[j], FALSE)}
      /\ IsFiniteSet(Files(j)) /\ Cardinality(Files(j)) \in Nat
  BY FS_CardinalityType DEF DumpInv, DumpInvOf, Typed, NightTypeOK, EndDump, Go, Job
<1>1. CASE /\ dumps' = (dumps \ Named(j, born[j])) \cup Completed(Named(j, born[j]))
           /\ made' = [made EXCEPT ![j] = TRUE]
  <2>1. dumps' = (dumps \ {File(j, born[j], FALSE)}) \cup {File(j, born[j], TRUE)}
    BY <1>0, <1>1, CompletedFile
  <2>2. Files(j)' = (Files(j) \ {File(j, born[j], FALSE)}) \cup {File(j, born[j], TRUE)}
    <3>1. File(j, born[j], TRUE).of = j
      BY DEF File
    <3> QED
      BY <2>1, <3>1 DEF Files
  <2>3. File(j, born[j], FALSE) \in Files(j)
    BY <1>0 DEF Named, Files
  <2>4. /\ IsFiniteSet(Files(j)') /\ Cardinality(Files(j)') \in Nat
        /\ Cardinality(Files(j)') <= Cardinality(Files(j))
    <3> DEFINE T == {File(j, born[j], FALSE)}
    <3> DEFINE R == (Files(j) \ T) \cup {File(j, born[j], TRUE)}
    <3>1. T \in SUBSET Files(j) /\ T # {}
      BY <2>3
    <3>2. IsFiniteSet(R) /\ Cardinality(R) \in Nat /\ Cardinality(R) <= Cardinality(Files(j))
      <4> HIDE DEF T
      <4> QED
        BY <1>0, <3>1, Replaced
    <3> QED
      BY <2>2, <3>2
  <2>5. File(j, born[j], TRUE) \in Files(j)'
    BY <2>2
  <2> QED
    BY <1>0, <2>4, <2>5 DEF DumpInvOf, Present, File, Day
<1>2. CASE UNCHANGED <<dumps, made>>
  BY <1>0, <1>2, DumpInvOn DEF Files
<1> QED
  BY <1>1, <1>2 DEF EndDump

\* What is known of k's run, and k's files, are as they were.
Kept(k) ==
  /\ Files(k)' = Files(k)
  /\ phase'[k] = phase[k] /\ born'[k] = born[k] /\ made'[k] = made[k] /\ left'[k] = left[k]

\* A step of a DumpJob leaves the files and the runs of the others alone.
LEMMA OthersKept ==
  ASSUME NightTypeOK, OwnFiles, NEW j \in DumpJob, NEW k \in DumpJob, k # j,
         \/ CreateDump(j) \/ EndDump(j) \/ AfterDump(j)
         \/ StartJob(j) \/ BeginJob(j) \/ EndJob(j) \/ Drop(j)
  PROVE  Kept(k)
<1>0. j \in Job /\ k \in Job /\ j \notin EncJob
  BY JobScriptsAssumption DEF Job
<1>1. ASSUME NEW p, Go(j, p) PROVE phase'[k] = phase[k]
  BY <1>0, <1>1 DEF Go, NightTypeOK
<1>2. ASSUME NEW removed, EndDumpRun(j, removed)
      PROVE  phase'[k] = phase[k] /\ born'[k] = born[k] /\ made'[k] = made[k] /\ left'[k] = left[k]
  BY <1>0, <1>1, <1>2 DEF EndDumpRun, NightTypeOK
<1>3. CASE CreateDump(j)
  <2>1. Files(k)' = Files(k)
    BY <1>3 DEF CreateDump, Files, Named
  <2>2. born'[k] = born[k]
    BY <1>3 DEF CreateDump, NightTypeOK
  <2> QED
    BY <1>1, <1>3, <2>1, <2>2 DEF CreateDump, Kept
<1>4. CASE EndDump(j)
  <2>1. Files(k)' = Files(k)
    <3>1. \A f \in Completed(Named(j, born[j])) : f.of = j
      BY DEF Completed, Named
    <3> QED
      BY <1>4, <3>1 DEF EndDump, Files, Named
  <2>2. made'[k] = made[k]
    BY <1>4 DEF EndDump, NightTypeOK
  <2> QED
    BY <1>1, <1>4, <2>1, <2>2 DEF EndDump, Kept
<1>5. CASE AfterDump(j)
  <2>1. Files(k)' = Files(k)
    <3>1. \A f \in glob(j) : f.of = j
      BY DEF glob, OwnFiles
    <3> QED
      BY <1>5, <3>1 DEF AfterDump, delbackup, Files
  <2> QED
    BY <1>2, <1>5, <2>1 DEF AfterDump, Kept
<1>6. CASE StartJob(j)
  BY <1>1, <1>6 DEF StartJob, dumpVars, Files, Kept
<1>7. CASE BeginJob(j)
  BY <1>1, <1>7 DEF BeginJob, dumpVars, Files, Kept
<1>8. CASE EndJob(j)
  BY <1>1, <1>8 DEF EndJob, dumpVars, Files, Kept
<1>9. CASE Drop(j)
  BY <1>0, <1>2, <1>9 DEF Drop, Files, Kept
<1> QED
  BY <1>3, <1>4, <1>5, <1>6, <1>7, <1>8, <1>9

\* The job itself.
LEMMA OwnStep ==
  ASSUME OwnFiles, DumpInv, NEW j \in DumpJob,
         \/ CreateDump(j) \/ EndDump(j) \/ AfterDump(j)
         \/ StartJob(j) \/ BeginJob(j) \/ EndJob(j) \/ Drop(j)
  PROVE  DumpInvOf(j)'
<1>0. NightTypeOK /\ DumpInvOf(j) /\ j \in Job /\ j \notin EncJob
  BY JobScriptsAssumption DEF DumpInv, Typed, Job
<1>a. ASSUME NEW p, Go(j, p) PROVE phase'[j] = p
  BY <1>0, <1>a DEF Go, NightTypeOK
<1>1. CASE CreateDump(j)
  BY <1>1, CreateDumpInv
<1>2. CASE EndDump(j)
  BY <1>2, EndDumpInv
<1>3. CASE AfterDump(j)
  <2>1. glob(j) = Files(j)
    BY DEF glob, OwnFiles, Files
  <2>2. CASE delbackup(j) /\ EndDumpRun(j, TRUE)
    <3>1. \/ Files(j)' = Files(j) /\ Files(j) = {}
          \/ \E f \in Files(j) : Files(j)' = Files(j) \ {f}
      BY <2>1, <2>2 DEF delbackup, Files
    <3> QED
      BY <1>0, <2>2, <3>1, DumpInvEnd
  <2>3. CASE dumps' = dumps /\ EndDumpRun(j, FALSE)
    BY <1>0, <2>3, DumpInvEnd DEF Files
  <2> QED
    BY <1>3, <2>2, <2>3 DEF AfterDump
<1>4. CASE StartJob(j)
  BY <1>0, <1>4, <1>a, DumpInvOn DEF StartJob, Active, dumpVars, Files
<1>5. CASE BeginJob(j)
  BY <1>0, <1>5, <1>a, DumpInvOn DEF BeginJob, dumpVars, Files
<1>6. CASE EndJob(j)
  BY <1>0, <1>6, <1>a, DumpInvOn DEF EndJob, dumpVars, Files
<1>7. CASE Drop(j)
  BY <1>0, <1>7, DumpInvEnd DEF Drop, Files
<1> QED
  BY <1>1, <1>2, <1>3, <1>4, <1>5, <1>6, <1>7

LEMMA DumpStep ==
  ASSUME OwnFiles, DumpInv, [NightNext]_nightVars, NEW k \in DumpJob
  PROVE  DumpInvOf(k)'
<1>0. NightTypeOK /\ OwnPhases /\ DumpInvOf(k) /\ k \in Job /\ k \notin EncJob
  BY JobScriptsAssumption DEF DumpInv, Typed, Job
<1>a. ASSUME Kept(k) PROVE DumpInvOf(k)'
  BY <1>0, <1>a, DumpInvKept DEF Kept
<1>b. ASSUME UNCHANGED dumpVars, phase'[k] = phase[k] PROVE DumpInvOf(k)'
  BY <1>a, <1>b DEF Kept, dumpVars, Files
<1>1. ASSUME NEW j \in DumpJob,
             \/ CreateDump(j) \/ EndDump(j) \/ AfterDump(j)
             \/ StartJob(j) \/ BeginJob(j) \/ EndJob(j) \/ Drop(j)
      PROVE  DumpInvOf(k)'
  <2>1. CASE k = j
    BY <1>1, <2>1, OwnStep
  <2>2. CASE k # j
    BY <1>0, <1>1, <1>a, <2>2, OthersKept
  <2> QED
    BY <2>1, <2>2
\* A step of an EncJob.
<1>2. ASSUME NEW j \in EncJob, UNCHANGED dumpVars, \E p \in Phase : Go(j, p) PROVE DumpInvOf(k)'
  <2>1. j \in Job /\ k # j
    BY <1>0 DEF Job
  <2> QED
    BY <1>0, <1>2, <1>b, <2>1 DEF Go, NightTypeOK
<1>3. ASSUME NEW j \in EncJob, JobStep(j) PROVE DumpInvOf(k)'
  <2>0. j \notin DumpJob
    BY JobScriptsAssumption
  <2>1. \A p \in Phase : UNCHANGED dumpVars /\ Go(j, p) => DumpInvOf(k)'
    BY <1>2
  <2>2. CASE encfs_mount(j)
    BY <2>1, <2>2 DEF encfs_mount, Look, Umount, LazyUmount, MountEnc, Verify, Phase
  <2>3. CASE AfterEnc(j)
    BY <2>1, <2>3 DEF AfterEnc, EndEncRun, Phase
  <2>4. CASE CreateDump(j) \/ EndDump(j) \/ AfterDump(j)
    BY <1>0, <2>0, <2>4 DEF CreateDump, EndDump, AfterDump, OwnPhases, DumpPhase
  <2>5. CASE StartJob(j) \/ BeginJob(j) \/ EndJob(j)
    BY <2>1, <2>5 DEF StartJob, BeginJob, EndJob, Phase
  <2>6. CASE Drop(j)
    BY <2>0, <2>1, <2>6 DEF Drop, EndEncRun, Phase
  <2>7. CASE PruneJob(j)
    BY <1>b, <2>7 DEF PruneJob, scriptVars
  <2> QED
    BY <1>3, <2>2, <2>3, <2>4, <2>5, <2>6, <2>7 DEF JobStep, RefuseJob, FailJob, Kill
<1>4. ASSUME NEW j \in DumpJob, JobStep(j) PROVE DumpInvOf(k)'
  <2>1. ~ encfs_mount(j)
    BY <1>0 DEF encfs_mount, Look, Umount, LazyUmount, MountEnc, Verify, OwnPhases, EncPhase
  <2>2. ~ AfterEnc(j)
    BY JobScriptsAssumption DEF AfterEnc
  <2>3. CASE PruneJob(j)
    BY <1>b, <2>3 DEF PruneJob, scriptVars
  <2> QED
    BY <1>1, <1>4, <2>1, <2>2, <2>3 DEF JobStep, RefuseJob, FailJob, Kill
<1>5. CASE ForeignMount \/ NextDay \/ Monitor \/ UNCHANGED nightVars
  BY <1>b, <1>5 DEF ForeignMount, NextDay, Monitor, MonitorSelect, MonitorJob, jobVars, nightVars, scriptVars
<1> QED
  BY <1>3, <1>4, <1>5 DEF NightNext, Job

LEMMA InitDumpInv == NightInit => DumpInv
<1> SUFFICES ASSUME NightInit PROVE DumpInv
  OBVIOUS
<1>1. Typed
  BY NightInitTypes, JobScriptsAssumption DEF NightInit, Typed, OwnPhases, EncPhase, DumpPhase, Job
<1>2. ASSUME NEW j \in DumpJob PROVE DumpInvOf(j)
  <2>1. Files(j) = {}
    BY DEF NightInit, Files
  <2>2. phase[j] = "idle" /\ born[j] = 0 /\ ~ made[j] /\ left[j] = 0
    BY DEF NightInit, Job
  <2> QED
    BY <2>1, <2>2, FS_EmptySet DEF DumpInvOf, Present
<1> QED
  BY <1>1, <1>2 DEF DumpInv

\* The inductive invariant: what is in the directory of each job's dumps, by how far
\* the job's run has got.
THEOREM DumpInvariant ==
  ASSUME OwnFiles
  PROVE  NightSpec => []DumpInv
<1>1. DumpInv /\ [NightNext]_nightVars => DumpInv'
  BY DumpStep, StepTyped DEF DumpInv
<1> QED
  BY <1>1, InitDumpInv, PTL DEF NightSpec

\* Names that do not run into one another: a job whose dump was completed finds
\* it when it comes to read it, whichever jobs clean up meanwhile.
THEOREM DumpsBackedUp ==
  ASSUME OwnFiles
  PROVE  NightSpec => []DumpBackedUp
<1>1. DumpInv => DumpBackedUp
  BY DEF DumpInv, DumpInvOf, DumpBackedUp, Files, File
<1> QED
  BY <1>1, DumpInvariant, PTL

\* Likewise a job's dumps do not pile up beyond the runs that could not clean up.
THEOREM LeftoversStayBounded ==
  ASSUME OwnFiles
  PROVE  NightSpec => []LeftoversBounded
<1>1. DumpInv => LeftoversBounded
  BY DEF DumpInv, DumpInvOf, LeftoversBounded, Files, Present
<1> QED
  BY <1>1, DumpInvariant, PTL
=============================================================================
