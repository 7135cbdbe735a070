-------------------------- MODULE AdminToolsProofs --------------------------
(***************************************************************************)
(* Theorems about AdminTools, for any catalog, configuration and history.  *)
(***************************************************************************)
EXTENDS AdminTools, FiniteSetTheorems, TLAPS

-----------------------------------------------------------------------------
(***************************************************************************)
(* Types.                                                                  *)
(***************************************************************************)
Listed == Vol \X (Storage \cup {NoPlace})

LEMMA ToolsInitTypes == ToolsInit => ToolsTypeOK /\ rule \in Rules
  BY AdminToolsAssumption DEF ToolsInit, ToolsTypeOK, Vol, Tool, NoVol

LEMMA SelectTypes ==
  ASSUME ToolsTypeOK, DelJobsSelect \/ JobidsSelect \/ ScatterSelect
  PROVE  list' \subseteq Listed
<1>1. Known \X Storage \subseteq Listed
  BY DEF Known, Listed
<1>2. {v \in jobs : hist[v].name \in Query} \X {NoPlace} \subseteq Listed
  BY DEF ToolsTypeOK, Listed
<1>3. (Cull \ evenspread(Cull, Num(Cull))) \X {NoPlace} \subseteq Listed
  BY DEF ToolsTypeOK, Listed, Cull, Fulls
<1> QED
  BY <1>1, <1>2, <1>3 DEF DelJobsSelect, JobidsSelect, ScatterSelect

LEMMA LocatedTypes ==
  ASSUME ToolsTypeOK, rule \in Rules, NEW r \in list, DelJobsResolve(r)
  PROVE  located' \subseteq Listed
<1>1. rule.default \subseteq Storage /\ r \in Listed /\ r[1] \in Vol /\ located \subseteq Listed
  BY AdminToolsAssumption DEF Rule, Listed, ToolsTypeOK
<1>2. Instead(r[1]) \subseteq Listed /\ <<r[1], NoPlace>> \in Listed
  BY <1>1 DEF Instead, Listed
<1> QED
  BY <1>1, <1>2 DEF DelJobsResolve

LEMMA ToolsStepTypes ==
  ASSUME ToolsTypeOK, rule \in Rules, [ToolsNext]_toolVars
  PROVE  ToolsTypeOK' /\ rule' \in Rules
<1>0. hist' = hist /\ rule' = rule
  BY DEF ToolsNext, DelJobsSelect, DelJobsResolve, DelJobsBegin, DelJobsDelete, JobidsSelect,
     ScatterSelect, DelJobsRemove, del_from_catalog, ScatterPrune, Finish, Crash, Remount, vs,
     toolVars
<1>a. list' \subseteq Listed /\ located' \subseteq Listed
  <2>0. list \subseteq Listed /\ located \subseteq Listed
    BY DEF ToolsTypeOK, Listed
  <2>1. CASE DelJobsSelect \/ JobidsSelect \/ ScatterSelect
    BY <2>0, <2>1, SelectTypes DEF DelJobsSelect, JobidsSelect, ScatterSelect
  <2>2. CASE \E r \in list : DelJobsResolve(r)
    BY <2>0, <2>2, LocatedTypes DEF DelJobsResolve
  <2>3. CASE DelJobsBegin
    BY <2>0, <2>3 DEF DelJobsBegin
  <2>4. CASE list' \subseteq list /\ located' \subseteq located
    BY <2>0, <2>4
  <2>5. \/ DelJobsSelect \/ JobidsSelect \/ ScatterSelect
        \/ (\E r \in list : DelJobsResolve(r)) \/ DelJobsBegin
        \/ list' \subseteq list /\ located' \subseteq located
    BY DEF ToolsNext, DelJobsDelete, DelJobsRemove, del_from_catalog, ScatterPrune, Finish, Crash,
       Remount, Stop, vs, toolVars
  <2> QED
    BY <2>1, <2>2, <2>3, <2>4, <2>5
<1>b. /\ list' \subseteq Vol' \X (Storage \cup {NoPlace})
      /\ located' \subseteq Vol' \X (Storage \cup {NoPlace})
  BY <1>0, <1>a DEF Listed, Vol
<1>c. tool' \in Tool /\ cur' \in Vol \cup {NoVol}
  BY DEF ToolsTypeOK, Tool, ToolsNext, DelJobsSelect, DelJobsResolve, DelJobsBegin,
     DelJobsDelete, JobidsSelect, ScatterSelect, DelJobsRemove, del_from_catalog, ScatterPrune,
     Finish, Crash, Remount, Stop, vs, toolVars
<1>d. jobs' \subseteq Vol /\ disk' \subseteq Vol /\ up' \subseteq Storage
  BY AdminToolsAssumption DEF ToolsTypeOK, ToolsNext, DelJobsSelect, DelJobsResolve,
     DelJobsBegin, DelJobsDelete, JobidsSelect, ScatterSelect, DelJobsRemove, del_from_catalog,
     ScatterPrune, Prune, Finish, Crash, Remount, vs, toolVars
<1>e. media' \in [Vol -> {"none", "Used", "Purged"}]
  BY DEF ToolsTypeOK, ToolsNext, DelJobsSelect, DelJobsResolve, DelJobsBegin, DelJobsDelete,
     JobidsSelect, ScatterSelect, DelJobsRemove, del_from_catalog, ScatterPrune, Prune, Finish,
     Crash, Remount, vs, toolVars
<1> QED
  BY <1>0, <1>b, <1>c, <1>d, <1>e DEF ToolsTypeOK, Vol

\* The variables keep their types, whatever is configured and wherever a script ends.
THEOREM ToolsTypeCorrect == ToolsSpec => []ToolsTypeOK
<1>1. (ToolsTypeOK /\ rule \in Rules) /\ [ToolsNext]_toolVars => (ToolsTypeOK /\ rule \in Rules)'
  BY ToolsStepTypes
<1> QED
  BY <1>1, ToolsInitTypes, PTL DEF ToolsSpec

-----------------------------------------------------------------------------
(***************************************************************************)
(* What is deleted.  Selected says what the rules promise of a backup; the *)
(* invariant carries it from the statement over the rows and their paths   *)
(* to the volume in hand.                                                  *)
(***************************************************************************)
Conjunctive == \A r \in Rules : r.operator = "and"

\* A path leads to the volume's file, unless its storage goes away before the
\* removal, or --default_storage made up for a storage without one.
Sound(r) ==
  /\ Selected(r[1])
  /\ \/ r[2] = NoPlace
     \/ r[2] = hist[r[1]].storage /\ r[2] \notin Unconfigured
     \/ rule.default # {} /\ hist[r[1]].storage \in Movable \cup Unconfigured

\* The entry of v may go.
Treated(v) ==
  /\ Selected(v) /\ ~ rule.dry
  /\ v \in disk => hist[v].storage \in Movable \cup Unconfigured
  /\ hist[v].storage \in Unconfigured => rule.default # {}

InHand ==
  /\ tool = "resolve" => \A r \in list : Selected(r[1]) /\ r[2] = hist[r[1]].storage
  /\ tool \in {"deljobs", "delvol"} => \A r \in list : Sound(r)
  /\ \A r \in located : Sound(r)
  /\ tool = "delvol" => cur \in Vol /\ Treated(cur)

DeletionInv ==
  /\ ToolsTypeOK /\ rule \in Rules
  /\ Storage \ Movable \subseteq up
  /\ InHand /\ OnlySelectedDeleted /\ EntryGoesWithFile

LEMMA StorageOf ==
  ASSUME ToolsTypeOK, NEW v \in Vol
  PROVE  hist[v].storage \in Storage
<1>1. hist \in Seq(Backup) /\ v \in 1..Len(hist)
  BY DEF ToolsTypeOK, Vol
<1>2. hist[v] \in Backup
  BY <1>1
<1> QED
  BY <1>2 DEF Backup

LEMMA DeletionInit ==
  ASSUME ToolsInit PROVE DeletionInv
<1>1. ToolsTypeOK /\ rule \in Rules
  BY ToolsInitTypes
<1>2. InHand /\ Storage \ Movable \subseteq up
  BY DEF ToolsInit, InHand
<1>3. OnlySelectedDeleted /\ EntryGoesWithFile
  BY DEF ToolsInit, OnlySelectedDeleted, EntryGoesWithFile
<1> QED
  BY <1>1, <1>2, <1>3 DEF DeletionInv

\* The rows of the SELECT: with AND, each pairs a volume the rules select with
\* the storage it is on.
LEMMA RowsSelected ==
  ASSUME Conjunctive, rule \in Rules, NEW v, NEW s, NEW j, Where(j, v, s)
  PROVE  Selected(v) /\ s = hist[v].storage
<1>1. rule.operator = "and"
  BY DEF Conjunctive
<1>2. j = v /\ s = hist[v].storage /\ \A d \in rule.set : Meets(d, j, s)
  BY <1>1 DEF Where, Joined
<1> QED
  BY <1>1, <1>2 DEF Selected

\* Whatever the storage does between the looks at it, the path of a row is sound.
LEMMA LocatedSound ==
  ASSUME DeletionInv, NEW r \in list, DelJobsResolve(r), NEW q \in located'
  PROVE  Sound(q)
<1>1. Selected(r[1]) /\ r[2] = hist[r[1]].storage /\ r[1] \in Vol /\ r[2] \in Storage \cup {NoPlace}
  BY DEF DeletionInv, InHand, DelJobsResolve, ToolsTypeOK
<1>2. hist[r[1]].storage \in Storage
  BY <1>1, StorageOf DEF DeletionInv
<1>3. CASE q \in located
  BY <1>3 DEF DeletionInv, InHand
<1>4. CASE q = r /\ build_volpath(r[2])
  BY <1>1, <1>4 DEF Sound, build_volpath
<1>5. CASE q = <<r[1], NoPlace>>
  BY <1>1, <1>5 DEF Sound
<1>6. CASE ~ build_volpath(r[2]) /\ q \in Instead(r[1])
  <2>1. q[1] = r[1] /\ (q[2] = NoPlace \/ rule.default # {})
    BY <1>6 DEF Instead
  <2>2. hist[r[1]].storage \in Movable \cup Unconfigured
    BY <1>1, <1>2, <1>6 DEF build_volpath, DeletionInv
  <2> QED
    BY <1>1, <2>1, <2>2 DEF Sound
<1> QED
  BY <1>3, <1>4, <1>5, <1>6 DEF DelJobsResolve

LEMMA DeletionStep ==
  ASSUME Conjunctive, DeletionInv, [ToolsNext]_toolVars
  PROVE  DeletionInv'
<1> USE DEF DeletionInv
<1>1. ToolsTypeOK' /\ rule' \in Rules
  BY ToolsStepTypes
<1>2. hist' = hist /\ rule' = rule /\ Vol' = Vol
  BY DEF Vol, ToolsNext, DelJobsSelect, DelJobsResolve, DelJobsBegin, DelJobsDelete,
     JobidsSelect, ScatterSelect, DelJobsRemove, del_from_catalog, ScatterPrune, Finish, Crash,
     Remount, vs, toolVars
<1>3. /\ \A v : (Selected(v))' = Selected(v)
      /\ \A r : (Sound(r))' = Sound(r)
  BY <1>2 DEF Selected, Sound, Meets
<1>4. ASSUME disk' = disk PROVE \A v : (Treated(v))' = Treated(v)
  BY <1>2, <1>3, <1>4 DEF Treated
<1>5. ASSUME disk' = disk, \A v \in Vol : media'[v] = "none" => media[v] = "none"
      PROVE  OnlySelectedDeleted' /\ EntryGoesWithFile'
  BY <1>2, <1>3, <1>5 DEF OnlySelectedDeleted, EntryGoesWithFile
<1>6. Storage \ Movable \subseteq up'
  BY DEF ToolsNext, DelJobsSelect, DelJobsResolve, DelJobsBegin, DelJobsDelete,
     JobidsSelect, ScatterSelect, DelJobsRemove, del_from_catalog, ScatterPrune, Finish, Crash,
     Remount, vs, toolVars
<1>7. InHand' /\ OnlySelectedDeleted' /\ EntryGoesWithFile'
  <2>1. CASE UNCHANGED toolVars
    BY <2>1, <1>3, <1>4, <1>5, <1>2 DEF toolVars, InHand
  <2>2. CASE DelJobsSelect
    <3>1. \A r \in list' : Selected(r[1]) /\ r[2] = hist[r[1]].storage
      BY <2>2, RowsSelected DEF DelJobsSelect
    <3>2. InHand'
      BY <2>2, <3>1, <1>2, <1>3 DEF DelJobsSelect, InHand
    <3> QED
      BY <2>2, <3>2, <1>5 DEF DelJobsSelect, vs
  <2>3. CASE \E r \in list : DelJobsResolve(r)
    <3> PICK r \in list : DelJobsResolve(r)
      BY <2>3
    <3>1. \A q \in located' : Sound(q)
      BY LocatedSound
    <3>2. InHand'
      BY <3>1, <1>2, <1>3 DEF DelJobsResolve, InHand
    <3> QED
      BY <3>2, <1>5 DEF DelJobsResolve, vs
  <2>4. CASE DelJobsBegin
    <3>1. InHand'
      BY <2>4, <1>3 DEF DelJobsBegin, InHand
    <3> QED
      BY <2>4, <3>1, <1>5 DEF DelJobsBegin, vs
  <2>5. CASE \E r \in list : DelJobsRemove(r)
    <3> PICK r \in list : DelJobsRemove(r)
      BY <2>5
    <3>1. r[1] \in Vol /\ Sound(r) /\ hist[r[1]].storage \in Storage
      <4>1. r[1] \in Vol /\ Sound(r)
        BY DEF DelJobsRemove, InHand, ToolsTypeOK
      <4> QED
        BY <4>1, StorageOf
    <3>2. CASE disk' = disk /\ Stop
      BY <3>2, <1>3, <1>5 DEF DelJobsRemove, Stop, InHand
    <3>3. CASE disk' = disk /\ tool' = tool /\ list' = list \ {r} /\ located' = located
      BY <3>3, <1>3, <1>5 DEF DelJobsRemove, InHand
    <3>4. CASE tool' = "delvol" /\ ~ rule.dry /\ r[2] # NoPlace
      <4>1. \A v \in Vol : v \notin disk' => v \notin disk \/ v = r[1]
        BY DEF DelJobsRemove
      <4>2. disk' \subseteq disk /\ media' = media
        BY DEF DelJobsRemove
      <4>3. OnlySelectedDeleted'
        BY <3>1, <3>4, <4>1, <4>2, <1>2, <1>3 DEF Sound, OnlySelectedDeleted
      <4>4. EntryGoesWithFile'
        BY <4>2, <1>2 DEF EntryGoesWithFile
      <4>5. r[1] \in disk' => hist[r[1]].storage \in Movable \cup Unconfigured
        BY <3>1, <3>4 DEF DelJobsRemove, Sound
      <4>6. hist[r[1]].storage \in Unconfigured => rule.default # {}
        BY <3>1, <3>4 DEF Sound
      <4>7. (Treated(r[1]))'
        BY <3>1, <3>4, <4>5, <4>6, <1>2, <1>3 DEF Treated, Sound
      <4>8. cur' = r[1] /\ list' = list \ {r} /\ located' = located /\ tool = "deljobs"
        BY <3>4 DEF DelJobsRemove, Stop
      <4>9. InHand'
        BY <3>1, <3>4, <4>7, <4>8, <1>2, <1>3 DEF InHand
      <4> QED
        BY <4>3, <4>4, <4>9
    <3> QED
      BY <3>2, <3>3, <3>4 DEF DelJobsRemove
  <2>6. CASE DelJobsDelete
    <3>1. cur \in Vol /\ Treated(cur)
      BY <2>6 DEF DelJobsDelete, InHand
    <3>2. InHand'
      BY <2>6, <1>2, <1>3 DEF DelJobsDelete, InHand
    <3>3. \A v \in Vol : media'[v] = IF v = cur THEN "none" ELSE media[v]
      BY <2>6, <3>1 DEF DelJobsDelete, ToolsTypeOK
    <3>4. disk' = disk
      BY <2>6 DEF DelJobsDelete
    <3>5. OnlySelectedDeleted'
      BY <3>1, <3>3, <3>4, <1>2, <1>3 DEF Treated, OnlySelectedDeleted
    <3>6. EntryGoesWithFile'
      BY <3>1, <3>3, <3>4, <1>2 DEF Treated, EntryGoesWithFile
    <3> QED
      BY <3>2, <3>5, <3>6
  <2>7. CASE JobidsSelect \/ ScatterSelect
    <3>1. InHand'
      BY <2>7, <1>2, <1>3 DEF JobidsSelect, ScatterSelect, InHand
    <3> QED
      BY <2>7, <3>1, <1>5 DEF JobidsSelect, ScatterSelect, vs
  <2>8. CASE \E r \in list : del_from_catalog(r) \/ ScatterPrune(r)
    <3> PICK r \in list : del_from_catalog(r) \/ ScatterPrune(r)
      BY <2>8
    <3>1. InHand'
      BY <1>2, <1>3 DEF del_from_catalog, ScatterPrune, InHand
    <3>2. disk' = disk /\ \A v \in Vol : media'[v] = "none" => media[v] = "none"
      BY DEF del_from_catalog, ScatterPrune, Prune, ToolsTypeOK
    <3> QED
      BY <3>1, <3>2, <1>5
  <2>9. CASE Finish \/ Crash
    <3>1. InHand'
      BY <2>9 DEF Finish, Crash, Stop, InHand
    <3> QED
      BY <2>9, <3>1, <1>5 DEF Finish, Crash, vs
  <2>10. CASE \E s \in Movable : Remount(s)
    <3>1. InHand'
      BY <2>10, <1>2, <1>3, <1>4 DEF Remount, InHand
    <3> QED
      BY <2>10, <3>1, <1>5 DEF Remount
  <2> QED
    BY <2>1, <2>2, <2>3, <2>4, <2>5, <2>6, <2>7, <2>8, <2>9, <2>10 DEF ToolsNext
<1> QED
  BY <1>1, <1>6, <1>7

\* What OnlyTheSelected and EntriesGoWithFiles rest on.
THEOREM DeletionInvariant ==
  ASSUME Conjunctive PROVE ToolsSpec => []DeletionInv
<1>1. DeletionInv /\ [ToolsNext]_toolVars => DeletionInv'
  BY DeletionStep
<1>2. ToolsInit => DeletionInv
  BY DeletionInit
<1> QED
  BY <1>1, <1>2, PTL DEF ToolsSpec

\* With conditions joined by AND a volume's file or entry goes only where all of
\* them select its backup, and in no dry run: whatever the storages do, whatever
\* the options and the lists of the configuration, and wherever the scripts are
\* killed.  Without any condition that is every backup (bacula_del_jobs.py).
THEOREM OnlyTheSelected ==
  ASSUME Conjunctive PROVE ToolsSpec => []OnlySelectedDeleted
<1>1. DeletionInv => OnlySelectedDeleted
  BY DEF DeletionInv
<1> QED
  BY <1>1, DeletionInvariant, PTL

\* Likewise an entry goes with its file where the storage has a path and stays
\* mounted, and where it has none only because --default_storage names one
\* (bacula_del_jobs.py:82-129, 199-231).
THEOREM EntriesGoWithFiles ==
  ASSUME Conjunctive PROVE ToolsSpec => []EntryGoesWithFile
<1>1. DeletionInv => EntryGoesWithFile
  BY DEF DeletionInv
<1> QED
  BY <1>1, DeletionInvariant, PTL

-----------------------------------------------------------------------------
(***************************************************************************)
(* Positions in a finite set of integers, which is what evenspread counts. *)
(***************************************************************************)
LEMMA IndexOrder ==
  ASSUME NEW S \in SUBSET Int, IsFiniteSet(S), NEW v \in S, NEW w \in S, v < w
  PROVE  Index(v, S) < Index(w, S)
<1> DEFINE A == {x \in S : x < v}
           B == {x \in S : x < w}
<1>1. A \subseteq B /\ v \in B /\ v \notin A
  <2>1. \A x \in S : x < v => x < w
    <3> TAKE x \in S
    <3>1. x \in Int /\ v \in Int /\ w \in Int
      OBVIOUS
    <3> QED
      BY <3>1
  <2>2. ~ v < v
    OBVIOUS
  <2> QED
    BY <2>1, <2>2
<1>2. IsFiniteSet(B) /\ IsFiniteSet(A)
  BY FS_Subset
<1>3. Cardinality(A) <= Cardinality(B) /\ Cardinality(A) # Cardinality(B)
  BY <1>1, <1>2, FS_Subset
<1> QED
  BY <1>2, <1>3, FS_CardinalityType DEF Index

LEMMA IndexRange ==
  ASSUME NEW S \in SUBSET Int, IsFiniteSet(S), NEW v \in S
  PROVE  Index(v, S) \in 0..Cardinality(S) - 1
<1> DEFINE A == {x \in S : x < v}
<1>1. A \in SUBSET S /\ v \notin A
  OBVIOUS
<1>2. IsFiniteSet(A) /\ Cardinality(A) <= Cardinality(S) /\ Cardinality(A) # Cardinality(S)
  BY <1>1, FS_Subset
<1> QED
  BY <1>2, FS_CardinalityType DEF Index

\* Every position is taken: positions are distinct, and there are as many of
\* them as elements.
LEMMA IndexOnto ==
  ASSUME NEW S \in SUBSET Int, IsFiniteSet(S), NEW k \in 0..Cardinality(S) - 1
  PROVE  \E v \in S : Index(v, S) = k
<1> DEFINE T == 0..Cardinality(S) - 1
           f == [v \in S |-> Index(v, S)]
<1>1. Cardinality(S) \in Nat
  BY FS_CardinalityType
<1>2. IsFiniteSet(T) /\ Cardinality(T) = Cardinality(S)
  BY <1>1, FS_Interval
<1>3. f \in Injection(S, T)
  <2>1. f \in [S -> T]
    BY IndexRange
  <2>2. ASSUME NEW v \in S, NEW w \in S, f[v] = f[w] PROVE v = w
    <3>1. Index(v, S) \in Int /\ Index(v, S) = Index(w, S)
      BY <2>2, IndexRange
    <3>2. ~ v < w /\ ~ w < v
      BY <3>1, IndexOrder
    <3> QED
      BY <3>2
  <2> QED
    BY <2>1, <2>2 DEF Injection, IsInjective
<1>4. f \in Surjection(S, T)
  BY <1>2, <1>3, FS_Injection
<1> QED
  BY <1>4 DEF Surjection

LEMMA LastOf ==
  ASSUME NEW S \in SUBSET Int, IsFiniteSet(S), S # {}
  PROVE  \E v \in S : \A w \in S : w <= v
<1>1. Cardinality(S) \in Nat /\ Cardinality(S) # 0
  BY FS_CardinalityType, FS_EmptySet
<1>2. PICK v \in S : Index(v, S) = Cardinality(S) - 1
  BY <1>1, IndexOnto
<1>3. ASSUME NEW w \in S, v < w PROVE FALSE
  BY <1>1, <1>2, <1>3, IndexOrder, IndexRange
<1> QED
  BY <1>3

LEMMA CeilDivBounds ==
  ASSUME NEW n \in Nat, NEW m \in Nat \ {0}
  PROVE  /\ CeilDiv(n, m) \in Nat
         /\ n <= CeilDiv(n, m) * m
         /\ CeilDiv(n, m) * m < n + m
<1> DEFINE q == (n + m - 1) \div m
           r == (n + m - 1) % m
<1>1. n + m - 1 = m * q + r /\ r \in 0..m - 1 /\ q \in Nat
  OBVIOUS
<1>2. q * m = m * q
  BY <1>1
<1> QED
  BY <1>1, <1>2 DEF CeilDiv

-----------------------------------------------------------------------------
(***************************************************************************)
(* evenspread.  Of n elements it keeps those at the positions Slot(0, ..), *)
(* Slot(1, ..), and so on, num of them.                                    *)
(***************************************************************************)
Slot(i, n, num) == CeilDiv(i * n, num)

LEMMA SlotBounds ==
  ASSUME NEW n \in Nat, NEW num \in 1..n, NEW i \in Nat
  PROVE  /\ Slot(i, n, num) \in Nat
         /\ i * n <= Slot(i, n, num) * num
         /\ Slot(i, n, num) * num < i * n + num
<1>1. i * n \in Nat /\ num \in Nat \ {0}
  OBVIOUS
<1> QED
  BY <1>1, CeilDivBounds DEF Slot

LEMMA Cancel ==
  ASSUME NEW a \in Int, NEW b \in Int, NEW m \in Nat \ {0}, a * m < b * m
  PROVE  a < b
<1>1. ASSUME b <= a PROVE FALSE
  <2>1. b * m <= a * m
    BY <1>1
  <2> QED
    BY <2>1
<1> QED
  BY <1>1

\* Later slots are later positions, and all of them exist: num <= n.
LEMMA SlotsApart ==
  ASSUME NEW n \in Nat, NEW num \in 1..n, NEW i \in Nat, NEW k \in Nat, i < k
  PROVE  Slot(i, n, num) < Slot(k, n, num)
<1> DEFINE a == Slot(i, n, num)
           b == Slot(k, n, num)
<1>1. a \in Nat /\ b \in Nat /\ a * num < i * n + num /\ k * n <= b * num
  BY SlotBounds
<1>2. (i + 1) * n <= k * n /\ (i + 1) * n = i * n + n
  OBVIOUS
<1>3. a * num < b * num
  BY <1>1, <1>2
<1> HIDE DEF a, b
<1>4. a < b
  BY <1>1, <1>3, Cancel
<1> QED
  BY <1>4 DEF a, b

LEMMA SlotRange ==
  ASSUME NEW n \in Nat, NEW num \in 1..n, NEW i \in 0..num - 1
  PROVE  Slot(i, n, num) \in 0..n - 1
<1>1. Slot(i, n, num) < Slot(num, n, num)
  BY SlotsApart
<1> DEFINE c == Slot(num, n, num)
<1>2. c \in Nat /\ c * num < num * n + num
  BY SlotBounds
<1>3. num * n + num = (n + 1) * num
  OBVIOUS
<1> HIDE DEF c
<1>4. c < n + 1
  BY <1>2, <1>3
<1> QED
  BY <1>1, <1>4, SlotBounds DEF c

\* It keeps as many as it is asked for.
LEMMA SpreadCount ==
  ASSUME NEW S \in SUBSET Int, IsFiniteSet(S), NEW num \in 1..Cardinality(S)
  PROVE  Cardinality(evenspread(S, num)) = num
<1> DEFINE n == Cardinality(S)
           I == 0..num - 1
           K == evenspread(S, num)
           at(i) == CHOOSE v \in S : Index(v, S) = Slot(i, n, num)
           f == [i \in I |-> at(i)]
<1>0. n \in Nat /\ num \in 1..n
  BY FS_CardinalityType
<1>1. ASSUME NEW i \in I PROVE at(i) \in S /\ Index(at(i), S) = Slot(i, n, num)
  BY <1>0, SlotRange, IndexOnto
<1>2. ASSUME NEW v \in S, NEW w \in S, Index(v, S) = Index(w, S) PROVE v = w
  <2>1. ~ v < w /\ ~ w < v
    BY <1>2, IndexOrder, IndexRange
  <2> QED
    BY <2>1
<1>3. K = {v \in S : \E i \in I : Index(v, S) = Slot(i, n, num)}
  BY DEF evenspread, Slot
<1>4. f \in [I -> K]
  BY <1>1, <1>3
<1>5. ASSUME NEW i \in I, NEW k \in I, f[i] = f[k] PROVE i = k
  <2>1. Slot(i, n, num) = Slot(k, n, num) /\ Slot(i, n, num) \in Nat
    <3>1. f[i] = at(i) /\ f[k] = at(k)
      OBVIOUS
    <3>2. Index(f[i], S) = Slot(i, n, num) /\ Index(f[k], S) = Slot(k, n, num)
      BY <1>1, <3>1
    <3>3. i \in Nat /\ n \in Nat /\ num \in 1..n
      BY <1>0
    <3> QED
      BY <1>5, <3>2, <3>3, SlotBounds
  <2>2. ~ i < k /\ ~ k < i
    BY <1>0, <2>1, SlotsApart
  <2> QED
    BY <2>2
<1>6. ASSUME NEW v \in K PROVE \E i \in I : f[i] = v
  BY <1>1, <1>2, <1>3, <1>6
<1>7. f \in Bijection(I, K)
  BY <1>4, <1>5, <1>6 DEF Bijection, Injection, Surjection, IsInjective
<1>8. IsFiniteSet(I) /\ Cardinality(I) = num
  <2>1. num \in Nat \ {0} /\ num - 1 \in Int /\ 0 \in Int
    BY <1>0
  <2>2. IsFiniteSet(I) /\ Cardinality(I) = IF 0 > num - 1 THEN 0 ELSE num - 1 - 0 + 1
    BY <2>1, FS_Interval
  <2> QED
    BY <2>1, <2>2
<1> QED
  BY <1>7, <1>8, FS_Bijection DEF ExistsBijection

\* The gap before an element at position j: it is kept, or the nearest kept one
\* is fewer than n/num positions away.  Take the last slot i with i * n <= j * num.
LEMMA SpreadGap ==
  ASSUME NEW S \in SUBSET Int, IsFiniteSet(S), NEW num \in 1..Cardinality(S), NEW v \in S
  PROVE  \E k \in evenspread(S, num) :
           /\ k <= v
           /\ Index(v, S) - Index(k, S) < CeilDiv(Cardinality(S), num)
<1> DEFINE n == Cardinality(S)
           j == Index(v, S)
           i == (j * num) \div n
           c == Slot(i, n, num)
           d == CeilDiv(n, num)
<1>0. n \in Nat \ {0} /\ num \in 1..n /\ j \in 0..n - 1
  BY FS_CardinalityType, IndexRange
<1>1. j * num \in Nat /\ j * num < n * num
  BY <1>0
<1> HIDE DEF n, j
<1>2. i \in Nat /\ n * i <= j * num /\ j * num < n * i + n
  BY <1>0, <1>1
<1> HIDE DEF i
<1>3. n * i = i * n /\ n * num = num * n
  BY <1>0, <1>2
<1>4. i < num
  BY <1>0, <1>1, <1>2
<1>5. c \in Nat /\ i * n <= c * num /\ c * num < i * n + num
  BY <1>0, <1>2, SlotBounds
<1>6. d \in Nat /\ n <= d * num
  <2>1. n \in Nat /\ num \in Nat \ {0}
    BY <1>0
  <2> QED
    BY <2>1, CeilDivBounds
<1> HIDE DEF c, d
<1>7. c <= j
  <2>1. c * num < j * num + num
    BY <1>0, <1>1, <1>2, <1>3, <1>5
  <2>2. j * num + num = (j + 1) * num
    BY <1>0
  <2> QED
    BY <1>0, <1>5, <2>1, <2>2
<1>8. j - c < d
  <2>1. j * num < c * num + d * num
    BY <1>0, <1>1, <1>2, <1>3, <1>5, <1>6
  <2>2. c * num + d * num = (c + d) * num
    BY <1>0, <1>5, <1>6
  <2>3. j < c + d
    BY <1>0, <1>5, <1>6, <2>1, <2>2
  <2> QED
    BY <1>0, <1>5, <1>6, <2>3
<1>9. PICK k \in S : Index(k, S) = c
  BY <1>0, <1>5, <1>7, IndexOnto DEF n
<1>10. k \in evenspread(S, num)
  BY <1>0, <1>2, <1>4, <1>9 DEF evenspread, Slot, c, n
<1>11. k <= v
  <2>1. ~ v < k
    BY <1>0, <1>5, <1>7, <1>9, IndexOrder DEF j
  <2> QED
    BY <2>1
<1> QED
  BY <1>8, <1>9, <1>10, <1>11 DEF j, d, n

LEMMA CullFinite ==
  ASSUME ToolsTypeOK
  PROVE  /\ Cull \in SUBSET Vol /\ Fulls \in SUBSET Vol
         /\ Cull \in SUBSET Int /\ IsFiniteSet(Cull)
         /\ Vol \in SUBSET Int /\ IsFiniteSet(Vol)
<1>1. Len(hist) \in Nat
  BY DEF ToolsTypeOK
<1>2. IsFiniteSet(Vol) /\ Vol \in SUBSET Int
  BY <1>1, FS_Interval DEF Vol
<1>3. Cull \in SUBSET Vol /\ Fulls \in SUBSET Vol
  BY DEF Cull, Fulls, ToolsTypeOK
<1> QED
  BY <1>2, <1>3, FS_Subset

\* Of the fulls that may go bacula_del_scatter keeps as many as it computes, the
\* oldest among them, and no gap between two is longer than the number of fulls
\* over that number: in any catalog, at any time (bacula_del_scatter.py:94-97).
THEOREM SpreadIsEven == ToolsSpec => []EvenlySpread
<1>1. ASSUME ToolsTypeOK PROVE EvenlySpread
  <2> DEFINE num == Num(Cull)
  <2> SUFFICES ASSUME Cull # {}, num \in 1..Cardinality(Cull)
               PROVE  /\ Cardinality(evenspread(Cull, num)) = num
                      /\ \A v \in Cull : \E k \in evenspread(Cull, num) :
                           /\ k <= v
                           /\ Index(v, Cull) - Index(k, Cull) < CeilDiv(Cardinality(Cull), num)
    BY DEF EvenlySpread
  <2> HIDE DEF num
  <2> QED
    BY <1>1, CullFinite, SpreadCount, SpreadGap
<1>2. ToolsTypeOK => EvenlySpread
  BY <1>1
<1> QED
  BY <1>2, ToolsTypeCorrect, PTL

-----------------------------------------------------------------------------
(***************************************************************************)
(* Followers.  Whoever is on the list to be pruned is followed by a full   *)
(* that is whole and not on it: so it was when the list was made, and only *)
(* what is on the list is pruned while the script is at work.              *)
(***************************************************************************)
FollowInv == tool = "scatter" => \A r \in list : \E w \in Vol : Follower(w, r[1])

\* A full that may go is followed by a Used one that is kept this time: the one
\* after the last of its pool that goes.
LEMMA CulledFollowed ==
  ASSUME ToolsTypeOK, NEW K, NEW v \in Cull \ K
  PROVE  \E w \in Fulls : /\ w \notin Cull \ K /\ v < w
                          /\ hist[w].pool = hist[v].pool
<1> DEFINE T == {x \in Cull \ K : hist[x].pool = hist[v].pool}
<1>1. T \in SUBSET Int /\ IsFiniteSet(T) /\ v \in T
  <2>1. T \in SUBSET Cull
    OBVIOUS
  <2> QED
    BY <2>1, CullFinite, FS_Subset
<1>2. PICK x \in T : \A y \in T : y <= x
  BY <1>1, LastOf
<1>3. PICK w \in Fulls : x < w /\ hist[w].pool = hist[x].pool
  BY <1>2 DEF Cull
<1>4. v \in Int /\ x \in Int /\ w \in Int /\ v <= x
  BY <1>1, <1>2, <1>3, CullFinite
<1>5. w \notin T
  BY <1>2, <1>3, <1>4
<1> QED
  BY <1>2, <1>3, <1>4, <1>5

LEMMA FollowStep ==
  ASSUME ToolsTypeOK, FollowInv, [ToolsNext]_toolVars
  PROVE  FollowInv'
<1>0. hist' = hist /\ Vol' = Vol
  BY DEF Vol, ToolsNext, DelJobsSelect, DelJobsResolve, DelJobsBegin, DelJobsDelete, JobidsSelect,
     ScatterSelect, DelJobsRemove, del_from_catalog, ScatterPrune, Finish, Crash, Remount, vs,
     toolVars
<1>1. CASE ScatterSelect
  <2> DEFINE K == evenspread(Cull, Num(Cull))
  <2>1. /\ UNCHANGED <<media, jobs>> /\ list' = (Cull \ K) \X {NoPlace}
    BY <1>1 DEF ScatterSelect, vs
  <2> HIDE DEF K
  <2>2. ASSUME NEW r \in list' PROVE \E w \in Vol : (Follower(w, r[1]))'
    <3>1. r[1] \in Cull \ K
      BY <2>1, <2>2
    <3>2. PICK w \in Fulls : w \notin Cull \ K /\ r[1] < w /\ hist[w].pool = hist[r[1]].pool
      BY <3>1, CulledFollowed
    <3>3. /\ w \in Vol /\ w \in jobs /\ media[w] = "Used"
          /\ hist[w].level = "F" /\ hist[w].name = ScatterJob
      BY <3>2 DEF Fulls, ToolsTypeOK
    <3>4. \A q \in list' : q[1] # w
      BY <2>1, <3>2
    <3> QED
      BY <1>0, <2>1, <3>2, <3>3, <3>4 DEF Follower
  <2> QED
    BY <1>0, <2>2 DEF FollowInv
<1>2. ASSUME NEW r \in list, ScatterPrune(r) PROVE FollowInv'
  <2>1. list' = list \ {r} /\ tool = "scatter"
    BY <1>2 DEF ScatterPrune
  <2>2. \A w \in Vol : w # r[1] => media'[w] = media[w] /\ (w \in jobs => w \in jobs')
    BY <1>2 DEF ScatterPrune, Prune, ToolsTypeOK
  <2>3. \A q \in list', w \in Vol : Follower(w, q[1]) => (Follower(w, q[1]))'
    BY <1>0, <2>1, <2>2 DEF Follower
  <2> QED
    BY <1>0, <2>1, <2>3 DEF FollowInv
<1>3. CASE \/ DelJobsSelect \/ DelJobsBegin \/ DelJobsDelete \/ JobidsSelect \/ Finish \/ Crash
           \/ \E r \in list : DelJobsResolve(r) \/ DelJobsRemove(r) \/ del_from_catalog(r)
  BY <1>3 DEF FollowInv, DelJobsSelect, DelJobsBegin, DelJobsDelete, JobidsSelect, Finish, Crash,
     Stop, DelJobsResolve, DelJobsRemove, del_from_catalog
<1>4. CASE (\E s \in Movable : Remount(s)) \/ UNCHANGED toolVars
  BY <1>0, <1>4 DEF FollowInv, Follower, Remount, toolVars
<1> QED
  BY <1>1, <1>2, <1>3, <1>4 DEF ToolsNext

\* What FollowersAreKept rests on.
THEOREM FollowInvariant == ToolsSpec => []FollowInv
<1>1. ToolsInit => FollowInv
  BY DEF ToolsInit, FollowInv
<1>2. ToolsTypeOK /\ FollowInv /\ [ToolsNext]_toolVars => FollowInv'
  BY FollowStep
<1> QED
  BY <1>1, <1>2, ToolsTypeCorrect, PTL DEF ToolsSpec

\* Whenever bacula_del_scatter prunes a full, a later one of its job and pool is
\* whole and stays off the list: however often the script runs, whatever fulls
\* the other scripts have deleted, and wherever runs end.
THEOREM FollowersAreKept == ToolsSpec => FollowerKept
<1>1. ASSUME ToolsTypeOK, FollowInv, [ToolsNext]_toolVars,
             NEW v \in Vol, media'[v] = "Purged", media[v] # "Purged"
      PROVE  \E w \in Vol : Follower(w, v)
  <2>1. ~ UNCHANGED media
    BY <1>1
  <2>2. ~ DelJobsDelete
    BY <1>1 DEF DelJobsDelete, ToolsTypeOK
  <2>3. PICK r \in list : ScatterPrune(r)
    BY <2>1, <2>2, <1>1
    DEF ToolsNext, DelJobsSelect, DelJobsResolve, DelJobsBegin, JobidsSelect, ScatterSelect,
        DelJobsRemove, del_from_catalog, Finish, Crash, Remount, vs, toolVars
  <2>4. v = r[1] /\ tool = "scatter"
    BY <1>1, <2>1, <2>3 DEF ScatterPrune, Prune, ToolsTypeOK
  <2> QED
    BY <1>1, <2>3, <2>4 DEF FollowInv
<1>2. ToolsTypeOK /\ FollowInv /\ [ToolsNext]_toolVars =>
        [\A v \in Vol : media'[v] = "Purged" /\ media[v] # "Purged" =>
           \E w \in Vol : Follower(w, v)]_toolVars
  BY <1>1
<1> QED
  BY <1>2, ToolsTypeCorrect, FollowInvariant, PTL DEF ToolsSpec, FollowerKept
=============================================================================
