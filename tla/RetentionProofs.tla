--------------------------- MODULE RetentionProofs ---------------------------
(***************************************************************************)
(* What runs of DelPurgedVols leave behind: the files of all unpurged      *)
(* volumes, a catalog that knows every file, everything if they are dry;   *)
(* the newest full, three fulls and two diffs, whole runs of incrementals; *)
(* and that the script implements Retention.  For any number of volumes    *)
(* and overlapping runs.                                                   *)
(***************************************************************************)
EXTENDS DelPurgedVolsProofs, FiniteSetTheorems

-----------------------------------------------------------------------------
(***************************************************************************)
(* Files and entries.  Whatever is configured and whatever fails, a run    *)
(* has in hand only volumes that were Purged once, and those are never     *)
(* Used again.                                                             *)
(***************************************************************************)
InHand(r) ==
  todo[r] \cup lists[r]["F"] \cup lists[r]["D"] \cup lists[r]["I"] \cup ({cur[r]} \ {NoVol})

Known == \A v \in Vol : media[v] # "none" \/ v \in disk => v <= label
HandsOff == \A r \in Runner : \A v \in InHand(r) : v \notin Used /\ v <= label
FilesInv == Known /\ HandsOff /\ UnpurgedUntouched

\* What a run's step may change.
LEMMA RunFiles ==
  ASSUME TypeOK, NEW r \in Runner, Run(r) \/ Crash(r)
  PROVE  /\ label' = label
         /\ \A v \in Vol : media'[v] = media[v] \/ media'[v] = "none"
         /\ \A q \in Runner : InHand(q)' \subseteq InHand(q) \cup Purged
         /\ disk' \subseteq disk /\ disk \ disk' \subseteq InHand(r)
<1>1. ASSUME NEW d \in DryRuns, SelectVolumes(r, d)
      PROVE  UNCHANGED storeVars /\ UNCHANGED <<todo, lists, cur>>
  BY <1>1 DEF SelectVolumes
<1>2. ASSUME SelectPurged(r)
      PROVE  UNCHANGED storeVars /\ \A q \in Runner : InHand(q)' \subseteq InHand(q) \cup Purged
  BY <1>2 DEF SelectPurged, purged_vols, InHand, TypeOK
<1>3. ASSUME NEW v \in Vol, SkipVol(r, v) \/ SortParsed(r, v)
      PROVE  /\ UNCHANGED <<label, disk, media>>
             /\ \A q \in Runner : InHand(q)' \subseteq InHand(q)
  <2>1. /\ UNCHANGED <<label, disk, media, cur>>
        /\ v \in todo[r] /\ \A q \in Runner : todo'[q] \subseteq todo[q]
        /\ \A q \in Runner : q # r => lists'[q] = lists[q]
        /\ \A l \in Level : lists'[r][l] \subseteq lists[r][l] \cup {v}
    <3>1. CASE SkipVol(r, v)
      BY <3>1 DEF SkipVol, Sorting, Sorted, storeVars, TypeOK
    <3>2. CASE SortParsed(r, v)
      <4>1. SeenLevel(v) \in Level
        BY SeenLevelType DEF TypeOK
      <4> QED
        BY <3>2, <4>1 DEF SortParsed, Sorting, Sorted, storeVars, TypeOK
    <3> QED
      BY <1>3, <3>1, <3>2
  <2> QED
    BY <2>1 DEF InHand, Level
<1>4. ASSUME NEW v \in Vol, SortMissing(r, v) \/ SortNoMeta(r, v) \/ RemoveFile(r, v)
      PROVE  /\ UNCHANGED <<label, media>> /\ disk \ {v} \subseteq disk' /\ disk' \subseteq disk
             /\ v \in InHand(r) /\ \A q \in Runner : InHand(q)' \subseteq InHand(q)
  <2>1. /\ UNCHANGED <<label, media>> /\ disk \ {v} \subseteq disk' /\ disk' \subseteq disk
        /\ v \in todo[r] \cup lists[r]["F"] \cup lists[r]["D"] \cup lists[r]["I"]
        /\ cur' = cur \/ cur' = [cur EXCEPT ![r] = v]
        /\ \A q \in Runner : todo'[q] \subseteq todo[q]
        /\ \A q \in Runner, l \in Level : lists'[q][l] \subseteq lists[q][l]
    <3>1. CASE SortNoMeta(r, v)
      BY <3>1 DEF SortNoMeta, NoMetadata, Sorting, Sorted, TypeOK
    <3>2. CASE SortMissing(r, v)
      BY <3>2 DEF SortMissing, TakeFile, Sorting, Sorted, TypeOK
    <3>3. CASE RemoveFile(r, v)
      <4>1. \A q \in Runner, l \in Level : lists'[q][l] \subseteq lists[q][l]
        BY <3>3 DEF RemoveFile, TypeOK
      <4> QED
        BY <3>3, <4>1 DEF RemoveFile, TakeFile, Upcoming
    <3> QED
      BY <1>4, <3>1, <3>2, <3>3
  <2> QED
    BY <2>1 DEF InHand, Level, TypeOK
<1>5. ASSUME SortCatalog(r) \/ DeleteCatalog(r)
      PROVE  /\ UNCHANGED <<label, disk>> /\ media' \in {media, Unlist(cur[r])}
             /\ \A q \in Runner : InHand(q)' \subseteq InHand(q)
  BY <1>5 DEF SortCatalog, DeleteCatalog, DropEntry, InHand, TypeOK
<1>6. ASSUME Decide(r)
      PROVE  UNCHANGED storeVars /\ \A q \in Runner : InHand(q)' \subseteq InHand(q)
  <2>1. /\ UNCHANGED storeVars /\ UNCHANGED <<todo, cur>>
        /\ \A q \in Runner, l \in Level : lists'[q][l] \subseteq lists[q][l]
    BY <1>6 DEF Decide, TypeOK
  <2> QED
    BY <2>1 DEF InHand, Level
<1>7. ASSUME Forget(r) PROVE \A q \in Runner : InHand(q)' \subseteq InHand(q)
  BY <1>7 DEF Forget, InHand, NoLists, Level, TypeOK
<1>8. \A v : \A w \in Vol : Unlist(v)[w] \in {media[w], "none"}
  BY DEF Unlist, TypeOK, StoreTypeOK
<1> QED
  BY <1>1, <1>2, <1>3, <1>4, <1>5, <1>6, <1>7, <1>8
  DEF Run, Crash, Finish, NoMetaRaises, storeVars, InHand, TypeOK, StoreTypeOK

LEMMA FilesStep ==
  ASSUME TypeOK, FilesInv, [Next]_vars
  PROVE  FilesInv'
<1>1. CASE Write
  <2>1. PICK s \in Stream, l \in Level, ok \in BOOLEAN : WriteBackup(s, l, ok)
    BY <1>1 DEF Write
  <2>2. /\ label' = label + 1 /\ label \in Int /\ disk' = disk \cup {label + 1}
        /\ media' = [media EXCEPT ![label + 1] = "Used"]
        /\ \A r \in Runner : InHand(r)' = InHand(r) /\ InHand(r) \subseteq Vol
    BY <1>1, <2>1 DEF Write, WriteBackup, runVars, InHand, TypeOK, StoreTypeOK, Level
  <2>3. Used' \subseteq Used \cup {label + 1}
    BY <2>2 DEF Used, TypeOK, StoreTypeOK
  <2> QED
    BY <2>2, <2>3 DEF FilesInv, Known, HandsOff, UnpurgedUntouched, TypeOK, StoreTypeOK, Vol
<1>2. CASE PurgeVol
  <2>1. /\ UNCHANGED <<label, disk>> /\ UNCHANGED runVars
        /\ Used' \subseteq Used /\ \A v \in Vol : media'[v] # "none" => media[v] # "none"
    BY <1>2 DEF PurgeVol, Purge, MarkPurged, Used, TypeOK, StoreTypeOK
  <2> QED
    BY <2>1 DEF FilesInv, Known, HandsOff, UnpurgedUntouched, InHand, runVars
<1>3. ASSUME NEW r \in Runner, Run(r) \/ Crash(r) PROVE FilesInv'
  <2>1. Used' \subseteq Used
    BY <1>3, RunFiles DEF Used
  <2>2. Known'
    BY <1>3, RunFiles DEF FilesInv, Known
  <2>3. \A v \in Purged : v \notin Used /\ v <= label
    BY DEF FilesInv, Known, Purged, Used
  <2>4. HandsOff'
    BY <1>3, <2>1, <2>3, RunFiles DEF FilesInv, HandsOff
  <2>5. UnpurgedUntouched'
    BY <1>3, <2>1, RunFiles DEF FilesInv, HandsOff, UnpurgedUntouched
  <2> QED
    BY <2>2, <2>4, <2>5 DEF FilesInv
<1>4. CASE UNCHANGED vars
  BY <1>4 DEF vars, storeVars, runVars, FilesInv, Known, HandsOff, UnpurgedUntouched, InHand, Used
<1> QED
  BY <1>1, <1>2, <1>3, <1>4 DEF Next

\* What UnpurgedStay and FilesKnown rest on.
THEOREM FilesInvariant == Spec => []FilesInv
<1>1. Init => FilesInv
  BY DEF Init, StoreInit, FilesInv, Known, HandsOff, UnpurgedUntouched, InHand, NoLists, Level,
     NoVol, Used
<1>2. TypeOK /\ FilesInv /\ [Next]_vars => FilesInv'
  BY FilesStep
<1> QED
  BY <1>1, <1>2, TypeCorrect, PTL DEF Spec

\* No run touches a volume the catalog holds a backup on: not one that removes
\* volumes without metadata, and whatever fails.
THEOREM UnpurgedStay == Spec => []UnpurgedUntouched
<1>1. FilesInv => UnpurgedUntouched
  BY DEF FilesInv
<1> QED
  BY <1>1, FilesInvariant, PTL

\* While removals work and storages stay where they are, an entry goes only
\* after its file.
GoneFirst == \A r \in Runner : pc[r] \in {"delcat", "sortcat"} => cur[r] \notin disk

LEMMA EntriesStep ==
  ASSUME TypeOK, FilesInv, {"rm", "umount"} \cap Faults = {}, GoneFirst, CatalogKnowsFiles,
         [Next]_vars
  PROVE  GoneFirst' /\ CatalogKnowsFiles'
<1> USE DEF GoneFirst, CatalogKnowsFiles
<1>1. CASE Write
  <2>1. PICK s \in Stream, l \in Level, ok \in BOOLEAN : WriteBackup(s, l, ok)
    BY <1>1 DEF Write
  <2>2. /\ disk' = disk \cup {label + 1} /\ label \in Int /\ UNCHANGED <<pc, cur>>
        /\ media' = [media EXCEPT ![label + 1] = "Used"] /\ label + 1 \in Vol
    <3>1. label + 1 \in Vol
      BY <2>1, WriteType DEF TypeOK
    <3> QED
      BY <1>1, <2>1, <3>1 DEF Write, WriteBackup, runVars, TypeOK, StoreTypeOK
  <2>3. \A r \in Runner : cur[r] <= label
    <3>1. \A r \in Runner : cur[r] = NoVol \/ cur[r] \in InHand(r)
      BY DEF InHand
    <3> QED
      BY <3>1 DEF FilesInv, HandsOff, NoVol, TypeOK, StoreTypeOK
  <2>4. GoneFirst'
    BY <2>2, <2>3
  <2> QED
    BY <2>2, <2>4 DEF TypeOK, StoreTypeOK
<1>2. CASE PurgeVol
  BY <1>2 DEF PurgeVol, Purge, MarkPurged, runVars, TypeOK, StoreTypeOK
<1>3. ASSUME NEW r \in Runner, NEW d \in DryRuns, SelectVolumes(r, d)
      PROVE  GoneFirst' /\ CatalogKnowsFiles'
  BY <1>3 DEF SelectVolumes, storeVars, TypeOK
<1>4. ASSUME NEW r \in Runner, SelectPurged(r) \/ Decide(r)
      PROVE  GoneFirst' /\ CatalogKnowsFiles'
  BY <1>4 DEF SelectPurged, Decide, storeVars, TypeOK
<1>5. ASSUME NEW r \in Runner, NEW v \in Vol, SkipVol(r, v) \/ SortParsed(r, v)
      PROVE  GoneFirst' /\ CatalogKnowsFiles'
  BY <1>5 DEF SkipVol, SortParsed, storeVars
<1>6. ASSUME NEW v PROVE TakeFile(v) => disk' = disk \ {v}
  BY DEF TakeFile, Unmounts
<1>7. ASSUME NEW r \in Runner, NEW v \in Vol,
             SortMissing(r, v) \/ SortNoMeta(r, v) \/ RemoveFile(r, v)
      PROVE  GoneFirst' /\ CatalogKnowsFiles'
  <2>1. /\ disk' = disk \ {v} /\ cur' = [cur EXCEPT ![r] = v] /\ media' = media
        /\ pc' = [pc EXCEPT ![r] = "sortcat"] \/ pc' = [pc EXCEPT ![r] = "delcat"]
        \/ UNCHANGED <<disk, cur, media, pc>>
    BY <1>6, <1>7 DEF SortMissing, SortNoMeta, RemoveFile
  <2> QED
    BY <2>1 DEF TypeOK
<1>8. ASSUME NEW r \in Runner, SortCatalog(r) \/ DeleteCatalog(r)
      PROVE  GoneFirst' /\ CatalogKnowsFiles'
  BY <1>8 DEF SortCatalog, DeleteCatalog, DropEntry, Unlist, TypeOK, StoreTypeOK
<1>9. ASSUME NEW r \in Runner, Forget(r), UNCHANGED storeVars
      PROVE  GoneFirst' /\ CatalogKnowsFiles'
  BY <1>9 DEF Forget, storeVars, TypeOK
<1>10. CASE UNCHANGED vars
  BY <1>10 DEF vars, storeVars, runVars
<1> QED
  BY <1>1, <1>2, <1>3, <1>4, <1>5, <1>6, <1>7, <1>8, <1>9, <1>10
  DEF Next, Run, Finish, Crash, NoMetaRaises

\* Where removals work and no storage is unmounted under a run, the catalog
\* forgets no file that is there, though runs overlap and are killed, volumes
\* are removed unread, hosts are down and bconsole fails.
THEOREM FilesKnown ==
  ASSUME {"rm", "umount"} \cap Faults = {} PROVE Spec => []CatalogKnowsFiles
<1>1. Init => GoneFirst /\ CatalogKnowsFiles
  BY DEF Init, StoreInit, GoneFirst, CatalogKnowsFiles
<1>2. TypeOK /\ FilesInv /\ (GoneFirst /\ CatalogKnowsFiles) /\ [Next]_vars
        => (GoneFirst /\ CatalogKnowsFiles)'
  BY EntriesStep
<1> QED
  BY <1>1, <1>2, TypeCorrect, FilesInvariant, PTL DEF Spec

\* A dry run decides to remove nothing.
DryInv ==
  \A r \in Runner :
    dry[r] => /\ pc[r] \notin {"sortcat", "delcat"}
              /\ pc[r] = "delete" => \A l \in Level : lists[r][l] = {}

LEMMA NoneBlind ==
  ASSUME TypeOK, NoBlindRemoval, NEW r \in Runner, NEW v \in Vol
  PROVE  ~ SortNoMeta(r, v)
<1>1. job[v].stream \in Stream
  BY DEF TypeOK, StoreTypeOK, Backup
<1> QED
  BY <1>1 DEF SortNoMeta, NoMetadata, JustTaken, NoBlindRemoval

LEMMA DryStep ==
  ASSUME TypeOK, NoBlindRemoval, DryInv, [Next]_vars
  PROVE  DryInv'
<1> USE DEF DryInv
<1>1. CASE UNCHANGED runVars
  BY <1>1 DEF runVars
<1>2. ASSUME NEW r \in Runner, NEW d \in DryRuns, SelectVolumes(r, d) PROVE DryInv'
  BY <1>2 DEF SelectVolumes, TypeOK
<1>3. ASSUME NEW r \in Runner, SelectPurged(r) PROVE DryInv'
  BY <1>3 DEF SelectPurged, TypeOK
<1>4. ASSUME NEW r \in Runner, NEW v \in Vol, SkipVol(r, v) \/ SortMissing(r, v) PROVE DryInv'
  BY <1>4 DEF SkipVol, SortMissing, TypeOK
<1>5. ASSUME NEW r \in Runner, NEW v \in Vol, SortParsed(r, v) PROVE DryInv'
  BY <1>5 DEF SortParsed, Sorting, TypeOK
<1>6. ASSUME NEW r \in Runner, Decide(r) PROVE DryInv'
  BY <1>6 DEF Decide, Removes, TypeOK
<1>7. ASSUME NEW r \in Runner, NEW v \in Vol, RemoveFile(r, v) PROVE DryInv'
  <2>1. ~ dry[r]
    BY <1>7 DEF RemoveFile, Upcoming, Level
  <2> QED
    BY <1>7, <2>1 DEF RemoveFile, TypeOK
<1>8. ASSUME NEW r \in Runner, DeleteCatalog(r) \/ SortCatalog(r) PROVE DryInv'
  <2>1. ~ dry[r]
    BY <1>8 DEF DeleteCatalog, SortCatalog
  <2> QED
    BY <1>8, <2>1 DEF DeleteCatalog, SortCatalog, TypeOK
<1>9. ASSUME NEW r \in Runner, Forget(r) PROVE DryInv'
  BY <1>9 DEF Forget, TypeOK
<1> QED
  BY <1>1, <1>2, <1>3, <1>4, <1>5, <1>6, <1>7, <1>8, <1>9, NoneBlind
  DEF Next, Run, Write, PurgeVol, Finish, Crash, NoMetaRaises, vars, runVars

LEMMA DryTakesNothing ==
  ASSUME TypeOK, NoBlindRemoval, DryInv, [Next]_vars, \A r \in Runner : pc[r] # "idle" => dry[r]
  PROVE  disk \subseteq disk' /\ \A v \in Vol : media[v] # "none" => media'[v] # "none"
<1>1. CASE UNCHANGED <<disk, media>>
  BY <1>1
<1>2. CASE Write
  BY <1>2 DEF Write, WriteBackup, TypeOK, StoreTypeOK
<1>3. CASE PurgeVol
  BY <1>3 DEF PurgeVol, Purge, MarkPurged, TypeOK, StoreTypeOK
<1>4. ASSUME NEW r \in Runner, NEW v \in Vol, SortMissing(r, v) PROVE UNCHANGED <<disk, media>>
  BY <1>4 DEF SortMissing, Sorting
<1>5. ASSUME NEW r \in Runner, NEW v \in Vol, RemoveFile(r, v) PROVE FALSE
  BY <1>5 DEF RemoveFile, Upcoming, Level, DryInv
<1>6. ASSUME NEW r \in Runner, DeleteCatalog(r) \/ SortCatalog(r) PROVE FALSE
  BY <1>6 DEF DeleteCatalog, SortCatalog, DryInv
<1> QED
  BY <1>1, <1>2, <1>3, <1>4, <1>5, <1>6, NoneBlind
  DEF Next, Run, SelectVolumes, SelectPurged, SkipVol, SortParsed, NoMetaRaises, Decide, Finish, Crash, storeVars, vars

\* Unless volumes without metadata are removed for real, runs that are all started with
\* -dry remove neither a file nor a catalog entry, whatever they find.
THEOREM DryRunsTakeNothing == ASSUME NoBlindRemoval PROVE Spec => DryRunHarmless
<1>1. Init => DryInv
  BY DEF Init, DryInv
<1>2. TypeOK /\ DryInv /\ [Next]_vars => DryInv'
  BY DryStep
<1>3. TypeOK /\ DryInv /\ [Next]_vars
        => [(\A r \in Runner : pc[r] # "idle" => dry[r])
              => /\ disk \subseteq disk'
                 /\ \A v \in Vol : media[v] # "none" => media'[v] # "none"]_vars
  BY DryTakesNothing
<1> QED
  BY <1>1, <1>2, <1>3, TypeCorrect, PTL DEF Spec, DryRunHarmless

-----------------------------------------------------------------------------
(***************************************************************************)
(* Which are left.  None of this asks whose backups a volume is needed by, *)
(* so jobs may fail and streams share a chain.                             *)
(***************************************************************************)
Of(s, l) == {v \in Labelled : job[v].stream = s /\ job[v].level = l}

\* Why a volume a decided run will remove may go, for as long as it is there: a
\* newer full was made, or a full or diff came before it and after every unpurged
\* incremental.
Spared(l, v) ==
  /\ l = "F" => \E w \in Of(job[v].stream, "F") : v < w
  /\ l = "I" => \A u \in Used : job[u].stream = job[v].stream /\ job[u].level = "I" /\ u < v
                                  => ~ SameRun(u, v)
PendingInv == \A r \in Runner, l \in Level : \A v \in Pending(r, l) : Spared(l, v)
\* The snapshot of a run holds every unpurged volume older than a candidate.
Whole(r) == \A v \in Candidates(r) : \A u \in Used : u < v => u \in unpurged[r]
WholeInv == \A r \in Runner : Whole(r)
OrderInv == WholeInv /\ PendingInv /\ NewestFullKept /\ IncsDeletedTogether

LEMMA DecidedSpared ==
  ASSUME Steady, TypeOK, SnapInv, NEW r \in Runner, Whole(r),
         NEW l \in Level, NEW v \in lists[r][l], Deletable(unpurged[r], l, v)
  PROVE  Spared(l, v)
<1>1. /\ v \in Candidates(r) /\ v \in Vol /\ v <= label /\ v \notin unpurged[r]
      /\ job[v].level = l
  BY DEF Candidates, Level, TypeOK, SnapInv, SeenInv
<1>2. unpurged[r] \subseteq Vol /\ \A u \in unpurged[r] : u <= label
  BY DEF TypeOK, SnapInv, SeenInv
<1>3. Vol \subseteq Int /\ \A w \in Vol : w <= label => w \in Labelled
  BY DEF Vol, Labelled, TypeOK, StoreTypeOK
<1>4. CASE l = "F"
  <2>1. PICK x \in Newer(unpurged[r], v, {"F"}) : TRUE
    BY <1>4 DEF Deletable, DeletableFull
  <2>2. /\ x \in unpurged[r] /\ job[x].level = "F" /\ job[x].stream = job[v].stream
        /\ jobtdate(x) > written(v)
    BY <2>1 DEF Newer, OfStream
  <2>3. x >= v /\ x # v
    BY <1>1, <1>2, <2>2 DEF Steady
  <2>4. x \in Labelled /\ v < x
    <3>1. x \in Vol /\ x <= label
      BY <1>2, <2>2
    <3>2. x \in Int /\ v \in Int
      BY <1>1, <1>3, <3>1
    <3> QED
      BY <1>3, <2>3, <3>1, <3>2
  <2>5. x \in Of(job[v].stream, "F")
    BY <2>2, <2>4 DEF Of
  <2> QED
    BY <1>4, <2>4, <2>5 DEF Spared
<1>5. CASE l = "I"
  <2> SUFFICES ASSUME NEW u \in Used, job[u].stream = job[v].stream, job[u].level = "I", u < v,
                      SameRun(u, v)
               PROVE  FALSE
    BY <1>5 DEF Spared
  <2>1. u \in unpurged[r] /\ u \in Vol
    BY <1>1 DEF Whole, Used
  <2>2. ASSUME NEW x \in Newer(unpurged[r], v, {"F", "D"})
        PROVE  jobtdate(u) < jobtdate(x)
    <3>1. x \in Vol /\ jobtdate(x) > written(v)
      BY <1>2, <2>2 DEF Newer, OfStream
    <3>2. x >= v
      BY <1>1, <3>1 DEF Steady
    <3> QED
      BY <1>1, <1>3, <2>1, <3>1, <3>2 DEF jobtdate
  <2>3. ASSUME NEW x \in Older(unpurged[r], v, {"F", "D"})
        PROVE  jobtdate(u) > jobtdate(x)
    <3>1. /\ x \in Vol /\ x <= label /\ job[x].level # "I" /\ job[x].stream = job[u].stream
          /\ jobtdate(x) < written(v)
      BY <1>2, <2>3 DEF Older, OfStream
    <3>2. x < v
      BY <1>1, <3>1 DEF Steady
    <3>3. ~ (u < x)
      BY <1>3, <3>1, <3>2 DEF SameRun
    <3>4. x # u
      BY <3>1
    <3> QED
      BY <1>3, <2>1, <3>1, <3>3, <3>4 DEF jobtdate
  <2>4. u \in chained_inc_backups(unpurged[r], v)
    BY <2>1, <2>2, <2>3 DEF chained_inc_backups, OfStream, BeforeAll, AfterAll
  <2> QED
    BY <1>5, <2>4 DEF Deletable, DeletableInc
<1>6. CASE l = "D"
  BY <1>6 DEF Spared
<1> QED
  BY <1>4, <1>5, <1>6 DEF Level

\* A new backup, for all that follows.
LEMMA NewBackup ==
  ASSUME TypeOK, SnapInv, Write
  PROVE  /\ UNCHANGED runVars
         /\ \E s \in Stream, l \in Level, ok \in BOOLEAN : \E n \in Vol, base \in Bases(s, l) :
              WriteBackup(s, l, ok) /\ Written(n, s, l, ok, base)
<1>1. PICK s \in Stream, l \in Level, ok \in BOOLEAN : WriteBackup(s, l, ok)
  BY DEF Write
<1>2. StoreTypeOK /\ Listed
  BY DEF TypeOK, SnapInv
<1>3. PICK n \in Vol, base \in Bases(s, l) : Written(n, s, l, ok, base)
  BY <1>1, <1>2, WriteEffect
<1> QED
  BY <1>1, <1>3 DEF Write

LEMMA OrderWrite ==
  ASSUME Steady, TypeOK, SnapInv, OrderInv, Write
  PROVE  OrderInv'
<1>0. PICK s \in Stream, l \in Level, ok \in BOOLEAN, n \in Vol :
        \E base \in Bases(s, l) : Written(n, s, l, ok, base)
  BY NewBackup
<1>1. /\ n = label + 1 /\ label' = n /\ Labelled' = Labelled \cup {n} /\ n \notin Labelled
      /\ Used' = Used \cup {n} /\ disk' = disk \cup {n} /\ Purged' = Purged
      /\ UNCHANGED runVars
  BY <1>0, NewBackup DEF Written
<1>2. /\ Labelled \subseteq Vol /\ \A v \in Labelled : v \in Int /\ v < n /\ ~ (n < v)
      /\ \A v \in Vol : v # n => job'[v] = job[v]
  <2>1. label \in Nat /\ MaxVol \in Nat /\ label <= MaxVol
    BY StoreAssumption DEF StoreAssumption, TypeOK, StoreTypeOK
  <2>2. /\ Labelled \subseteq Vol
        /\ \A v \in Labelled : v \in Int /\ v < n /\ ~ (n < v)
    BY <1>1, <2>1 DEF Labelled, Vol
  <2> QED
    BY <1>0, <2>2 DEF Written
<1>3. \A v \in Labelled : job'[v] = job[v] /\ v # n
  BY <1>1, <1>2
<1>4. \A u, v \in Labelled : SameRun(u, v)' => SameRun(u, v)
  BY <1>1, <1>3 DEF SameRun
<1>5. Used \subseteq Labelled
  BY DEF Used, Labelled, SnapInv, Listed, Vol, TypeOK, StoreTypeOK
<1>6. WholeInv'
  <2> SUFFICES ASSUME NEW r \in Runner, NEW v \in Candidates(r), NEW u \in Used', u < v
               PROVE  u \in unpurged[r]
    BY <1>1 DEF WholeInv, Whole, Candidates, runVars
  <2>1. v \in Vol /\ v <= label
    BY CandidatesType DEF SnapInv, SeenInv
  <2>2. u # n
    BY <1>1, <2>1 DEF Vol, TypeOK, StoreTypeOK
  <2> QED
    BY <1>1, <2>2 DEF OrderInv, WholeInv, Whole
<1>7. PendingInv'
  <2> SUFFICES ASSUME NEW r \in Runner, NEW k \in Level, NEW v \in Pending(r, k)
               PROVE  Spared(k, v)'
    BY <1>1 DEF PendingInv, Pending, runVars
  <2>1. v \in Labelled /\ Spared(k, v)
    BY PendingType DEF OrderInv, PendingInv
  <2>2. ASSUME k = "F" PROVE \E w \in Of(job[v].stream, "F")' : v < w
    BY <1>1, <1>3, <2>1, <2>2 DEF Spared, Of
  <2>3. ASSUME k = "I", NEW u \in Used', job'[u].stream = job'[v].stream, job'[u].level = "I",
               u < v
        PROVE  ~ SameRun(u, v)'
    <3>1. u \in Used /\ u \in Labelled
      BY <1>1, <1>2, <1>5, <2>1, <2>3
    <3> QED
      BY <1>3, <1>4, <2>1, <2>3, <3>1 DEF Spared
  <2> QED
    BY <1>3, <2>1, <2>2, <2>3 DEF Spared
<1>8. NewestFullKept'
  <2> SUFFICES ASSUME NEW t \in Stream, NEW v \in NewestOf(FullsOf(t))'
               PROVE  v \in disk'
    BY DEF NewestFullKept
  <2>1. v \in Labelled' /\ job'[v].stream = t /\ job'[v].level = "F"
        /\ \A w \in FullsOf(t)' : w <= v
    BY DEF NewestOf, FullsOf
  <2>2. CASE v # n
    <3>1. v \in FullsOf(t) /\ FullsOf(t) \subseteq FullsOf(t)'
      BY <1>1, <1>3, <2>1, <2>2 DEF FullsOf
    <3>2. v \in NewestOf(FullsOf(t))
      BY <2>1, <3>1 DEF NewestOf
    <3> QED
      BY <1>1, <3>2 DEF OrderInv, NewestFullKept
  <2> QED
    BY <1>1, <2>2
<1>9. IncsDeletedTogether'
  <2> SUFFICES ASSUME NEW u \in Used', NEW i \in Labelled',
                      job'[u].level = "I", job'[i].level = "I",
                      job'[u].stream = job'[i].stream, u < i, SameRun(u, i)'
               PROVE  i \in disk'
    BY DEF IncsDeletedTogether
  <2>1. CASE i # n
    <3>1. i \in Labelled /\ u \in Used /\ u \in Labelled
      BY <1>1, <1>2, <1>5, <2>1
    <3>2. SameRun(u, i)
      BY <1>4, <3>1
    <3> QED
      BY <1>1, <1>3, <3>1, <3>2 DEF OrderInv, IncsDeletedTogether
  <2> QED
    BY <1>1, <2>1
<1> QED
  BY <1>6, <1>7, <1>8, <1>9 DEF OrderInv

\* A step that makes no backup and takes no file but a pending one.
LEMMA OrderKept ==
  ASSUME TypeOK, SnapInv, OrderInv,
         UNCHANGED <<label, job>>, Used' \subseteq Used,
         \A v \in disk \ disk' : \E r \in Runner, l \in Level : v \in Pending(r, l)
  PROVE  /\ NewestFullKept' /\ IncsDeletedTogether'
         /\ \A l \in Level, v \in Vol : Spared(l, v) => Spared(l, v)'
<1>1. \A u, v \in Vol : SameRun(u, v)' <=> SameRun(u, v)
  BY DEF SameRun, Labelled
<1>2. /\ Labelled' = Labelled /\ \A s \in Stream : FullsOf(s)' = FullsOf(s)
      /\ \A s, l : Of(s, l)' = Of(s, l)
  BY DEF FullsOf, Labelled, Of
<1>3. NewestFullKept'
  <2> SUFFICES ASSUME NEW s \in Stream, NEW v \in NewestOf(FullsOf(s)), v \notin disk'
               PROVE  FALSE
    BY <1>2 DEF NewestFullKept, NewestOf
  <2>1. /\ v \in disk /\ v \in Labelled /\ job[v].stream = s /\ job[v].level = "F"
        /\ \A w \in FullsOf(s) : w <= v
    BY DEF OrderInv, NewestFullKept, NewestOf, FullsOf
  <2>2. PICK r \in Runner, l \in Level : v \in Pending(r, l)
    BY <2>1
  <2>3. l = "F" /\ Spared(l, v)
    BY <2>1, <2>2, PendingType DEF OrderInv, PendingInv
  <2>4. PICK w \in Of(s, "F") : v < w
    BY <2>1, <2>3 DEF Spared
  <2>5. w \in FullsOf(s) /\ w \in Int /\ v \in Int
    BY <2>1, <2>4 DEF Of, FullsOf, Labelled
  <2> QED
    BY <2>1, <2>4, <2>5
<1>4. IncsDeletedTogether'
  <2> SUFFICES ASSUME NEW u \in Used, NEW i \in Labelled,
                      job[u].level = "I", job[i].level = "I",
                      job[u].stream = job[i].stream, u < i, SameRun(u, i), i \notin disk'
               PROVE  FALSE
    BY <1>1, <1>2 DEF IncsDeletedTogether, SameRun
  <2>1. i \in disk
    BY DEF OrderInv, IncsDeletedTogether
  <2>2. PICK r \in Runner, l \in Level : i \in Pending(r, l)
    BY <2>1
  <2>3. l = "I" /\ Spared(l, i)
    BY <2>2, PendingType DEF OrderInv, PendingInv
  <2> QED
    BY <2>3 DEF Spared
<1>5. ASSUME NEW l \in Level, NEW v \in Vol, Spared(l, v) PROVE Spared(l, v)'
  BY <1>1, <1>2, <1>5 DEF Spared, Used
<1> QED
  BY <1>3, <1>4, <1>5

LEMMA OrderStep ==
  ASSUME Steady, TypeOK, SnapInv, OrderInv, [Next]_vars
  PROVE  OrderInv'
<1>1. CASE Write
  BY <1>1, OrderWrite
<1>2. CASE PurgeVol
  <2>1. /\ UNCHANGED <<label, job, disk, unpurged>> /\ Used' \subseteq Used
        /\ \A r \in Runner : Candidates(r)' = Candidates(r)
        /\ \A r \in Runner, l \in Level : Pending(r, l)' = Pending(r, l)
    BY <1>2, PurgeEffect DEF runVars
  <2>2. /\ NewestFullKept' /\ IncsDeletedTogether'
        /\ \A l \in Level, v \in Vol : Spared(l, v) => Spared(l, v)'
    BY <2>1, OrderKept
  <2>3. WholeInv'
    BY <2>1 DEF OrderInv, WholeInv, Whole
  <2>4. PendingInv'
    BY <2>1, <2>2, PendingType DEF OrderInv, PendingInv
  <2> QED
    BY <2>2, <2>3, <2>4 DEF OrderInv
<1>3. ASSUME NEW r \in Runner, NEW d \in DryRuns, SelectVolumes(r, d) PROVE OrderInv'
  <2>1. /\ UNCHANGED <<label, job, disk, media>> /\ unpurged' = [unpurged EXCEPT ![r] = Used]
        /\ Used' = Used
        /\ \A q \in Runner : q # r => Candidates(q)' = Candidates(q)
        /\ \A q \in Runner, l \in Level : Pending(q, l)' = Pending(q, l)
    BY <1>3, StartEffect DEF storeVars, Used
  <2>2. /\ NewestFullKept' /\ IncsDeletedTogether'
        /\ \A l \in Level, v \in Vol : Spared(l, v) => Spared(l, v)'
    BY <2>1, OrderKept
  <2>3. WholeInv'
    BY <2>1 DEF OrderInv, WholeInv, Whole, TypeOK
  <2>4. PendingInv'
    BY <2>1, <2>2, PendingType DEF OrderInv, PendingInv
  <2> QED
    BY <2>2, <2>3, <2>4 DEF OrderInv
<1>4. ASSUME NEW r \in Runner, Run(r) \/ Crash(r), ~ \E d \in DryRuns : SelectVolumes(r, d)
      PROVE  OrderInv'
  <2>1. /\ UNCHANGED <<label, job, needs>> /\ Used' = Used
        /\ \A q \in Runner :
             /\ Candidates(q)' \subseteq Candidates(q)
             /\ \/ unpurged'[q] = unpurged[q]
                \/ unpurged'[q] = {} /\ Candidates(q)' = {}
        /\ \A q \in Runner, l \in Level :
             Pending(q, l)' \subseteq Pending(q, l) \/ (q = r /\ Decide(r))
        /\ disk' = disk \/ \E l \in Level : \E v \in Pending(r, l) : disk' = disk \ {v}
    BY <1>4, RunEffect
  <2>2. /\ NewestFullKept' /\ IncsDeletedTogether'
        /\ \A l \in Level, v \in Vol : Spared(l, v) => Spared(l, v)'
    BY <2>1, OrderKept
  <2>3. WholeInv'
    BY <2>1 DEF OrderInv, WholeInv, Whole
  <2>4. PendingInv'
    <3> SUFFICES ASSUME NEW q \in Runner, NEW l \in Level, NEW v \in Pending(q, l)'
                 PROVE  Spared(l, v)'
      BY DEF PendingInv
    <3>1. CASE v \in Pending(q, l)
      BY <2>2, <3>1, PendingType DEF OrderInv, PendingInv
    <3>2. CASE v \notin Pending(q, l)
      <4>1. q = r /\ Decide(r)
        BY <2>1, <3>2
      <4>2. v \in lists[r][l] /\ Deletable(unpurged[r], l, v)
        BY <4>1, DecideEffect
      <4>3. Spared(l, v) /\ v \in Vol
        BY <4>2, DecidedSpared DEF OrderInv, WholeInv, TypeOK
      <4> QED
        BY <2>2, <4>3
    <3> QED
      BY <3>1, <3>2
  <2> QED
    BY <2>2, <2>3, <2>4 DEF OrderInv
<1>5. CASE UNCHANGED vars
  <2>1. /\ UNCHANGED <<label, job, disk, unpurged>> /\ Used' = Used
        /\ \A q \in Runner : Candidates(q)' = Candidates(q)
        /\ \A q \in Runner, l \in Level : Pending(q, l)' = Pending(q, l)
    BY <1>5, StutterEffect DEF runVars
  <2>2. /\ NewestFullKept' /\ IncsDeletedTogether'
        /\ \A l \in Level, v \in Vol : Spared(l, v) => Spared(l, v)'
    BY <2>1, OrderKept
  <2> QED
    BY <2>1, <2>2, PendingType DEF OrderInv, WholeInv, Whole, PendingInv
<1> QED
  BY <1>1, <1>2, <1>3, <1>4, <1>5 DEF Next, Run

\* What NewestStays and IncsGoTogether rest on.
THEOREM OrderInvariant == ASSUME Steady PROVE Spec => []OrderInv
<1>1. Init => OrderInv
  BY DEF Init, StoreInit, OrderInv, WholeInv, Whole, Candidates, PendingInv, Pending,
         NewestFullKept, NewestOf, FullsOf, Labelled, IncsDeletedTogether, NoLists, Level, Used
<1>2. TypeOK /\ SnapInv /\ OrderInv /\ [Next]_vars => OrderInv'
  BY OrderStep
<1> QED
  BY <1>1, <1>2, TypeCorrect, SnapInvariant, PTL DEF Spec

\* No overlap of runs, purges and backups costs a stream its newest full.
THEOREM NewestStays == ASSUME Steady PROVE Spec => []NewestFullKept
<1>1. OrderInv => NewestFullKept
  BY DEF OrderInv
<1> QED
  BY <1>1, OrderInvariant, PTL

\* No incremental goes while an earlier one of its run is unpurged.
THEOREM IncsGoTogether == ASSUME Steady PROVE Spec => []IncsDeletedTogether
<1>1. OrderInv => IncsDeletedTogether
  BY DEF OrderInv
<1> QED
  BY <1>1, OrderInvariant, PTL

-----------------------------------------------------------------------------
(***************************************************************************)
(* Three fulls and two diffs are left, however many runs overlap.  Each    *)
(* run decides on a snapshot.  Snapshots shrink as time goes by: A[r] is   *)
(* what was not yet purged when run r read the catalog, future backups     *)
(* included.  A run removes nothing that is in its own snapshot, and by    *)
(* the same token nothing that is in a later one.  Of those that decided   *)
(* to remove a volume of some stream and level the last, B, held enough of *)
(* them, and all of these are still there.                                 *)
(***************************************************************************)
NotYet == Used \cup {v \in Vol : v > label}
Comparable(X, Y) == X \subseteq Y \/ Y \subseteq X
Keep(l) == IF l = "F" THEN KeepFulls ELSE KeepDiffs

Snapshots(A) ==
  \A r \in Runner : /\ NotYet \subseteq A[r]
                    /\ unpurged[r] \subseteq A[r]
                    /\ Candidates(r) \cap A[r] = {}
                    /\ \A q \in Runner : Comparable(A[r], A[q])

AllThere(s, l) ==
  Of(s, l) \subseteq disk /\ \A q \in Runner : Pending(q, l) \cap Of(s, l) = {}

Held(A, B, s, l) ==
  /\ NotYet \subseteq B
  /\ \A r \in Runner : Comparable(A[r], B)
  /\ Of(s, l) \cap B \subseteq disk
  /\ Cardinality(Of(s, l) \cap B) >= Keep(l)
  /\ \A q \in Runner : Pending(q, l) \cap Of(s, l) \cap B = {}

Enough(A, s, l) == AllThere(s, l) \/ \E B \in SUBSET Vol : Held(A, B, s, l)

CountInv ==
  \E A \in [Runner -> SUBSET Vol] :
    Snapshots(A) /\ \A s \in Stream, l \in {"F", "D"} : Enough(A, s, l)

LEMMA OfFinite ==
  ASSUME TypeOK, NEW s, NEW l, NEW T \in SUBSET Of(s, l)
  PROVE  IsFiniteSet(T)
<1>1. label \in Int
  BY DEF TypeOK, StoreTypeOK
<1>2. IsFiniteSet(Labelled)
  BY <1>1, FS_Interval DEF Labelled
<1> QED
  BY <1>2, FS_Subset DEF Of

\* A step that makes no backup and decides nothing.
LEMMA EnoughKept ==
  ASSUME TypeOK, SnapInv,
         NEW A \in [Runner -> SUBSET Vol], NEW C \in [Runner -> SUBSET Vol],
         \A r \in Runner : C[r] = A[r] \/ C[r] \subseteq NotYet,
         UNCHANGED <<label, job>>, Used' \subseteq Used,
         \A q \in Runner, k \in Level : Pending(q, k)' \subseteq Pending(q, k),
         \A v \in disk \ disk' : \E q \in Runner, k \in Level : v \in Pending(q, k),
         NEW s \in Stream, NEW l \in {"F", "D"}, Enough(A, s, l)
  PROVE  Enough(C, s, l)'
<1>1. l \in Level /\ Of(s, l)' = Of(s, l) /\ NotYet' \subseteq NotYet
  BY DEF Level, Of, Labelled, NotYet
<1>2. \A v \in Of(s, l) : v \in disk \ disk' => \E q \in Runner : v \in Pending(q, l)
  <2> SUFFICES ASSUME NEW v \in Of(s, l), v \in disk \ disk'
               PROVE  \E q \in Runner : v \in Pending(q, l)
    OBVIOUS
  <2>1. PICK q \in Runner, k \in Level : v \in Pending(q, k)
    OBVIOUS
  <2>2. k = l
    BY <2>1, PendingType DEF Of
  <2> QED
    BY <2>1, <2>2
<1>3. CASE AllThere(s, l)
  BY <1>1, <1>2, <1>3 DEF AllThere, Enough
<1>4. ASSUME NEW B \in SUBSET Vol, Held(A, B, s, l) PROVE Held(C, B, s, l)'
  <2>1. NotYet \subseteq B /\ \A r \in Runner : Comparable(A[r], B)
    BY <1>4 DEF Held
  <2>2. \A r \in Runner : Comparable(C[r], B)
    BY <2>1 DEF Comparable
  <2>3. Of(s, l)' \cap B \subseteq disk'
    BY <1>1, <1>2, <1>4 DEF Held
  <2>4. Cardinality(Of(s, l)' \cap B) >= Keep(l)
    BY <1>1, <1>4 DEF Held
  <2> QED
    BY <1>1, <1>4, <2>1, <2>2, <2>3, <2>4 DEF Held, Comparable
<1> QED
  BY <1>3, <1>4 DEF Enough

\* Run r decides: its snapshot takes B's place if it is the later one.
LEMMA EnoughDecided ==
  ASSUME Steady, TypeOK, SnapInv, NEW A \in [Runner -> SUBSET Vol], Snapshots(A),
         NEW r \in Runner, Decide(r),
         NEW s \in Stream, NEW l \in {"F", "D"}, Enough(A, s, l)
  PROVE  Enough(A, s, l)'
<1>1. /\ UNCHANGED storeVars /\ l \in Level
      /\ \A q \in Runner : q # r => Pending(q, l)' = Pending(q, l)
      /\ \A v \in Pending(r, l)' : v \in lists[r][l] /\ Deletable(unpurged[r], l, v)
  BY DecideEffect DEF Level
<1>2. Of(s, l)' = Of(s, l) /\ NotYet' = NotYet /\ disk' = disk
  BY <1>1 DEF Of, Labelled, NotYet, Used, storeVars
<1>3. Pending(r, l) = {}
  BY DEF Decide, Pending
<1>4. CASE Pending(r, l)' \cap Of(s, l) = {}
  <2>1. AllThere(s, l) => AllThere(s, l)'
    BY <1>1, <1>2, <1>4 DEF AllThere
  <2>2. ASSUME NEW B \in SUBSET Vol, Held(A, B, s, l) PROVE Held(A, B, s, l)'
    BY <1>1, <1>2, <1>4, <2>2 DEF Held, Comparable
  <2> QED
    BY <2>1, <2>2 DEF Enough
<1>5. CASE Pending(r, l)' \cap Of(s, l) # {}
  <2>1. PICK v \in Pending(r, l)' : v \in Of(s, l)
    BY <1>5
  <2>2. Pending(r, l)' \cap A[r] = {}
    <3>1. lists[r][l] \subseteq Candidates(r)
      BY DEF Candidates
    <3> QED
      BY <1>1, <3>1 DEF Snapshots
  <2>3. Cardinality(Of(s, l) \cap A[r]) >= Keep(l)
    <3>1. Cardinality(OfStream(unpurged[r], v, {l})) >= Keep(l)
      BY <1>1, <2>1 DEF Deletable, DeletableFull, DeletableDiff, Keep
    <3>2. OfStream(unpurged[r], v, {l}) \subseteq Of(s, l) \cap A[r]
      <4>1. unpurged[r] \subseteq Labelled
        BY DEF SnapInv, SeenInv, Labelled, Vol, TypeOK, StoreTypeOK
      <4>2. job[v].stream = s
        BY <2>1 DEF Of
      <4> QED
        BY <4>1, <4>2 DEF OfStream, Of, Snapshots
    <3>3. IsFiniteSet(Of(s, l) \cap A[r])
      BY OfFinite
    <3>4. IsFiniteSet(OfStream(unpurged[r], v, {l}))
      BY <3>2, OfFinite
    <3>5. Cardinality(OfStream(unpurged[r], v, {l})) <= Cardinality(Of(s, l) \cap A[r])
      BY <3>2, <3>3, FS_Subset
    <3>6. /\ Cardinality(OfStream(unpurged[r], v, {l})) \in Nat
          /\ Cardinality(Of(s, l) \cap A[r]) \in Nat
      BY <3>3, <3>4, FS_CardinalityType
    <3> QED
      BY <3>1, <3>5, <3>6 DEF Keep, KeepFulls, KeepDiffs
  <2>4. CASE AllThere(s, l)
    <3>1. Held(A, A[r], s, l)'
      <4>1. /\ NotYet' \subseteq A[r] /\ \A q \in Runner : Comparable(A[q], A[r])
        BY <1>2 DEF Snapshots
      <4>2. Of(s, l)' \cap A[r] \subseteq disk'
        BY <1>2, <2>4 DEF AllThere
      <4>3. \A q \in Runner : Pending(q, l)' \cap Of(s, l)' \cap A[r] = {}
        BY <1>1, <1>2, <2>2, <2>4 DEF AllThere
      <4> QED
        BY <1>2, <2>3, <4>1, <4>2, <4>3 DEF Held, Comparable
    <3> QED
      BY <3>1 DEF Enough
  <2>5. ASSUME NEW B \in SUBSET Vol, Held(A, B, s, l), B \subseteq A[r]
        PROVE  Held(A, B, s, l)'
    <3>1. \A q \in Runner : Pending(q, l)' \cap Of(s, l)' \cap B = {}
      BY <1>1, <1>2, <2>2, <2>5 DEF Held
    <3> QED
      BY <1>2, <2>5, <3>1 DEF Held, Comparable
  <2>6. ASSUME NEW B \in SUBSET Vol, Held(A, B, s, l), A[r] \subseteq B
        PROVE  Held(A, A[r], s, l)'
    <3>1. /\ NotYet' \subseteq A[r] /\ \A q \in Runner : Comparable(A[q], A[r])
      BY <1>2 DEF Snapshots
    <3>2. Of(s, l)' \cap A[r] \subseteq disk'
      BY <1>2, <2>6 DEF Held
    <3>3. \A q \in Runner : Pending(q, l)' \cap Of(s, l)' \cap A[r] = {}
      BY <1>1, <1>2, <2>2, <2>6 DEF Held
    <3> QED
      BY <1>2, <2>3, <3>1, <3>2, <3>3 DEF Held, Comparable
  <2> QED
    BY <2>4, <2>5, <2>6 DEF Enough, Held, Comparable
<1> QED
  BY <1>4, <1>5

LEMMA CountWrite ==
  ASSUME Steady, TypeOK, SnapInv, Write,
         NEW A \in [Runner -> SUBSET Vol], Snapshots(A)
  PROVE  /\ Snapshots(A)'
         /\ \A s \in Stream, l \in {"F", "D"} : Enough(A, s, l) => Enough(A, s, l)'
<1>0. PICK t \in Stream, k \in Level, ok \in BOOLEAN, n \in Vol :
        \E base \in Bases(t, k) : Written(n, t, k, ok, base)
  BY NewBackup
<1>1. /\ n = label + 1 /\ label' = n /\ Labelled' = Labelled \cup {n} /\ n \notin Labelled
      /\ \A v \in Vol : v # n => job'[v] = job[v]
      /\ Used' = Used \cup {n} /\ disk' = disk \cup {n} /\ Purged' = Purged
      /\ UNCHANGED runVars
  BY <1>0, NewBackup DEF Written
<1>2. NotYet' = NotYet
  BY <1>1 DEF NotYet, Vol, TypeOK, StoreTypeOK
<1>3. /\ \A q \in Runner : Candidates(q)' = Candidates(q) /\ unpurged'[q] = unpurged[q]
      /\ \A q \in Runner, l \in Level : Pending(q, l)' = Pending(q, l)
  BY <1>1 DEF Candidates, Pending, runVars
<1>4. Snapshots(A)'
  BY <1>2, <1>3 DEF Snapshots, Comparable
<1>5. ASSUME NEW s \in Stream, NEW l \in {"F", "D"}, Enough(A, s, l)
      PROVE  Enough(A, s, l)'
  <2>1. \A v \in Labelled : v \in Vol /\ v # n
    BY <1>1, StoreAssumption DEF StoreAssumption, Labelled, Vol, TypeOK, StoreTypeOK
  <2>2. \A v \in Labelled : job'[v] = job[v]
    BY <1>1, <2>1
  <2>3. Of(s, l) \subseteq Of(s, l)' /\ Of(s, l)' \subseteq Of(s, l) \cup {n}
    BY <1>1, <2>2 DEF Of
  <2>4. l \in Level /\ \A q \in Runner : n \notin Pending(q, l)
    BY <1>1, PendingType DEF Level
  <2>5. AllThere(s, l) => AllThere(s, l)'
    BY <1>1, <1>3, <2>3, <2>4 DEF AllThere
  <2>6. ASSUME NEW B \in SUBSET Vol, Held(A, B, s, l) PROVE Held(A, B, s, l)'
    <3>1. Of(s, l)' \cap B \subseteq disk'
      BY <1>1, <2>3, <2>6 DEF Held
    <3>2. \A q \in Runner : Pending(q, l)' \cap Of(s, l)' \cap B = {}
      BY <1>3, <2>3, <2>4, <2>6 DEF Held
    <3>3. Cardinality(Of(s, l)' \cap B) >= Keep(l)
      <4> DEFINE T == Of(s, l)' \cap B
      <4>1. IsFiniteSet(Of(s, l) \cap B)
        BY OfFinite
      <4>2. IsFiniteSet((Of(s, l) \cap B) \cup {n})
        BY <4>1, FS_AddElement
      <4>3. IsFiniteSet(T)
        BY <2>3, <4>2, FS_Subset
      <4>4. /\ Cardinality(Of(s, l) \cap B) <= Cardinality(T)
            /\ Cardinality(T) \in Nat /\ Cardinality(Of(s, l) \cap B) \in Nat
        BY <2>3, <4>1, <4>3, FS_Subset, FS_CardinalityType
      <4>5. Cardinality(Of(s, l) \cap B) >= Keep(l)
        BY <2>6 DEF Held
      <4> QED
        BY <4>4, <4>5 DEF Keep, KeepFulls, KeepDiffs
    <3> QED
      BY <1>2, <2>6, <3>1, <3>2, <3>3 DEF Held, Comparable
  <2> QED
    BY <1>5, <2>5, <2>6 DEF Enough
<1> QED
  BY <1>4, <1>5

LEMMA CountStep ==
  ASSUME Steady, TypeOK, SnapInv, CountInv, [Next]_vars
  PROVE  CountInv'
<1>1. PICK A \in [Runner -> SUBSET Vol] :
        Snapshots(A) /\ \A s \in Stream, l \in {"F", "D"} : Enough(A, s, l)
  BY DEF CountInv
<1>2. CASE Write
  BY <1>1, <1>2, CountWrite DEF CountInv
<1>3. CASE PurgeVol
  <2>1. /\ UNCHANGED <<label, job, disk, unpurged>> /\ Used' \subseteq Used
        /\ \A r \in Runner : Candidates(r)' = Candidates(r)
        /\ \A r \in Runner, l \in Level : Pending(r, l)' = Pending(r, l)
    BY <1>3, PurgeEffect DEF runVars
  <2>2. NotYet' \subseteq NotYet
    BY <2>1 DEF NotYet
  <2>3. Snapshots(A)'
    BY <1>1, <2>1, <2>2 DEF Snapshots, Comparable
  <2>4. \A s \in Stream, l \in {"F", "D"} : Enough(A, s, l)'
    BY <1>1, <2>1, <2>2, EnoughKept
  <2> QED
    BY <2>3, <2>4 DEF CountInv
<1>4. ASSUME NEW r \in Runner, NEW d \in DryRuns, SelectVolumes(r, d) PROVE CountInv'
  <2>1. /\ UNCHANGED <<label, job, disk, media>> /\ unpurged' = [unpurged EXCEPT ![r] = Used]
        /\ Used' = Used /\ NotYet' = NotYet
        /\ Candidates(r)' = Purged
        /\ \A q \in Runner : q # r => Candidates(q)' = Candidates(q)
        /\ \A q \in Runner, l \in Level : Pending(q, l)' = Pending(q, l)
    BY <1>4, StartEffect DEF storeVars, Used, NotYet
  <2>2. NotYet \in SUBSET Vol /\ Purged \cap NotYet = {}
    <3>1. \A v \in Purged : v \in Vol /\ v <= label /\ v \notin Used
      BY DEF Purged, Used, SnapInv, Listed
    <3> QED
      BY <3>1 DEF NotYet, Used, Vol, TypeOK, StoreTypeOK
  <2>3. PICK C \in [Runner -> SUBSET Vol] :
          C[r] = NotYet /\ \A q \in Runner : q # r => C[q] = A[q]
    <3>1. [A EXCEPT ![r] = NotYet] \in [Runner -> SUBSET Vol]
      BY <2>2
    <3> QED
      BY <3>1
  <2>4. Snapshots(C)'
    <3> SUFFICES ASSUME NEW q \in Runner
                 PROVE  /\ NotYet \subseteq C[q] /\ unpurged'[q] \subseteq C[q]
                        /\ Candidates(q)' \cap C[q] = {}
                        /\ \A p \in Runner : Comparable(C[q], C[p])
      BY <2>1 DEF Snapshots, Comparable
    <3>1. \A p \in Runner : C[p] = NotYet \/ C[p] = A[p]
      BY <2>3
    <3>2. \A p \in Runner : NotYet \subseteq A[p]
      BY <1>1 DEF Snapshots
    <3>3. NotYet \subseteq C[q] /\ \A p \in Runner : Comparable(C[q], C[p])
      BY <1>1, <3>1, <3>2 DEF Snapshots, Comparable
    <3>4. CASE q = r
      BY <2>1, <2>2, <2>3, <3>3, <3>4 DEF NotYet, TypeOK
    <3>5. CASE q # r
      BY <1>1, <2>1, <2>3, <3>3, <3>5 DEF Snapshots, TypeOK
    <3> QED
      BY <3>4, <3>5
  <2>5. \A s \in Stream, l \in {"F", "D"} : Enough(C, s, l)'
    <3>1. \A q \in Runner : C[q] = A[q] \/ C[q] \subseteq NotYet
      BY <2>3
    <3> QED
      BY <1>1, <2>1, <2>3, <3>1, EnoughKept
  <2> QED
    BY <2>3, <2>4, <2>5 DEF CountInv
<1>5. ASSUME NEW r \in Runner, Run(r) \/ Crash(r), ~ \E d \in DryRuns : SelectVolumes(r, d)
      PROVE  CountInv'
  <2>1. /\ UNCHANGED <<label, job, needs>> /\ Used' = Used
        /\ \A q \in Runner :
             /\ Candidates(q)' \subseteq Candidates(q)
             /\ \/ unpurged'[q] = unpurged[q]
                \/ unpurged'[q] = {} /\ Candidates(q)' = {}
        /\ \A q \in Runner, l \in Level :
             Pending(q, l)' \subseteq Pending(q, l) \/ (q = r /\ Decide(r))
        /\ disk' = disk \/ \E l \in Level : \E v \in Pending(r, l) : disk' = disk \ {v}
    BY <1>5, RunEffect
  <2>2. Snapshots(A)'
    BY <1>1, <2>1 DEF Snapshots, Comparable, NotYet
  <2>3. \A s \in Stream, l \in {"F", "D"} : Enough(A, s, l)'
    <3>1. CASE Decide(r)
      BY <1>1, <3>1, EnoughDecided
    <3>2. CASE ~ Decide(r)
      <4>1. \A v \in disk \ disk' : \E q \in Runner, k \in Level : v \in Pending(q, k)
        BY <2>1
      <4> QED
        BY <1>1, <2>1, <3>2, <4>1, EnoughKept
    <3> QED
      BY <3>1, <3>2
  <2> QED
    BY <2>2, <2>3 DEF CountInv
<1>6. CASE UNCHANGED vars
  <2>1. /\ UNCHANGED <<label, job, disk, unpurged>> /\ Used' = Used
        /\ \A q \in Runner : Candidates(q)' = Candidates(q)
        /\ \A q \in Runner, l \in Level : Pending(q, l)' = Pending(q, l)
    BY <1>6, StutterEffect DEF runVars
  <2>2. Snapshots(A)'
    BY <1>1, <2>1 DEF Snapshots, Comparable, NotYet
  <2>3. \A s \in Stream, l \in {"F", "D"} : Enough(A, s, l)'
    BY <1>1, <2>1, EnoughKept
  <2> QED
    BY <2>2, <2>3 DEF CountInv
<1> QED
  BY <1>2, <1>3, <1>4, <1>5, <1>6 DEF Next, Run

\* What FullsStay, DiffsStay and KeepsPromise rest on.
THEOREM CountInvariant == ASSUME Steady PROVE Spec => []CountInv
<1>1. Init => CountInv
  <2> SUFFICES ASSUME Init PROVE CountInv
    OBVIOUS
  <2> DEFINE A == [r \in Runner |-> Vol]
  <2>1. A \in [Runner -> SUBSET Vol] /\ \A r \in Runner : A[r] = Vol
    OBVIOUS
  <2>2. Snapshots(A)
    BY <2>1 DEF Snapshots, Comparable, NotYet, Used, Candidates, Init, StoreInit, NoLists, Level
  <2>3. \A s \in Stream, l \in {"F", "D"} : Enough(A, s, l)
    BY DEF Enough, AllThere, Of, Labelled, Init, StoreInit
  <2> QED
    BY <2>1, <2>2, <2>3 DEF CountInv
<1>2. TypeOK /\ SnapInv /\ CountInv /\ [Next]_vars => CountInv'
  BY CountStep
<1> QED
  BY <1>1, <1>2, TypeCorrect, SnapInvariant, PTL DEF Spec

\* Either none of a stream's volumes of a level is gone, or enough are left.
LEMMA EnoughLeft ==
  ASSUME TypeOK, CountInv, NEW s \in Stream, NEW l \in {"F", "D"}
  PROVE  Of(s, l) \subseteq disk \/ Cardinality(Of(s, l) \cap disk) >= Keep(l)
<1>1. PICK A \in [Runner -> SUBSET Vol] : Enough(A, s, l)
  BY DEF CountInv
<1>2. ASSUME NEW B \in SUBSET Vol, Held(A, B, s, l)
      PROVE  Cardinality(Of(s, l) \cap disk) >= Keep(l)
  <2>1. Of(s, l) \cap B \subseteq Of(s, l) \cap disk /\ Cardinality(Of(s, l) \cap B) >= Keep(l)
    BY <1>2 DEF Held
  <2>2. IsFiniteSet(Of(s, l) \cap disk) /\ IsFiniteSet(Of(s, l) \cap B)
    BY OfFinite
  <2>3. /\ Cardinality(Of(s, l) \cap B) <= Cardinality(Of(s, l) \cap disk)
        /\ Cardinality(Of(s, l) \cap B) \in Nat /\ Cardinality(Of(s, l) \cap disk) \in Nat
    BY <2>1, <2>2, FS_Subset, FS_CardinalityType
  <2> QED
    BY <2>1, <2>3 DEF Keep, KeepFulls, KeepDiffs
<1> QED
  BY <1>1, <1>2 DEF Enough, AllThere

\* However many runs overlap, and whatever is purged while they work through
\* their lists, three fulls of a stream are left once one has gone.
THEOREM FullsStay == ASSUME Steady PROVE Spec => []ThreeFullsKept
<1>1. TypeOK /\ CountInv => ThreeFullsKept
  <2> SUFFICES ASSUME TypeOK, CountInv, NEW s \in Stream
               PROVE  FullsOf(s) \subseteq disk \/ Cardinality(FullsOf(s) \cap disk) >= 3
    BY DEF ThreeFullsKept
  <2>1. FullsOf(s) = Of(s, "F") /\ Keep("F") = 3
    BY DEF FullsOf, Of, Keep, KeepFulls
  <2> QED
    BY <2>1, EnoughLeft
<1> QED
  BY <1>1, TypeCorrect, CountInvariant, PTL

\* Likewise two diffs.
THEOREM DiffsStay == ASSUME Steady PROVE Spec => []TwoDiffsKept
<1>1. TypeOK /\ CountInv => TwoDiffsKept
  <2> SUFFICES ASSUME TypeOK, CountInv, NEW s \in Stream
               PROVE  DiffsOf(s) \subseteq disk \/ Cardinality(DiffsOf(s) \cap disk) >= 2
    BY DEF TwoDiffsKept
  <2>1. DiffsOf(s) = Of(s, "D") /\ Keep("D") = 2
    BY DEF DiffsOf, Of, Keep, KeepDiffs
  <2> QED
    BY <2>1, EnoughLeft
<1> QED
  BY <1>1, TypeCorrect, CountInvariant, PTL

-----------------------------------------------------------------------------
(***************************************************************************)
(* The script implements Retention.                                        *)
(***************************************************************************)
LEMMA SameCardinality == ASSUME NEW S PROVE Promise!Cardinality(S) = Cardinality(S)
  BY DEF Promise!Cardinality, Cardinality

LEMMA PendingMayGo ==
  ASSUME TypeOK, SnapInv, ChainInv, OrderInv, CountInv,
         NEW r \in Runner, NEW k \in Level, NEW v \in Pending(r, k)
  PROVE  Promise!MayGo(v)
<1>1. /\ v \in Vol /\ v \in Labelled /\ v \in Candidates(r) /\ job[v].level = k
      /\ pc[r] \in {"delete", "delcat"} /\ Spared(k, v)
  BY PendingType DEF OrderInv, PendingInv
<1>2. job[v].stream \in Stream
  BY <1>1 DEF TypeOK, StoreTypeOK, Backup
<1>3. \A u \in Used : v \notin needs[u]
  BY <1>1 DEF ChainInv, DependInv
<1>4. Promise!Others(v) = Of(job[v].stream, k) \ {v}
  BY <1>1 DEF Promise!Others, Of, Labelled
<1>5. ASSUME k \in {"F", "D"}
      PROVE  Cardinality(Promise!Others(v) \cap disk) >= Keep(k)
  <2> DEFINE S == Of(job[v].stream, k)
             T == Promise!Others(v) \cap disk
  <2>1. v \in S
    BY <1>1 DEF Of
  <2>2. PICK A \in [Runner -> SUBSET Vol] : Enough(A, job[v].stream, k)
    BY <1>2, <1>5 DEF CountInv
  <2>3. PICK B \in SUBSET Vol : Held(A, B, job[v].stream, k)
    BY <2>1, <2>2 DEF Enough, AllThere
  <2>4. S \cap B \subseteq T /\ T \subseteq S /\ Cardinality(S \cap B) >= Keep(k)
    BY <1>4, <2>1, <2>3 DEF Held
  <2>5. IsFiniteSet(T) /\ IsFiniteSet(S \cap B)
    BY <2>4, OfFinite
  <2>6. /\ Cardinality(S \cap B) <= Cardinality(T)
        /\ Cardinality(S \cap B) \in Nat /\ Cardinality(T) \in Nat
    BY <2>4, <2>5, FS_Subset, FS_CardinalityType
  <2> QED
    BY <2>4, <2>6 DEF Keep, KeepFulls, KeepDiffs
<1>6. ASSUME k = "F" PROVE \E w \in Promise!Others(v) : w > v
  <2>1. PICK w \in Of(job[v].stream, "F") : v < w
    BY <1>1, <1>6 DEF Spared
  <2>2. w \in Int /\ v \in Int
    BY <1>1, <2>1 DEF Of, Labelled
  <2> QED
    BY <1>4, <1>6, <2>1, <2>2
<1>7. ASSUME k = "I", NEW u \in Promise!Others(v) \cap Used, u < v
      PROVE  \E w \in 1..label : /\ u < w /\ w < v
                                 /\ job[w].stream = job[v].stream
                                 /\ job[w].level # "I"
  <2>1. job[u].stream = job[v].stream /\ job[u].level = "I" /\ u \in Used
    BY <1>4, <1>7 DEF Of
  <2>2. ~ SameRun(u, v)
    BY <1>1, <1>7, <2>1 DEF Spared
  <2> QED
    BY <2>1, <2>2 DEF SameRun, Labelled
<1> QED
  BY <1>1, <1>3, <1>5, <1>6, <1>7, SameCardinality
  DEF Promise!MayGo, Promise!AtLeast, Keep, KeepFulls, KeepDiffs

LEMMA PromiseStep ==
  ASSUME Orderly, TypeOK, SnapInv, ChainInv, OrderInv, CountInv, [Next]_vars
  PROVE  [Promise!Next]_(Promise!vars)
<1>0. Steady
  BY DEF Orderly
<1>1. CASE Write
  <2>0. PICK s \in Stream, l \in Level, ok \in BOOLEAN : \E n \in Vol, base \in Bases(s, l) :
          WriteBackup(s, l, ok) /\ Written(n, s, l, ok, base)
    BY <1>1, NewBackup
  <2>1. PICK n \in Vol, base \in Bases(s, l) : WriteBackup(s, l, ok) /\ Written(n, s, l, ok, base)
    BY <2>0
  <2>2. ok = TRUE /\ label < MaxVol
    BY <2>1 DEF WriteBackup, Orderly
  <2>3. base \in SUBSET disk
    BY BasesSound DEF SnapInv, ChainInv, TypeOK
  <2>4. [stream |-> s, level |-> l, ok |-> TRUE] \in Promise!Backup
    BY DEF Promise!Backup, Level
  <2>5. Promise!Make([stream |-> s, level |-> l, ok |-> TRUE], base)
    BY <2>1, <2>2 DEF Promise!Make, Written
  <2> QED
    BY <2>3, <2>4, <2>5 DEF Promise!Next
<1>2. CASE PurgeVol
  <2>1. PICK v \in Vol : Purge(v)
    BY <1>2 DEF PurgeVol
  <2>2. Used' = Used \ {v} /\ UNCHANGED <<label, job, needs, disk>>
    BY <2>1 DEF Purge, MarkPurged, Used, TypeOK, StoreTypeOK
  <2>3. v \in Promise!Vol
    BY DEF Promise!Vol, Vol
  <2> QED
    BY <2>2, <2>3 DEF Promise!Next, Promise!LetGo
<1>3. ASSUME NEW r \in Runner, NEW d \in DryRuns, SelectVolumes(r, d)
      PROVE  UNCHANGED Promise!vars
  BY <1>3, StartEffect DEF storeVars, Used, Promise!vars
<1>4. ASSUME NEW r \in Runner, Run(r) \/ Crash(r), ~ \E d \in DryRuns : SelectVolumes(r, d)
      PROVE  [Promise!Next]_(Promise!vars)
  <2>1. /\ UNCHANGED <<label, job, needs>> /\ Used' = Used
        /\ disk' = disk \/ \E l \in Level : \E v \in Pending(r, l) : disk' = disk \ {v}
    BY <1>0, <1>4, RunEffect
  <2>2. ASSUME NEW l \in Level, NEW v \in Pending(r, l), v \in disk, disk' = disk \ {v}
        PROVE  Promise!Next
    <3>1. v \in Vol /\ v \notin Used
      BY PendingType
    <3>2. Promise!MayGo(v)
      BY PendingMayGo
    <3>3. v \in Promise!Vol
      BY <3>1 DEF Promise!Vol, Vol
    <3>4. Promise!Reclaim(v)
      BY <2>1, <2>2, <3>1, <3>2 DEF Promise!Reclaim
    <3> QED
      BY <3>3, <3>4 DEF Promise!Next
  <2>3. ASSUME disk' = disk PROVE UNCHANGED Promise!vars
    BY <2>1, <2>3 DEF Promise!vars
  <2> QED
    BY <2>1, <2>2, <2>3
<1>5. CASE UNCHANGED vars
  BY <1>5 DEF vars, storeVars, Used, Promise!vars
<1> QED
  BY <1>1, <1>2, <1>3, <1>4, <1>5 DEF Next, Run

\* In an orderly installation the script keeps the promise of Retention: it
\* reclaims a volume only when nothing in the catalog depends on it and enough
\* of its kind are left, whatever it decided on has become of meanwhile.
THEOREM KeepsPromise == ASSUME Orderly PROVE Spec => ImplementsRetention
<1>1. Init => Promise!Init
  BY StoreAssumption DEF StoreAssumption, Init, StoreInit, NoBackup, Used, Vol, Level,
     Promise!Init, Promise!Vol, Promise!Backup
<1>2. TypeOK /\ SnapInv /\ ChainInv /\ OrderInv /\ CountInv /\ [Next]_vars
        => [Promise!Next]_(Promise!vars)
  BY PromiseStep
<1>3. Steady
  BY DEF Orderly
<1> QED
  BY <1>1, <1>2, <1>3, TypeCorrect, SnapInvariant, ChainInvariant, OrderInvariant, CountInvariant, PTL
  DEF Spec, ImplementsRetention, Promise!Spec
=============================================================================
