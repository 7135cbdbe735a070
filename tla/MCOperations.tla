---------------------------- MODULE MCOperations ----------------------------
(***************************************************************************)
(* Small instances of JobScripts, AdminTools, ConfigParser, AddClient and  *)
(* CleanupScripts, which share no state: each scene sets one of them to    *)
(* work and leaves the others as they start.                               *)
(***************************************************************************)
EXTENDS JobScripts, AdminTools, ConfigParser, AddClient, CleanupScripts, Functions, TLC

CONSTANTS
  Scenes,  \* The scenes to play.
  s1, s2, s3, c1, r1, v1, v2

VARIABLE scene  \* Never changes.

vars == <<scene, nightVars, toolVars, parserVars, addVars, cleanupVars>>

-----------------------------------------------------------------------------
\* Each job's dumps have a name that no other job's begins with.
OwnGlob == [j \in DumpJob |-> {j}]

\* Bound: two jobs run, of the same kind or of two.
Pairs == {EncJob, DumpJob, {"e1", "d1"}}
InPairs == \E P \in Pairs : \A j \in Job \ P : started[j] = 0

-----------------------------------------------------------------------------
Made(x, s, l, p, d) == [name |-> x, storage |-> s, level |-> l, pool |-> p, day |-> d]

\* Two backups of any job, fulls of the one and incrementals of the other, on any
\* storage.
Kinds == [name : Name, storage : Storage]
Mixed ==
  {[i \in 1..2 |-> IF f[i].name = "a" THEN Made("a", f[i].storage, "F", "f", 10 * i)
                   ELSE Made(f[i].name, f[i].storage, "I", "i", 10 * i)] : f \in [1..2 -> Kinds]}

\* Five fulls of one job at distances below, at and above 24 days; all in one
\* pool, or the second or the last in a pool with another hint.
Elapsed(g, i) == IF i = 1 THEN 0 ELSE FoldFunctionOnSet(+, 0, g, 1..i - 1)
Thinnable ==
  {[i \in 1..5 |-> Made("a", s1, "F", IF i = p THEN "i" ELSE "f", Elapsed(g, i))] :
     g \in [1..4 -> {0, 12, 24, 60}], p \in {0, 2, 5}}

MCHistories == {<<>>} \cup Mixed \cup Thinnable

R(op, set, blank, catalog, default, force, drill) ==
  [operator |-> op, set |-> set, blank |-> blank, catalog |-> catalog,
   default |-> default, force |-> force, dry |-> drill]
OneRule == R("and", {"DEL_JOB_NAMES"}, {}, {}, {}, FALSE, FALSE)
CatalogRule == R("and", {"DEL_JOB_NAMES"}, {}, {s2}, {}, FALSE, FALSE)
AndRules ==
  {OneRule, CatalogRule,
   R("and", {}, {"DEL_NEWER"}, {}, {}, FALSE, FALSE),
   R("and", {"DEL_JOB_NAMES"}, {}, {}, {}, TRUE, FALSE),
   R("and", {"DEL_JOB_NAMES"}, {}, {}, {s3}, FALSE, FALSE),
   R("and", {"DEL_JOB_NAMES", "DEL_STORAGE_NAMES"}, {"DEL_NEWER"}, {}, {}, FALSE, FALSE),
   R("and", {"DEL_STORAGE_NAMES", "DEL_OLDER"}, {}, {}, {}, FALSE, FALSE),
   R("and", {"DEL_NOT_FILESETS", "DEL_NEWER"}, {}, {}, {s1}, FALSE, FALSE),
   R("and", {"DEL_CLIENTS"}, {}, {}, {}, TRUE, TRUE)}
OrRules == {OneRule, R("or", {"DEL_JOB_NAMES"}, {}, {}, {}, FALSE, FALSE)}
CatalogRules == {OneRule, CatalogRule}

JobA == [d \in NameDirective |-> {"a"}]
OnS2 == {s2}
Ages == [d \in {"DEL_NEWER", "DEL_OLDER"} |-> IF d = "DEL_NEWER" THEN {20} ELSE {10}]

-----------------------------------------------------------------------------
L(eq, quotes, comma, device) ==
  [eq |-> eq, quotes |-> quotes, comma |-> comma, device |-> device]
Lines ==
  {L(0, 0, FALSE, FALSE), L(0, 1, FALSE, FALSE), L(0, 2, FALSE, FALSE),
   L(1, 0, FALSE, FALSE), L(1, 1, FALSE, FALSE), L(1, 2, FALSE, FALSE),
   L(1, 4, FALSE, FALSE), L(1, 0, TRUE, FALSE), L(1, 1, TRUE, FALSE),
   L(2, 0, FALSE, FALSE), L(2, 2, FALSE, FALSE), L(1, 2, FALSE, TRUE)}
MCTexts == {<<>>} \cup [1..4 -> Lines]

-----------------------------------------------------------------------------
Init ==
  /\ scene \in Scenes
  /\ IF scene = "tools" THEN hist \in Histories \ {<<>>} ELSE hist = <<>>
  /\ IF scene = "parser" THEN text \in Texts \ {<<>>} ELSE text = <<>>
  /\ rule \in IF scene = "tools" /\ Len(hist) = 2 THEN Rules ELSE {OneRule}
  /\ NightInit /\ ToolsInit /\ ParserInit /\ AddInit /\ CleanupInit

\* A step of one scene.
Night(A) ==
  /\ scene = "night" /\ A
  /\ UNCHANGED <<scene, toolVars, parserVars, addVars, cleanupVars>>
Tools(A) ==
  /\ scene = "tools" /\ A
  /\ UNCHANGED <<scene, nightVars, parserVars, addVars, cleanupVars>>
Parser(A) ==
  /\ scene = "parser" /\ A
  /\ UNCHANGED <<scene, nightVars, toolVars, addVars, cleanupVars>>
Clients(A) ==
  /\ scene = "clients" /\ A
  /\ UNCHANGED <<scene, nightVars, toolVars, parserVars, cleanupVars>>
Cleanup(A) ==
  /\ scene = "cleanup" /\ A
  /\ UNCHANGED <<scene, nightVars, toolVars, parserVars, addVars>>

Next ==
  \/ Night(NightNext /\ InPairs')
  \/ Tools(ToolsNext)
  \/ Parser(ParserNext)
  \/ Clients(AddNext)
  \/ Cleanup(CleanupNext)

\* The liveness properties name the fairness they need: the scripts of a scene
\* that is not played are not started, and nothing is asked of them.
Spec == Init /\ [][Next]_vars
=============================================================================
