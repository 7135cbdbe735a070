-------------------------- MODULE MCDelPurgedVols --------------------------
(***************************************************************************)
(* Small instances of DelPurgedVols.                                       *)
(***************************************************************************)
EXTENDS DelPurgedVols, TLC

CONSTANTS s1, s2, r1, r2

OneStream == {s1}
TwoStreams == {s1, s2}
OneRunner == {r1}
TwoRunners == {r1, r2}

OwnChain == [s \in Stream |-> s]        \* No two streams share a chain.
SharedChain == [s \in Stream |-> s1]    \* Two job names, one client and fileset.

GoodHints == [l \in Level |-> l]        \* Pools named after their level.

CopiesInStream2 == {s2}

\* Two runs are alike.
RunnerSymmetry == Permutations(Runner)

\* Bound: runs overlap only while at most one backup is not a full one, and
\* that one is not purged.
MostlyFulls ==
  LET others == {v \in Labelled : job[v].level # "F"}
  IN  Cardinality(others) <= 1 /\ others \subseteq Used
OverlapOnFulls == (\A r \in Runner : pc[r] # "idle") => MostlyFulls
=============================================================================
