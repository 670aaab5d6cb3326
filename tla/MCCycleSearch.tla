--------------------------- MODULE MCCycleSearch ---------------------------
(* Every directed graph over three nodes, self-loops included, and every    *)
(* one over four without self-loops.                                        *)
EXTENDS CycleSearch, SequencesExt

CONSTANT MCNodes

Ascending(S) == SetToSortSeq(S, LAMBDA a, b : a < b)
MCGraph(n, next) ==
  [nodes |-> [i \in 1 .. n |-> i],
   neighbors |-> [u \in 1 .. MCNodes |-> IF u <= n THEN Ascending(next[u]) ELSE << >>]]

MCNode == 1 .. MCNodes
MCSmall == {MCGraph(3, next) : next \in [1 .. 3 -> SUBSET (1 .. 3)]}
MCLarge ==
  {MCGraph(4, next) :
     next \in {f \in [1 .. 4 -> SUBSET (1 .. 4)] : \A u \in 1 .. 4 : u \notin f[u]}}
MCGraphs == MCSmall \cup MCLarge
=============================================================================
