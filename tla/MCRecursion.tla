---------------------------- MODULE MCRecursion ----------------------------
(* Every type graph of a family: types 1 and 2 have one or two variants     *)
(* each, type 3 one, or two with a leaf among them; a variant holds one of  *)
(* the types, both 1 and 2, or the leaf 4.                                  *)
EXTENDS Recursion, TLC

MCIds == 0 .. 4
MCNode == {<<t, v>> : t \in MCIds, v \in -1 .. 1}

MCHeld == {{1}, {2}, {3}, {4}, {1, 2}}
MCOne == [{0} -> MCHeld]
MCAny == MCOne \cup [{0, 1} -> MCHeld]
MCThird == MCOne \cup {f \in [{0, 1} -> MCHeld] : f[1] = {4}}

MCTyMaps ==
  {0 :> (0 :> {1}) @@ 1 :> a @@ 2 :> b @@ 3 :> c : a \in MCAny, b \in MCAny, c \in MCThird}
MCGraphs == {}
=============================================================================
