--------------------------- MODULE MCInputStages ---------------------------
(* One value tree per impl of Node:                                         *)
(*   leaf 1, enum 2 = E {U, L(leaf), R(Box<E>)}, 3 = Box<E>,                *)
(*   4 = Vec<leaf>, 5 = Vec<E>, 6 = Option<E>, 7 = Result<E, E>,            *)
(*   8 = (leaf, E), 9 = BTreeMap<leaf, H>, 10 = struct K {leaf},            *)
(*   11 = BTreeMap<K, E>, 12 = BTreeMap<Z, leaf>, 13 = struct Z {leaf},     *)
(*   14 = enum H {A(Option<Box<H>>)}, 15 = Option<Box<H>>, 16 = Box<H>,     *)
(*   17 = [H; 2], 18 = Vec<Result<leaf, leaf>>, 19 = Result<leaf, leaf>     *)
(* and the fuzzed types, which are structs but for 20 = enum {N, S(E, 7)}.  *)
EXTENDS InputStages, TLC

(* I's impl of Node, through operators that are not themselves recursive    *)
MCMutate(x, m, path) == MutateNode(x, m, path)
MCFieldsOf(x) == WalkFields(x)
MCCmpsOf(x) == WalkCmps(x)

MCStructs ==
  21 :> <<5, 2>> @@ 22 :> <<6, 8>> @@ 23 :> <<7, 1>> @@ 24 :> <<17>> @@ 25 :> <<9>>
  @@ 26 :> <<11>> @@ 27 :> <<12>> @@ 28 :> <<4>> @@ 29 :> <<18>>
MCEnums ==
  2 :> (0 :> << >> @@ 1 :> <<1>> @@ 2 :> <<3>>) @@ 14 :> (0 :> <<15>>)
  @@ 20 :> (0 :> << >> @@ 1 :> <<2, 7>>)
MCCoins ==
  6 :> (0 :> <<2>> @@ 1 :> << >>) @@ 15 :> (0 :> <<16>> @@ 1 :> << >>)
  @@ 7 :> (0 :> <<2>> @@ 1 :> <<2>>) @@ 19 :> (0 :> <<1>> @@ 1 :> <<1>>)
MCLists == 4 :> <<1>> @@ 5 :> <<2>> @@ 17 :> <<14>> @@ 18 :> <<19>>
MCBoxes == 3 :> <<2>> @@ 16 :> <<14>>
MCTuples == 8 :> <<1, 2>>

MCPlain == MCStructs @@ 10 :> <<1>> @@ 13 :> <<1>> @@ MCLists @@ MCBoxes @@ MCTuples
MCTypes == 1 .. 29
MCFields ==
  [t \in MCTypes |->
     IF t \in DOMAIN MCEnums THEN MCEnums[t]
     ELSE IF t \in DOMAIN MCCoins THEN MCCoins[t]
     ELSE IF t \in DOMAIN MCPlain THEN 0 :> MCPlain[t] ELSE 0 :> << >>]
MCKind ==
  [t \in MCTypes |->
     CASE t \in DOMAIN MCEnums -> "enum"
       [] t \in {6, 15} -> "option"
       [] t \in {7, 19} -> "result"
       [] t \in DOMAIN MCLists -> "list"
       [] t \in DOMAIN MCBoxes -> "box"
       [] t \in DOMAIN MCTuples -> "tuple"
       [] t \in DOMAIN MCPlain -> "struct"
       [] OTHER -> "leaf"]
MCEntries == 9 :> <<1, 14>> @@ 11 :> <<10, 2>> @@ 12 :> <<13, 1>>
MCArrayLen == 17 :> 2
MCRecursive == [t \in MCTypes |-> IF t = 2 THEN {2} ELSE IF t = 14 THEN {0} ELSE {}]
MCRegistered == MCTypes \ {13}
MCRoots == {20, 21, 22, 23, 24, 25, 26, 27, 28, 29, 5}

(* Corpora also hold what is not generated at once: longer lists, maps with *)
(* entries, and values below the depth limit.                               *)
MCLeaf == Node(1, 0, << >>)
MCUnit == Node(2, 0, << >>)
MCLess == Node(2, 1, <<MCLeaf>>)
MCRight(x) == Node(2, 2, <<Node(3, 0, <<x>>)>>)
MCEmpty == Node(14, 0, <<Node(15, 1, << >>)>>)
MCMap(t, entries) ==
  Node(t, 0, [i \in 1 .. Len(entries) |-> Node(t, 0, entries[i])])
MCImported ==
  {Node(28, 0, <<Node(4, 0, <<MCLeaf, MCLeaf, MCLeaf, MCLeaf>>)>>),
   Node(21, 0, <<Node(5, 0, <<MCUnit, MCLess, MCUnit, MCUnit>>), MCUnit>>),
   Node(21, 0, <<Node(5, 0, <<MCUnit>>), MCRight(MCRight(MCLess))>>),
   Node(25, 0, <<MCMap(9, <<<<MCLeaf, MCEmpty>>, <<MCLeaf, MCEmpty>>, <<MCLeaf, MCEmpty>>>>)>>),
   Node(26, 0, <<MCMap(11, <<<<Node(10, 0, <<MCLeaf>>), MCLess>>>>)>>)}
=============================================================================
