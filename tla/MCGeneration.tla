---------------------------- MODULE MCGeneration ----------------------------
(* Generation over a grammar of mutually recursive types, under every       *)
(* marking of their variants that calculate_recursion could leave:          *)
(*   enum 1 {X(Option<1>, 2), Y}   struct 2 {f: Vec<1>}   3 = Option<1>     *)
(*   4 = (2, 6)   5 = Vec<1>   6 = an unregistered struct                   *)
EXTENDS Generation, TLC

MCTypes == 1 .. 6
MCKind == <<"enum", "struct", "option", "tuple", "list", "struct">>
MCFields ==
  << 0 :> <<3, 2>> @@ 1 :> << >>,
     0 :> <<5>>,
     0 :> <<1>> @@ 1 :> << >>,
     0 :> <<2, 6>>,
     0 :> <<1>>,
     0 :> << >> >>

MapOf(m) ==
  1 :> [rec |-> m.enum, nonrec |-> {0, 1} \ m.enum] @@
  2 :> [rec |-> m.struct, nonrec |-> {0} \ m.struct] @@
  3 :> [rec |-> {}, nonrec |-> {0, 1}]

MCGenerateMaps == {MapOf(m) : m \in [enum : SUBSET {0, 1}, struct : SUBSET {0}]}
MCRoots == {1, 2, 3, 4, 6}
=============================================================================
