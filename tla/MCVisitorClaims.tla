--------------------------- MODULE MCVisitorClaims ---------------------------
(* What the documentation promises of a Visitor, for one small grammar:     *)
(*   struct 1 {f: Vec<3>}       struct 3 {f: Vec<1>, g: 5}                  *)
(*   2 = Vec<3>  4 = Vec<1>     struct 5 (no fields), only if WithUnit      *)
EXTENDS GrammarVisitor, TLC

CONSTANT WithUnit   \* whether struct 3 holds the struct without fields

MCTypes == 1 .. 5
MCPhantom == 6
MCKind == <<"struct", "list", "struct", "list", "struct">>
MCFields ==
  << 0 :> <<2>>, 0 :> <<3>>, 0 :> (IF WithUnit THEN <<4, 5>> ELSE <<4>>),
     0 :> <<1>>, 0 :> << >> >>

MCRoots == {1}
MCNode == {<<t, v>> : t \in MCTypes \cup {0, MCPhantom}, v \in -1 .. 0}
=============================================================================
