-------------------------- MODULE MCGrammarVisitor --------------------------
(* The life of a Visitor for a family of small grammars, each of types      *)
(* 3g+3 .. 3g+5 and the shared leaf 1 and unit struct 2:                    *)
(*   enum 3g+3 {X(..), Y(leaf)}, a type 3g+4 of each kind, struct 3g+5.     *)
EXTENDS GrammarVisitor, TLC

CONSTANT Grammars   \* how many of the grammars to check

MCTypes == 1 .. 3 * Grammars + 2
MCPhantom == 3 * Grammars + 3
MCGrammar(t) == (t - 3) \div 3
MCSlot(t) == IF t < 3 THEN t ELSE (t % 3) + 3

(* In a template 3, 4 and 5 stand for the grammar's own three types.        *)
MCEnumFields == << <<4>>, <<3, 5>>, <<4, 5>>, <<5>>, <<4, 3>> >>
MCSecond ==
  << <<"struct", 0 :> <<3>> >>, <<"option", 0 :> <<3>> @@ 1 :> << >> >>,
     <<"list", 0 :> <<5>> >>, <<"tuple", 0 :> <<5, 1>> >>,
     <<"result", 0 :> <<5>> @@ 1 :> <<1>> >>, <<"box", 0 :> <<3>> >>,
     <<"cow", 0 :> <<5>> >> >>
MCStructFields == << <<1>>, <<4>>, <<2>>, <<3, 4>> >>

MCX(t) == MCEnumFields[(MCGrammar(t) % 5) + 1]
MC2(t) == MCSecond[((MCGrammar(t) \div 5) % 7) + 1]
MC3(t) == MCStructFields[((MCGrammar(t) \div 35) % 4) + 1]

MCShift(t, fields) ==
  [i \in 1 .. Len(fields) |->
     IF fields[i] < 3 THEN fields[i] ELSE 3 * MCGrammar(t) + fields[i]]

MCKind == [t \in MCTypes |-> <<"leaf", "struct", "enum", MC2(t)[1], "struct">>[MCSlot(t)]]
MCFields ==
  [t \in MCTypes |->
     CASE MCSlot(t) = 3 -> 0 :> MCShift(t, MCX(t)) @@ 1 :> <<1>>
       [] MCSlot(t) = 4 -> [v \in DOMAIN MC2(t)[2] |-> MCShift(t, MC2(t)[2][v])]
       [] MCSlot(t) = 5 -> 0 :> MCShift(t, MC3(t))
       [] OTHER -> 0 :> << >>]

MCRoots == {t \in MCTypes : MCSlot(t) = 3}
MCNode == {<<t, v>> : t \in MCTypes \cup {0, MCPhantom}, v \in -1 .. 1}
=============================================================================
