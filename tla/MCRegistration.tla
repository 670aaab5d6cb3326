--------------------------- MODULE MCRegistration ---------------------------
(* Registration over many small grammars at once, each with types 5g+1 ..   *)
(* 5g+5: enum 1 {X(a), Y(b)}, a type 2 of each kind over types 1, 3 and 5,   *)
(* struct 3 over some of 1, 2 and 4, a leaf 4, a unit struct 5.              *)
EXTENDS Registration, TLC

CONSTANT Grammars   \* how many of the grammars to check, all of them 1568

MCEnumFields == << << >>, <<1>>, <<2>>, <<3>>, <<1, 2>>, <<2, 3>>, <<5>> >>
MCSecond ==
  << <<"struct", 0 :> <<1, 3>> >>, <<"option", 0 :> <<1>> @@ 1 :> << >> >>,
     <<"list", 0 :> <<1>> >>, <<"list", 0 :> <<3>> >>, <<"box", 0 :> <<3>> >>,
     <<"result", 0 :> <<3>> @@ 1 :> <<1>> >>, <<"tuple", 0 :> <<3, 1, 4>> >>,
     <<"cow", 0 :> <<5>> >> >>
MCStructFields == << <<1>>, <<2, 1>>, <<4, 2>>, << >> >>

MCTypes == 1 .. 5 * Grammars
MCGrammar(t) == (t - 1) \div 5
MCSlot(t) == ((t - 1) % 5) + 1
MCFirst(t) == 5 * MCGrammar(t)

MCX(t) == MCEnumFields[(MCGrammar(t) % 7) + 1]
MCY(t) == MCEnumFields[((MCGrammar(t) \div 7) % 7) + 1]
MC2(t) == MCSecond[((MCGrammar(t) \div 49) % 8) + 1]
MC3(t) == MCStructFields[((MCGrammar(t) \div 392) % 4) + 1]

MCShift(t, fields) == [i \in 1 .. Len(fields) |-> MCFirst(t) + fields[i]]

MCKind == [t \in MCTypes |-> <<"enum", MC2(t)[1], "struct", "leaf", "struct">>[MCSlot(t)]]
MCFields ==
  [t \in MCTypes |->
     CASE MCSlot(t) = 1 -> 0 :> MCShift(t, MCX(t)) @@ 1 :> MCShift(t, MCY(t))
       [] MCSlot(t) = 2 -> [v \in DOMAIN MC2(t)[2] |-> MCShift(t, MC2(t)[2][v])]
       [] MCSlot(t) = 3 -> 0 :> MCShift(t, MC3(t))
       [] OTHER -> 0 :> << >>]

MCRoots == {t \in MCTypes : MCSlot(t) \in {1, 2}}
=============================================================================
