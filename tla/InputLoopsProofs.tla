-------------------------- MODULE InputLoopsProofs --------------------------
(***************************************************************************)
(* What holds of the loops a stage runs over the scheduled input.           *)
(*                                                                          *)
(* The minimization loops, for values of any type: of the values only       *)
(* FieldsTyped and PopsShorten are used, which say what `impl Node` must    *)
(* do.  Every iterable is still in the list, was tried to its end, or is    *)
(* under the cursor; a success puts all of them back into the list.         *)
(* The bound of the inner loop and the input's list get shorter together.   *)
(*                                                                          *)
(* The byte loop, for inputs and compared bytes of any size.  It ends only  *)
(* when nothing is found from `start` on.  Once it has begun, `start` is at *)
(* least the chunk's width, so a search that finds an occurrence `at` goes  *)
(* on from at - start + width, which is not behind `at`, and what it writes *)
(* ends before `at`.  So one occurrence behind the first keeps the loop     *)
(* running.                                                                 *)
(***************************************************************************)
EXTENDS Mutators, Minimization, CmpBytes, TLAPS

(* What is left of a list of fields when one is taken out, and which one.   *)
LEMMA OneTakenOut ==
  ASSUME NEW S, NEW s \in Seq(S), NEW i \in 1 .. Len(s)
  PROVE  /\ RemoveAt(s, i) \in Seq(S)
         /\ s[i] \in S
         /\ ToSet(s) \subseteq ToSet(RemoveAt(s, i)) \cup {s[i]}
         /\ ToSet(RemoveAt(s, i)) \subseteq ToSet(s)
<1> DEFINE before == SubSeq(s, 1, i - 1)
           after  == SubSeq(s, i + 1, Len(s))
<1>1. /\ before \in Seq(S) /\ Len(before) = i - 1
      /\ \A j \in 1 .. i - 1 : before[j] = s[j]
  OBVIOUS
<1>2. /\ after \in Seq(S) /\ Len(after) = Len(s) - i
      /\ \A j \in 1 .. Len(s) - i : after[j] = s[i + j]
  OBVIOUS
<1>3. RemoveAt(s, i) = before \o after
  BY DEF RemoveAt
<1> HIDE DEF before, after
<1>4. /\ RemoveAt(s, i) \in Seq(S) /\ Len(RemoveAt(s, i)) = Len(s) - 1
      /\ \A j \in 1 .. i - 1 : RemoveAt(s, i)[j] = s[j]
      /\ \A j \in i .. Len(s) - 1 : RemoveAt(s, i)[j] = s[j + 1]
  <2>1. RemoveAt(s, i) \in Seq(S) /\ Len(RemoveAt(s, i)) = Len(s) - 1
    BY <1>1, <1>2, <1>3
  <2>2. ASSUME NEW j \in 1 .. Len(s) - 1
        PROVE  RemoveAt(s, i)[j] = IF j <= i - 1 THEN before[j] ELSE after[j - (i - 1)]
    BY <1>1, <1>2, <1>3
  <2>3. ASSUME NEW j \in 1 .. i - 1 PROVE RemoveAt(s, i)[j] = s[j]
    BY <2>2, <1>1
  <2>4. ASSUME NEW j \in i .. Len(s) - 1 PROVE RemoveAt(s, i)[j] = s[j + 1]
    <3>1. j - (i - 1) \in 1 .. Len(s) - i /\ i + (j - (i - 1)) = j + 1 /\ ~ (j <= i - 1)
      OBVIOUS
    <3> QED  BY <3>1, <2>2, <1>2
  <2> QED  BY <2>1, <2>3, <2>4
<1>5. ASSUME NEW k \in 1 .. Len(s), k # i PROVE s[k] \in ToSet(RemoveAt(s, i))
  <2>1. CASE k < i
    <3>1. k \in DOMAIN RemoveAt(s, i) /\ RemoveAt(s, i)[k] = s[k]
      BY <1>4, <2>1
    <3> QED  BY <3>1 DEF ToSet
  <2>2. CASE k > i
    <3>1. k - 1 \in DOMAIN RemoveAt(s, i) /\ RemoveAt(s, i)[k - 1] = s[k]
      BY <1>4, <2>2
    <3> QED  BY <3>1 DEF ToSet
  <2> QED  BY <1>5, <2>1, <2>2
<1>6. ASSUME NEW j \in 1 .. Len(s) - 1 PROVE RemoveAt(s, i)[j] \in ToSet(s)
  BY <1>4, j < i \/ j >= i, j \in DOMAIN s, j + 1 \in DOMAIN s DEF ToSet
<1>7. DOMAIN RemoveAt(s, i) = 1 .. Len(s) - 1 /\ DOMAIN s = 1 .. Len(s)
  BY <1>4
<1>8. s[i] \in S
  OBVIOUS
<1>9. ToSet(s) \subseteq ToSet(RemoveAt(s, i)) \cup {s[i]}
  BY <1>5, <1>7 DEF ToSet
<1>10. ToSet(RemoveAt(s, i)) \subseteq ToSet(s)
  <2>1. ToSet(RemoveAt(s, i)) = {RemoveAt(s, i)[j] : j \in 1 .. Len(s) - 1}
    BY <1>7 DEF ToSet
  <2> QED  BY <2>1, <1>6
<1> QED  BY <1>4, <1>8, <1>9, <1>10

(* The same for the last element.                                           *)
LEMMA LastTakenOut ==
  ASSUME NEW S, NEW s \in Seq(S), s # << >>
  PROVE  /\ Front(s) \in Seq(S) /\ Last(s) \in S
         /\ ToSet(s) \subseteq ToSet(Front(s)) \cup {Last(s)}
<1>1. Len(s) \in Nat \ {0}
  OBVIOUS
<1>2. /\ Front(s) \in Seq(S) /\ Len(Front(s)) = Len(s) - 1
      /\ \A j \in 1 .. Len(s) - 1 : Front(s)[j] = s[j]
  <2> DEFINE n == Len(s) - 1
  <2>1. n \in Nat /\ n <= Len(s)
    BY <1>1
  <2>2. Front(s) = SubSeq(s, 1, n)
    BY DEF Front
  <2> HIDE DEF n
  <2>3. /\ SubSeq(s, 1, n) \in Seq(S) /\ Len(SubSeq(s, 1, n)) = n
        /\ \A j \in 1 .. n : SubSeq(s, 1, n)[j] = s[j]
    BY <2>1
  <2> QED  BY <2>2, <2>3 DEF n
<1>3. Last(s) = s[Len(s)] /\ Last(s) \in S
  BY <1>1 DEF Last
<1>4. ASSUME NEW k \in 1 .. Len(s) PROVE s[k] \in ToSet(Front(s)) \cup {Last(s)}
  <2>1. CASE k = Len(s)  BY <1>3, <2>1
  <2>2. CASE k < Len(s)
    <3>1. k \in DOMAIN Front(s) /\ Front(s)[k] = s[k]
      BY <1>2, <2>2
    <3> QED  BY <3>1 DEF ToSet
  <2> QED  BY <1>1, <2>1, <2>2
<1> QED  BY <1>2, <1>3, <1>4 DEF ToSet

(* A stack has a last node, and the last node of an iterable a length.      *)
LEMMA StackEnds ==
  ASSUME NEW f \in Stacks
  PROVE  f # << >> /\ Last(f) \in [at : Nat, node : NodeTypes, ty : Types]
                   /\ Last(f).node.len \in Nat
<1>1. /\ f \in Seq([at : Nat, node : NodeTypes, ty : Types]) /\ f # << >>
  BY DEF Stacks
<1>2. Last(f) \in [at : Nat, node : NodeTypes, ty : Types]
  <2> DEFINE Step == [at : Nat, node : NodeTypes, ty : Types]
  <2>1. f \in Seq(Step) /\ f # << >>
    BY <1>1
  <2> HIDE DEF Step
  <2>2. Last(f) \in Step
    BY <2>1, LastTakenOut
  <2> QED  BY <2>2 DEF Step
<1> QED  BY <1>1, <1>2 DEF NodeTypes

----------------------------------------------------------------------------
MinTypeOK ==
  /\ pass \in {"iterables", "recursive"} /\ over \in BOOLEAN /\ found \in BOOLEAN
  /\ skip \in Nat /\ cur_iter \in Nat
  /\ fields \in Seq(Stacks)
  /\ cursor \in [field : Stacks \cup {<< >>}, len : Nat, counter : Nat]

TriedBelow(f, n) == \A i \in 0 .. n - 1 : Tries(f, i) \in refused

UnderTheCursor(f) ==
  /\ f = cursor.field /\ cursor.len = Last(f).node.len - 1
  /\ TriedBelow(f, cursor.counter)

(* An iterable is still to be looked at, was refused every element, or was  *)
(* refused those up to the cursor, which has not been moved by a success.   *)
EveryListAccounted ==
  pass = "iterables" =>
    \A f \in ToSet(FieldsOf(input)) :
      Growable(f) =>
        f \in ToSet(fields) \/ TriedBelow(f, Last(f).node.len - 1) \/ UnderTheCursor(f)

(* Without a success the two counters agree: no recursive node is skipped.  *)
EveryNodeAccounted ==
  pass = "recursive" /\ ~ found =>
    /\ cur_iter = skip
    /\ \A f \in ToSet(FieldsOf(input)) :
         IsRecursive(f) => f \in ToSet(fields) \/ Tries(f, 0) \in refused

OverAtTheEnd == over => fields = << >> /\ ~ Trying

MinInv == MinTypeOK /\ EveryListAccounted /\ EveryNodeAccounted /\ OverAtTheEnd

(* The fields of the scheduled input are all to be looked at.               *)
LEMMA MinInitInv == MinInit /\ FieldsTyped => MinInv
<1> SUFFICES ASSUME MinInit, FieldsTyped PROVE MinInv
  OBVIOUS
<1>1. MinTypeOK
  BY DEF MinInit, FieldsTyped, MinTypeOK, NoList
<1>2. EveryListAccounted /\ EveryNodeAccounted /\ OverAtTheEnd
  BY DEF MinInit, EveryListAccounted, EveryNodeAccounted, OverAtTheEnd
<1> QED  BY <1>1, <1>2 DEF MinInv

(* A panic leaves the stage where it was.                                   *)
LEMMA UnchangedInv ==
  ASSUME MinInv, UNCHANGED <<input, minOnly>>
  PROVE  MinInv'
BY DEF minOnly, MinInv, MinTypeOK, EveryListAccounted, EveryNodeAccounted, OverAtTheEnd,
       UnderTheCursor, TriedBelow, Trying, Tries, PathOf

(* A success: everything is to be looked at again.                          *)
LEMMA AcceptInv ==
  ASSUME MinTypeOK, FieldsTyped', NEW x, Accept(x), ~ over, UNCHANGED <<pass, over>>,
         skip' \in Nat, cur_iter' \in Nat,
         cursor' \in [field : Stacks \cup {<< >>}, len : Nat, counter : Nat]
  PROVE  MinInv'
<1>1. fields' = FieldsOf(input') /\ found' = TRUE
  BY DEF Accept
<1>2. MinTypeOK'
  BY <1>1 DEF MinTypeOK, FieldsTyped
<1> QED  BY <1>1, <1>2 DEF MinInv, EveryListAccounted, EveryNodeAccounted, OverAtTheEnd

(* The list that is popped is the cursor's, or has nothing to be tried.     *)
LEMMA NextListInv ==
  ASSUME MinInv, FieldsTyped, NEW f \in ToSet(fields), NextList(f)
  PROVE  MinInv'
<1>1. PICK i \in 1 .. Len(fields) : f = fields[i] /\ fields' = RemoveAt(fields, i)
  BY DEF NextList, Popped, MinInv, MinTypeOK
<1>2. /\ fields' \in Seq(Stacks) /\ f \in Stacks
      /\ ToSet(fields) \subseteq ToSet(fields') \cup {f}
  BY <1>1, OneTakenOut DEF MinInv, MinTypeOK
<1>3. /\ cursor' = IF Growable(f) /\ Last(f).node.len > 0
                   THEN [field |-> f, len |-> Last(f).node.len - 1, counter |-> 0]
                   ELSE NoList
      /\ UNCHANGED <<input, pass, over, skip, cur_iter, found, refused>>
      /\ pass = "iterables" /\ ~ over /\ ~ Trying
  BY DEF NextList, Going
<1>4. f # << >> /\ Last(f).node.len \in Nat
  BY <1>2, StackEnds
<1>5. MinTypeOK'
  <2>1. cursor' \in [field : Stacks \cup {<< >>}, len : Nat, counter : Nat]
    BY <1>2, <1>3, <1>4 DEF NoList
  <2> QED  BY <2>1, <1>2, <1>3 DEF MinInv, MinTypeOK
<1>6. EveryListAccounted'
  <2> SUFFICES ASSUME NEW g \in ToSet(FieldsOf(input)), Growable(g)
               PROVE  \/ g \in ToSet(fields')
                      \/ \A j \in 0 .. Last(g).node.len - 1 - 1 : Tries(g, j) \in refused
                      \/ /\ g = cursor'.field /\ cursor'.len = Last(g).node.len - 1
                         /\ \A j \in 0 .. cursor'.counter - 1 : Tries(g, j) \in refused
    BY <1>3 DEF EveryListAccounted, UnderTheCursor, TriedBelow, Tries, PathOf
  <2>1. g \in Stacks
    BY DEF FieldsTyped, ToSet
  <2>2. ~ UnderTheCursor(g)
    BY <2>1, <1>3, StackEnds DEF UnderTheCursor, Trying
  <2>3. g \in ToSet(fields) \/ TriedBelow(g, Last(g).node.len - 1)
    BY <2>2, <1>3 DEF MinInv, EveryListAccounted
  <2>4. CASE g = f
    BY <2>4, <1>3, <1>4
  <2> QED  BY <2>3, <2>4, <1>2 DEF TriedBelow
<1> QED
  BY <1>3, <1>5, <1>6 DEF MinInv, EveryNodeAccounted, OverAtTheEnd

(* One element is tried: the cursor has passed it, or there is a success.   *)
LEMMA PopElementInv ==
  ASSUME MinInv, FieldsTyped, FieldsTyped', PopElement
  PROVE  MinInv'
<1>1. PICK r \in Mutate(input, IterablePop(cursor.counter), PathOf(cursor.field)) :
        IF r.out # "ok" THEN Panic(r.out)
        ELSE /\ \/ Accept(r.val) /\ cursor' = Shorter
                \/ Refuse(Tries(cursor.field, cursor.counter)) /\ cursor' = Longer
             /\ UNCHANGED <<serialized, chunks, outcome, pass, over, skip, cur_iter>>
  BY DEF PopElement
<1>2. pass = "iterables" /\ ~ over /\ Trying /\ cursor.len # 0
  BY DEF PopElement, Going, MoreToTry
<1>3. cursor \in [field : Stacks \cup {<< >>}, len : Nat, counter : Nat]
  BY DEF MinInv, MinTypeOK
<1>4. CASE r.out # "ok"
  BY <1>1, <1>4, UnchangedInv DEF Panic, minOnly
<1>5. CASE r.out = "ok" /\ Accept(r.val) /\ cursor' = Shorter
  <2>1. cursor' \in [field : Stacks \cup {<< >>}, len : Nat, counter : Nat]
    <3>1. cursor.len - 1 \in Nat /\ cursor.counter + 1 \in Nat
      BY <1>2, <1>3
    <3> QED  BY <3>1, <1>3, <1>5 DEF Shorter
  <2> QED  BY <2>1, <1>1, <1>2, <1>5, AcceptInv DEF MinInv, MinTypeOK
<1>6. CASE r.out = "ok" /\ Refuse(Tries(cursor.field, cursor.counter)) /\ cursor' = Longer
  <2>1. /\ UNCHANGED <<input, pass, over, skip, cur_iter, fields, found>>
        /\ refused' = refused \cup {Tries(cursor.field, cursor.counter)}
        /\ cursor'.field = cursor.field /\ cursor'.len = cursor.len
        /\ cursor'.counter = cursor.counter + 1
        /\ cursor' \in [field : Stacks \cup {<< >>}, len : Nat, counter : Nat]
    BY <1>1, <1>3, <1>6 DEF Refuse, Longer
  <2>2. MinTypeOK'
    BY <2>1 DEF MinInv, MinTypeOK
  <2>3. EveryListAccounted'
    <3> SUFFICES ASSUME NEW g \in ToSet(FieldsOf(input)), Growable(g)
                 PROVE  \/ g \in ToSet(fields')
                        \/ \A j \in 0 .. Last(g).node.len - 1 - 1 : Tries(g, j) \in refused'
                        \/ /\ g = cursor'.field /\ cursor'.len = Last(g).node.len - 1
                           /\ \A j \in 0 .. cursor'.counter - 1 : Tries(g, j) \in refused'
      <4>1. UNCHANGED <<input, pass>>
        BY <2>1
      <4> QED  BY <4>1 DEF EveryListAccounted, UnderTheCursor, TriedBelow, Tries, PathOf
    <3>1. g \in ToSet(fields) \/ TriedBelow(g, Last(g).node.len - 1) \/ UnderTheCursor(g)
      BY <1>2 DEF MinInv, EveryListAccounted
    <3>2. CASE TriedBelow(g, Last(g).node.len - 1)
      BY <3>2, <2>1 DEF TriedBelow
    <3>3. CASE UnderTheCursor(g)
      <4>1. ASSUME NEW j \in 0 .. cursor'.counter - 1 PROVE Tries(g, j) \in refused'
        <5>1. cursor.counter \in Nat /\ cursor'.counter = cursor.counter + 1
          BY <1>3, <2>1
        <5>2. j \in 0 .. cursor.counter - 1 \/ j = cursor.counter
          BY <5>1
        <5> QED  BY <5>2, <3>3, <2>1 DEF UnderTheCursor, TriedBelow
      <4>2. \A j \in 0 .. cursor'.counter - 1 : Tries(g, j) \in refused'
        BY <4>1
      <4>3. g = cursor'.field /\ cursor'.len = Last(g).node.len - 1
        BY <2>1, <3>3 DEF UnderTheCursor
      <4> QED  BY <4>2, <4>3
    <3> QED  BY <2>1, <3>1, <3>2, <3>3
  <2> QED
    BY <1>2, <2>1, <2>2, <2>3 DEF MinInv, EveryNodeAccounted, OverAtTheEnd
<1> QED  BY <1>1, <1>4, <1>5, <1>6

(* The cursor has passed every element that was to be tried.                *)
LEMMA LeaveListInv ==
  ASSUME MinInv, FieldsTyped, LeaveList
  PROVE  MinInv'
<1>1. /\ UNCHANGED <<input, pass, over, fields, skip, cur_iter, found, refused>>
      /\ pass = "iterables" /\ ~ over /\ cursor' = NoList
      /\ cursor.len = 0 \/ ~ (cursor.counter < cursor.len)
  BY DEF LeaveList, Going, MoreToTry
<1>2. MinTypeOK'
  BY <1>1 DEF MinInv, MinTypeOK, NoList
<1>3. EveryListAccounted'
  <2> SUFFICES ASSUME NEW g \in ToSet(FieldsOf(input)), Growable(g)
               PROVE  \/ g \in ToSet(fields)
                      \/ \A j \in 0 .. Last(g).node.len - 1 - 1 : Tries(g, j) \in refused
    BY <1>1 DEF EveryListAccounted, UnderTheCursor, TriedBelow, Tries, PathOf
  <2>1. g \in ToSet(fields) \/ TriedBelow(g, Last(g).node.len - 1) \/ UnderTheCursor(g)
    BY <1>1 DEF MinInv, EveryListAccounted
  <2>2. CASE UnderTheCursor(g)
    <3>1. /\ cursor.len = Last(g).node.len - 1
          /\ \A j \in 0 .. cursor.counter - 1 : Tries(g, j) \in refused
      BY <2>2 DEF UnderTheCursor, TriedBelow
    <3>2. cursor.len \in Nat /\ cursor.counter \in Nat
      BY DEF MinInv, MinTypeOK
    <3>3. 0 .. cursor.len - 1 \subseteq 0 .. cursor.counter - 1
      BY <1>1, <3>2
    <3> QED  BY <3>1, <3>3
  <2> QED  BY <2>1, <2>2 DEF TriedBelow
<1> QED
  BY <1>1, <1>2, <1>3 DEF MinInv, EveryNodeAccounted, OverAtTheEnd

(* Without a success only nodes that are not recursive are passed over.     *)
LEMMA PassOverInv ==
  ASSUME MinInv, FieldsTyped, PassOver
  PROVE  MinInv'
<1>1. /\ UNCHANGED <<input, pass, over, cursor, skip, found, refused>>
      /\ pass = "recursive" /\ ~ over /\ fields # << >>
      /\ fields' = Front(fields)
      /\ ~ IsRecursive(Last(fields)) \/ cur_iter < skip
      /\ cur_iter' = IF IsRecursive(Last(fields)) THEN cur_iter + 1 ELSE cur_iter
  BY DEF PassOver, Going
<1>2. /\ fields' \in Seq(Stacks)
      /\ ToSet(fields) \subseteq ToSet(fields') \cup {Last(fields)}
  BY <1>1, LastTakenOut DEF MinInv, MinTypeOK
<1>3. MinTypeOK'
  BY <1>1, <1>2 DEF MinInv, MinTypeOK
<1>4. EveryNodeAccounted'
  <2> SUFFICES ASSUME ~ found
               PROVE  /\ cur_iter' = skip
                      /\ \A f \in ToSet(FieldsOf(input)) :
                           IsRecursive(f) => f \in ToSet(fields') \/ Tries(f, 0) \in refused
    BY <1>1 DEF EveryNodeAccounted, Tries, PathOf
  <2>1. /\ cur_iter = skip
        /\ \A f \in ToSet(FieldsOf(input)) :
             IsRecursive(f) => f \in ToSet(fields) \/ Tries(f, 0) \in refused
    BY <1>1 DEF MinInv, EveryNodeAccounted
  <2>2. ~ IsRecursive(Last(fields))
    BY <1>1, <2>1 DEF MinInv, MinTypeOK
  <2> QED  BY <1>1, <1>2, <2>1, <2>2
<1> QED
  BY <1>1, <1>3, <1>4 DEF MinInv, EveryListAccounted, OverAtTheEnd

(* A failure moves both counters by one.                                    *)
LEMMA ReplaceRecursiveInv ==
  ASSUME MinInv, FieldsTyped, FieldsTyped', ReplaceRecursive
  PROVE  MinInv'
<1>1. PICK r \in Mutate(input, RecursiveReplace, PathOf(Last(fields))) :
        IF r.out # "ok" THEN Panic(r.out)
        ELSE /\ Evaluated(r.pending)
             /\ \/ Accept(r.val) /\ CountIteration(TRUE) /\ UNCHANGED skip
                \/ /\ refused' = refused \cup {Tries(Last(fields), 0)}
                   /\ fields' = Front(fields)
                   /\ skip' = skip + 1 /\ CountIteration(FALSE)
                   /\ UNCHANGED <<input, shuffled, found>>
             /\ UNCHANGED <<outcome, pass, over, cursor>>
  BY DEF ReplaceRecursive
<1>2. pass = "recursive" /\ ~ over /\ fields # << >> /\ MinTypeOK
  BY DEF ReplaceRecursive, Going, MinInv
<1>3. CASE r.out # "ok"
  BY <1>1, <1>3, UnchangedInv DEF Panic, minOnly
<1>4. CASE r.out = "ok" /\ Accept(r.val) /\ CountIteration(TRUE) /\ UNCHANGED skip
  <2>1. cur_iter' \in Nat /\ skip' \in Nat /\ UNCHANGED <<pass, over, cursor>>
    BY <1>1, <1>2, <1>4 DEF CountIteration, MinTypeOK
  <2>2. cursor' \in [field : Stacks \cup {<< >>}, len : Nat, counter : Nat]
    BY <1>2, <2>1 DEF MinTypeOK
  <2> QED  BY <1>2, <1>4, <2>1, <2>2, AcceptInv
<1>5. CASE /\ r.out = "ok"
           /\ refused' = refused \cup {Tries(Last(fields), 0)}
           /\ fields' = Front(fields)
           /\ skip' = skip + 1 /\ CountIteration(FALSE)
           /\ UNCHANGED <<input, shuffled, found>>
  <2>1. /\ UNCHANGED <<pass, over, cursor>>
        /\ cur_iter' = cur_iter + 1
    BY <1>1, <1>5 DEF CountIteration
  <2>2. /\ fields' \in Seq(Stacks)
        /\ ToSet(fields) \subseteq ToSet(fields') \cup {Last(fields)}
    BY <1>2, <1>5, LastTakenOut DEF MinTypeOK
  <2>3. MinTypeOK'
    BY <1>2, <1>5, <2>1, <2>2 DEF MinTypeOK
  <2>4. EveryNodeAccounted'
    <3> SUFFICES ASSUME ~ found
                 PROVE  /\ cur_iter' = skip'
                        /\ \A f \in ToSet(FieldsOf(input)) :
                             IsRecursive(f) => f \in ToSet(fields') \/ Tries(f, 0) \in refused'
      BY <1>5 DEF EveryNodeAccounted, Tries, PathOf
    <3>1. /\ cur_iter = skip
          /\ \A f \in ToSet(FieldsOf(input)) :
               IsRecursive(f) => f \in ToSet(fields) \/ Tries(f, 0) \in refused
      BY <1>2 DEF MinInv, EveryNodeAccounted
    <3> QED  BY <1>5, <2>1, <2>2, <3>1
  <2> QED
    BY <1>2, <2>1, <2>3, <2>4 DEF MinInv, EveryListAccounted, OverAtTheEnd
<1> QED  BY <1>1, <1>3, <1>4, <1>5

LEMMA FinishPassInv ==
  ASSUME MinInv, FinishPass
  PROVE  MinInv'
<1>1. /\ UNCHANGED <<input, pass, fields, cursor, skip, cur_iter, found, refused>>
      /\ over' = TRUE /\ fields = << >> /\ ~ Trying
  BY DEF FinishPass
<1> QED
  BY <1>1 DEF MinInv, MinTypeOK, EveryListAccounted, EveryNodeAccounted, OverAtTheEnd,
              UnderTheCursor, TriedBelow, Trying, Tries, PathOf

LEMMA MinNextInv ==
  ASSUME MinInv, FieldsTyped, FieldsTyped', [MinNext]_minVars
  PROVE  MinInv'
<1>1. CASE UNCHANGED minVars
  BY <1>1, UnchangedInv DEF minVars, inputOnly
<1> QED
  BY <1>1, NextListInv, PopElementInv, LeaveListInv, PassOverInv, ReplaceRecursiveInv,
     FinishPassInv DEF MinNext

LEMMA MinInvHolds == MinSpec /\ []FieldsTyped => []MinInv
<1>1. MinInv /\ FieldsTyped /\ FieldsTyped' /\ [MinNext]_minVars => MinInv'
  BY MinNextInv
<1> QED  BY MinInitInv, <1>1, PTL DEF MinSpec

(* When MinimizationStage is through, every element but the last of every   *)
(* iterable of the input it keeps has been tried in that very input and was *)
(* refused, although `counter` moves on after a success and the fields are  *)
(* collected again in the middle of the loop.                               *)
THEOREM EndsLocallyMinimal == MinSpec /\ []FieldsTyped => []LocallyMinimal
<1>1. MinInv /\ FieldsTyped => LocallyMinimal
  <2> SUFFICES ASSUME MinInv, FieldsTyped, pass = "iterables", over,
                      NEW f \in ToSet(FieldsOf(input)), Growable(f)
               PROVE  \A i \in 0 .. Last(f).node.len - 2 : Tries(f, i) \in refused
    BY DEF LocallyMinimal
  <2>1. f # << >> /\ Last(f).node.len \in Nat
    <3>1. f \in Stacks
      BY DEF FieldsTyped, ToSet
    <3> QED  BY <3>1, StackEnds
  <2>2. fields = << >> /\ ~ Trying
    BY DEF MinInv, OverAtTheEnd
  <2>3. f \notin ToSet(fields) /\ ~ UnderTheCursor(f)
    BY <2>1, <2>2 DEF ToSet, UnderTheCursor, Trying
  <2>4. TriedBelow(f, Last(f).node.len - 1)
    BY <2>3 DEF MinInv, EveryListAccounted
  <2>5. 0 .. Last(f).node.len - 2 = 0 .. Last(f).node.len - 1 - 1
    BY <2>1
  <2> QED  BY <2>4, <2>5 DEF TriedBelow
<1> QED  BY <1>1, MinInvHolds, PTL

(* When RecursiveMinimizationStage is through without a success, it has     *)
(* tried every recursive node: `cur_iter < skip` passes over none of them.  *)
THEOREM NoRecursiveNodeSkipped == MinSpec /\ []FieldsTyped => []RecursiveTriesAll
<1>1. MinInv => RecursiveTriesAll
  BY DEF MinInv, EveryNodeAccounted, OverAtTheEnd, RecursiveTriesAll, ToSet
<1> QED  BY <1>1, MinInvHolds, PTL

----------------------------------------------------------------------------
(* The element to be popped is one of the input's: as often as one was      *)
(* dropped, the input's list and the loop's bound became shorter together.  *)
OfTheInput(f, n) == \E g \in ToSet(FieldsOf(input)) : Resized(f, g, n)

PopInv ==
  /\ MinTypeOK
  /\ pass = "iterables" /\ outcome = "ok" =>
       /\ ToSet(fields) \subseteq ToSet(FieldsOf(input))
       /\ Trying => Growable(cursor.field)
       /\ Trying /\ ~ Crooked(cursor.field) => OfTheInput(cursor.field, cursor.len + 1)
  /\ PopsInRange

(* A field that was only resized has the path, the ancestors and the type   *)
(* it had.                                                                  *)
LEMMA ResizedIsLike ==
  ASSUME NEW f \in Stacks, NEW g \in Stacks, NEW n, Resized(f, g, n)
  PROVE  /\ PathOf(g) = PathOf(f)
         /\ Crooked(g) <=> Crooked(f)
         /\ Straight(g) <=> Straight(f)
         /\ IsIterable(g) <=> IsIterable(f)
         /\ Growable(g) <=> Growable(f)
         /\ Last(g).node.len = n
         /\ Last(g).node.elem = Last(f).node.elem /\ Last(g).node.fixed = Last(f).node.fixed
         /\ \A h, m : Resized(g, h, m) => Resized(f, h, m)
<1>1. /\ Len(g) = Len(f)
      /\ \A i \in 1 .. Len(f) : g[i].at = f[i].at /\ g[i].ty = f[i].ty
      /\ Last(g).node = [Last(f).node EXCEPT !.len = n]
  BY DEF Resized
<1>2. PathOf(g) = PathOf(f)
  BY <1>1 DEF PathOf
<1>3. Len(f) \in Nat /\ Len(f) # 0 /\ Last(f).node \in NodeTypes
  <2>1. Last(f).node \in NodeTypes
    BY StackEnds
  <2> QED  BY <2>1 DEF Stacks
<1>4. Crooked(g) <=> Crooked(f)
  <2>1. \A i \in 1 .. Len(f) - 1 : g[i].ty = f[i].ty
    BY <1>1, <1>3
  <2> QED  BY <1>1, <2>1 DEF Crooked
<1>5. Last(g).ty = Last(f).ty
  BY <1>1, <1>3 DEF Last
<1>6. /\ Last(g).node.node = Last(f).node.node /\ Last(g).node.fixed = Last(f).node.fixed
      /\ Last(g).node.elem = Last(f).node.elem /\ Last(g).node.len = n
  BY <1>1, <1>3 DEF NodeTypes
<1>7. ASSUME NEW h, NEW m, Resized(g, h, m) PROVE Resized(f, h, m)
  <2>1. [[Last(f).node EXCEPT !.len = n] EXCEPT !.len = m] = [Last(f).node EXCEPT !.len = m]
    BY <1>3 DEF NodeTypes
  <2> QED  BY <1>1, <1>7, <2>1 DEF Resized
<1>8. Straight(g) <=> Straight(f)
  BY <1>4, <1>5 DEF Straight
<1> QED  BY <1>2, <1>4, <1>6, <1>7, <1>8 DEF Growable, IsIterable

(* A field is itself, resized to the length it has.                         *)
LEMMA ResizedToItself ==
  ASSUME NEW f \in Stacks
  PROVE  Resized(f, f, Last(f).node.len)
<1>1. Last(f).node \in NodeTypes
  BY StackEnds
<1>2. [Last(f).node EXCEPT !.len = Last(f).node.len] = Last(f).node
  BY <1>1 DEF NodeTypes
<1> QED  BY <1>2 DEF Resized

(* The element tried is one of the list PopInv finds in the input.          *)
LEMMA PopElementInRange ==
  ASSUME PopInv, FieldsTyped, FieldsTyped', MinTypeOK', PopsShorten, PopElement
  PROVE  PopInv'
<1>1. PICK r \in Mutate(input, IterablePop(cursor.counter), PathOf(cursor.field)) :
        IF r.out # "ok" THEN Panic(r.out)
        ELSE /\ \/ Accept(r.val) /\ cursor' = Shorter
                \/ Refuse(Tries(cursor.field, cursor.counter)) /\ cursor' = Longer
             /\ UNCHANGED <<serialized, chunks, outcome, pass, over, skip, cur_iter>>
  BY DEF PopElement
<1>2. /\ pass = "iterables" /\ outcome = "ok" /\ Trying /\ cursor.counter < cursor.len
      /\ cursor.field \in Stacks /\ cursor.len \in Nat /\ cursor.counter \in Nat
      /\ cursor \in [field : Stacks \cup {<< >>}, len : Nat, counter : Nat]
  BY DEF PopElement, Going, MoreToTry, Trying, PopInv, MinTypeOK
<1>3. ASSUME ~ Crooked(cursor.field)
      PROVE  /\ r.out = "ok"
             /\ \E g \in ToSet(FieldsOf(r.val)) : Resized(cursor.field, g, cursor.len)
  <2>1. PICK f \in ToSet(FieldsOf(input)) : Resized(cursor.field, f, cursor.len + 1)
    BY <1>2, <1>3 DEF PopInv, OfTheInput
  <2>2. f \in Stacks
    BY DEF FieldsTyped, ToSet
  <2>3. /\ PathOf(f) = PathOf(cursor.field)
        /\ Crooked(f) <=> Crooked(cursor.field)
        /\ Growable(f) /\ Last(f).node.len = cursor.len + 1
        /\ \A h, m : Resized(f, h, m) => Resized(cursor.field, h, m)
    <3>1. Growable(cursor.field)
      BY <1>2 DEF PopInv
    <3> QED  BY <1>2, <2>1, <2>2, <3>1, ResizedIsLike
  <2>4. cursor.counter \in 0 .. Last(f).node.len - 1 /\ Last(f).node.len - 1 = cursor.len
    BY <1>2, <2>3
  <2>5. r.out = "ok" /\ \E g \in ToSet(FieldsOf(r.val)) : Resized(f, g, Last(f).node.len - 1)
    BY <1>3, <2>3, <2>4 DEF PopsShorten
  <2> QED  BY <2>3, <2>4, <2>5
<1>4. CASE r.out # "ok"
  <2>1. /\ outcome' # "ok" /\ UNCHANGED <<input, pass, cursor>>
        /\ Crooked(cursor.field)
    BY <1>1, <1>3, <1>4 DEF Panic, minOnly
  <2> QED  BY <2>1 DEF PopInv, PopsInRange
<1>5. CASE r.out = "ok" /\ Accept(r.val) /\ cursor' = Shorter
  <2>1. /\ input' = r.val /\ fields' = FieldsOf(input') /\ UNCHANGED <<pass, outcome>>
        /\ cursor'.field = cursor.field /\ cursor'.len + 1 = cursor.len
    BY <1>1, <1>2, <1>5 DEF Accept, Shorter
  <2>2. ~ Crooked(cursor.field) =>
          \E g \in ToSet(FieldsOf(input')) : Resized(cursor'.field, g, cursor'.len + 1)
    BY <1>3, <2>1
  <2>3. /\ Crooked(cursor.field)' <=> Crooked(cursor.field)
        /\ Growable(cursor.field)' <=> Growable(cursor.field)
    BY <2>1 DEF Crooked, Growable, IsIterable
  <2> QED  BY <1>2, <2>1, <2>2, <2>3 DEF PopInv, PopsInRange, OfTheInput
<1>6. CASE r.out = "ok" /\ Refuse(Tries(cursor.field, cursor.counter)) /\ cursor' = Longer
  <2>1. /\ UNCHANGED <<input, fields, pass, outcome>>
        /\ cursor'.field = cursor.field /\ cursor'.len = cursor.len
    BY <1>1, <1>2, <1>6 DEF Refuse, Longer
  <2> QED  BY <1>2, <2>1 DEF PopInv, PopsInRange, OfTheInput, Trying
<1> QED  BY <1>1, <1>4, <1>5, <1>6

(* The list that is popped is one of the input's, of the length it had.     *)
LEMMA NextListInRange ==
  ASSUME PopInv, FieldsTyped, MinTypeOK', NEW f \in ToSet(fields), NextList(f)
  PROVE  PopInv'
<1>1. PICK i \in 1 .. Len(fields) : f = fields[i] /\ fields' = RemoveAt(fields, i)
  BY DEF NextList, Popped, PopInv, MinTypeOK
<1>2. f \in Stacks /\ ToSet(fields') \subseteq ToSet(fields)
  BY <1>1, OneTakenOut DEF PopInv, MinTypeOK
<1>3. /\ cursor' = IF Growable(f) /\ Last(f).node.len > 0
                   THEN [field |-> f, len |-> Last(f).node.len - 1, counter |-> 0]
                   ELSE NoList
      /\ UNCHANGED <<input, pass, outcome>>
      /\ pass = "iterables" /\ outcome = "ok"
  BY DEF NextList, Going
<1>4. Last(f).node.len \in Nat
  BY <1>2, StackEnds
<1>5. Trying' => \E g \in ToSet(FieldsOf(input)) : Resized(cursor'.field, g, cursor'.len + 1)
  <2> SUFFICES ASSUME Trying'
               PROVE  \E g \in ToSet(FieldsOf(input)) : Resized(cursor'.field, g, cursor'.len + 1)
    OBVIOUS
  <2>1. Growable(f) /\ cursor'.field = f /\ cursor'.len = Last(f).node.len - 1
    BY <1>3 DEF Trying, NoList
  <2>2. f \in ToSet(FieldsOf(input))
    BY <1>3 DEF PopInv
  <2>3. Resized(f, f, Last(f).node.len)
    BY <1>2, ResizedToItself
  <2>4. cursor'.len + 1 = Last(f).node.len
    BY <1>4, <2>1
  <2> QED  BY <2>1, <2>2, <2>3, <2>4
<1>6. Trying' => Growable(cursor'.field)
  BY <1>3 DEF Trying, NoList
<1>7. Growable(cursor.field)' <=> Growable(cursor'.field)
  BY DEF Growable, IsIterable
<1> QED
  BY <1>2, <1>3, <1>5, <1>6, <1>7 DEF PopInv, PopsInRange, OfTheInput

(* The other steps pop no element of an iterable.                           *)
LEMMA OthersInRange ==
  ASSUME PopInv, MinTypeOK',
         LeaveList \/ PassOver \/ ReplaceRecursive \/ FinishPass \/ UNCHANGED minVars
  PROVE  PopInv'
<1>1. CASE LeaveList
  BY <1>1 DEF LeaveList, Going, PopInv, PopsInRange, Trying, NoList
<1>2. CASE PassOver \/ ReplaceRecursive
  <2>1. pass = "recursive"
    BY <1>2 DEF PassOver, ReplaceRecursive, Going
  <2>2. pass' = pass
    BY <1>2 DEF PassOver, ReplaceRecursive, Panic, minOnly
  <2> QED  BY <2>1, <2>2 DEF PopInv, PopsInRange
<1>3. CASE FinishPass
  BY <1>3 DEF FinishPass, Going, PopInv, PopsInRange, Trying
<1>4. CASE UNCHANGED minVars
  BY <1>4 DEF minVars, inputOnly, minOnly, PopInv, PopsInRange, Trying, OfTheInput
<1> QED  BY <1>1, <1>2, <1>3, <1>4

(* However often an element was dropped, the next index popped is one of    *)
(* the list: minimizing iterables panics only below a Result or a map, if   *)
(* a pop does to the fields what PopsShorten says.                          *)
THEOREM NoPopPastTheEnd == MinSpec /\ []FieldsTyped /\ []PopsShorten => []PopsInRange
<1>1. MinInit /\ FieldsTyped => PopInv
  <2> SUFFICES ASSUME MinInit, FieldsTyped PROVE PopInv
    OBVIOUS
  <2>1. MinTypeOK
    BY MinInitInv DEF MinInv
  <2> QED  BY <2>1 DEF MinInit, PopInv, PopsInRange, Trying, NoList
<1>2. PopInv /\ MinTypeOK' /\ FieldsTyped /\ FieldsTyped' /\ PopsShorten /\ [MinNext]_minVars
        => PopInv'
  BY PopElementInRange, NextListInRange, OthersInRange DEF MinNext
<1>3. MinInv => MinTypeOK
  BY DEF MinInv
<1>4. PopInv => PopsInRange
  BY DEF PopInv
<1> QED  BY <1>1, <1>2, <1>3, <1>4, MinInvHolds, PTL DEF MinSpec

----------------------------------------------------------------------------
(* The mutators, for values of any type.  The calls a mutator has left were *)
(* made up from the field it drew; FieldsLead says what a call does to the  *)
(* fields of the input as it is when the call is made.  The two meet in a   *)
(* field of that input which is the drawn one, resized.                     *)
ListIn(x, f, n) == \E g \in ToSet(FieldsOf(x)) : Resized(f, g, n)

(* The list that was drawn is still there, as long as it was.               *)
ListKept(x, f) ==
  f \in Stacks /\ (IsIterable(f) /\ Straight(f) => ListIn(x, f, Last(f).node.len))

PopCalls(f) == {Here(f, IterablePop(i)) : i \in 0 .. Last(f).node.len - 1}

(* What can be left to be done to a straight field: one call that replaces  *)
(* it or pops from it, or calls that keep the list, at its length or not.   *)
FitsField(x, name, f, calls) ==
  \/ /\ Len(calls) = 1 /\ f \in ToSet(FieldsOf(x))
     /\ \/ name \in {"random", "splice"} /\ ~ IsIterable(f) /\ calls[1] \in ReplaceCalls(f)
        \/ name = "pop" /\ Growable(f) /\ calls[1] \in PopCalls(f)
  \/ /\ name \in {"random", "splice"} /\ IsIterable(f)
     /\ \A j \in 1 .. Len(calls) : calls[j] \in ElementCalls(f) \cup {FullCall(f)}
  \/ /\ name = "append" /\ Growable(f)
     /\ \E g \in ToSet(FieldsOf(x)) : Resized(f, g, Last(g).node.len)
     /\ \A j \in 1 .. Len(calls) : calls[j] \in AppendCalls(f)

FitsLeaves(x, calls) ==
  \A j \in 1 .. Len(calls) :
    /\ calls[j] = CmpCall(calls[j].below)
    /\ Crooked(calls[j].below) \/ calls[j].below \in CmpLeaves(x)

Fits(x, name, f, calls) ==
  \/ name = "cmplog" /\ FitsLeaves(x, calls)
  \/ /\ name # "cmplog" /\ f \in Stacks
     /\ \A j \in 1 .. Len(calls) : calls[j].below = f
     /\ Straight(f) => FitsField(x, name, f, calls)

MutInv ==
  /\ todo \in Seq(ToSet(todo))
  /\ outcome = "ok" /\ mutator = "none" => todo = << >>
  /\ outcome = "ok" /\ todo # << >> => Fits(input, mutator, field, todo)
  /\ outcome = "ok" /\ mutator \in {"random", "splice"} => ListKept(input, field)
  /\ PanicsAreKnown

(* A sequence is one over its own elements, and so is what is left of it.   *)
LEMMA OverItsElements ==
  ASSUME NEW S, NEW s \in Seq(S)
  PROVE  s \in Seq(ToSet(s))
<1>1. Len(s) \in Nat /\ DOMAIN s = 1 .. Len(s) /\ s = [j \in 1 .. Len(s) |-> s[j]]
  OBVIOUS
<1>2. \A j \in 1 .. Len(s) : s[j] \in ToSet(s)
  BY <1>1 DEF ToSet
<1> QED  BY <1>1, <1>2

LEMMA RestOfTheCalls ==
  ASSUME NEW S, NEW s \in Seq(S), s # << >>
  PROVE  /\ Len(s) \in Nat /\ 1 \in 1 .. Len(s)
         /\ Head(s) = s[1]
         /\ Tail(s) \in Seq(S) /\ Len(Tail(s)) = Len(s) - 1
         /\ \A j \in 1 .. Len(Tail(s)) : j + 1 \in 1 .. Len(s) /\ Tail(s)[j] = s[j + 1]
<1>1. Len(s) \in Nat /\ Len(s) # 0
  OBVIOUS
<1>2. Tail(s) \in Seq(S) /\ Len(Tail(s)) = Len(s) - 1
  BY <1>1
<1>3. ASSUME NEW j \in 1 .. Len(Tail(s))
      PROVE  j + 1 \in 1 .. Len(s) /\ Tail(s)[j] = s[j + 1]
  BY <1>1, <1>2
<1> QED  BY <1>1, <1>2, <1>3

LEMMA EmptyByLength ==
  ASSUME NEW S, NEW s \in Seq(S), Len(s) = 0
  PROVE  s = << >>
OBVIOUS

(* What fits and is not the only call left still fits without its head,     *)
(* where the input has changed as the calls say.                            *)
LEMMA FitsRest ==
  ASSUME NEW x, NEW y, NEW name, NEW f, NEW S, NEW calls \in Seq(S), calls # << >>,
         FitsField(x, name, f, calls),
         Growable(f) /\ name = "append"
           => \E g \in ToSet(FieldsOf(y)) : Resized(f, g, Last(g).node.len)
  PROVE  Tail(calls) = << >> \/ FitsField(y, name, f, Tail(calls))
<1>1. /\ Len(calls) \in Nat
      /\ Tail(calls) \in Seq(S) /\ Len(Tail(calls)) = Len(calls) - 1
      /\ \A j \in 1 .. Len(Tail(calls)) : j + 1 \in 1 .. Len(calls) /\ Tail(calls)[j] = calls[j + 1]
  BY RestOfTheCalls
<1>2. CASE Len(calls) = 1
  <2>1. Len(Tail(calls)) = 0
    BY <1>1, <1>2
  <2> QED  BY <1>1, <2>1, EmptyByLength
<1>3. CASE /\ name \in {"random", "splice"} /\ IsIterable(f)
           /\ \A j \in 1 .. Len(calls) : calls[j] \in ElementCalls(f) \cup {FullCall(f)}
  <2>1. \A j \in 1 .. Len(Tail(calls)) : Tail(calls)[j] \in ElementCalls(f) \cup {FullCall(f)}
    BY <1>1, <1>3
  <2> QED  BY <1>3, <2>1 DEF FitsField
<1>4. CASE /\ name = "append" /\ Growable(f)
           /\ \A j \in 1 .. Len(calls) : calls[j] \in AppendCalls(f)
  <2>1. \A j \in 1 .. Len(Tail(calls)) : Tail(calls)[j] \in AppendCalls(f)
    BY <1>1, <1>4
  <2> QED  BY <1>4, <2>1 DEF FitsField
<1> QED  BY <1>2, <1>3, <1>4 DEF FitsField

(* Initially no mutator runs.                                               *)
LEMMA MutInitInv == MutInit => MutInv
<1> SUFFICES ASSUME MutInit PROVE MutInv
  OBVIOUS
<1>1. todo = << >> /\ mutator = "none" /\ outcome = "ok"
  BY DEF MutInit
<1>2. todo \in Seq(ToSet(todo))
  BY <1>1
<1> QED  BY <1>1, <1>2 DEF MutInv, PanicsAreKnown

(* A mutator that starts leaves calls that fit the field it drew.           *)
LEMMA DrawInv ==
  ASSUME MutInv, Ready, NEW name \in {"random", "splice", "append", "pop", "cmplog"},
         NEW f, NEW S, NEW calls \in Seq(S), Run(name, f, calls),
         Fits(input, name, f, calls),
         name \in {"random", "splice"} => ListKept(input, f)
  PROVE  MutInv'
<1>1. /\ mutator' = name /\ field' = f /\ todo' = calls
      /\ input' = input /\ outcome' = "ok" /\ outcome = "ok"
  BY DEF Run, Ready
<1>2. calls \in Seq(ToSet(calls))
  BY OverItsElements
<1> QED  BY <1>1, <1>2 DEF MutInv, PanicsAreKnown

(* No field, no draw.                                                       *)
LEMMA UnderflowInv ==
  ASSUME MutInv, Ready, NEW name, Underflow(name)
  PROVE  MutInv'
<1>1. /\ todo' = todo /\ input' = input /\ outcome' = "underflow"
      /\ FieldsOf(input) = << >> /\ todo = << >>
  BY DEF Underflow, Ready, MutInv
<1>2. todo \in Seq(ToSet(todo))
  BY DEF MutInv
<1> QED  BY <1>1, <1>2 DEF MutInv, PanicsAreKnown

(* What every drawn field is.                                               *)
LEMMA Drawn ==
  ASSUME FieldsTyped, NEW f \in ToSet(FieldsOf(input))
  PROVE  /\ f \in Stacks /\ Last(f).node.len \in Nat
         /\ ListKept(input, f) /\ Resized(f, f, Last(f).node.len)
<1>1. f \in Stacks
  BY DEF FieldsTyped, ToSet
<1>2. Last(f).node.len \in Nat /\ Resized(f, f, Last(f).node.len)
  BY <1>1, StackEnds, ResizedToItself
<1> QED  BY <1>1, <1>2 DEF ListKept, ListIn

(* The bounds calculate_subslice_bounds returns are within the list, and so *)
(* is every index between them.                                             *)
LEMMA SubsliceCalls ==
  ASSUME NEW f, Last(f).node.len \in Nat, NEW b \in Subslices(Last(f).node.len),
         NEW m \in {GenerateReplace, Splice(Chunk(Last(f).node.elem))}
  PROVE  /\ EachOf(f, b, m) \in Seq(ElementCalls(f))
         /\ \A j \in 1 .. Len(EachOf(f, b, m)) :
              /\ EachOf(f, b, m)[j] \in ElementCalls(f)
              /\ EachOf(f, b, m)[j].below = f
<1> DEFINE len == Last(f).node.len
<1>1. b \in (0 .. len) \X (0 .. len) /\ b[1] <= b[2]
  BY DEF Subslices
<1>2. PICK n \in Nat : n = b[2] - b[1] /\ b[1] \in Nat /\ b[1] + n <= len
  BY <1>1
<1>3. ASSUME NEW i \in 1 .. n
      PROVE  Element(f, b[1] + i - 1, m) \in ElementCalls(f) /\ Element(f, b[1] + i - 1, m).below = f
  <2>1. PICK k \in 0 .. Last(f).node.len - 1 : k = b[1] + i - 1
    BY <1>2
  <2>2. Element(f, k, m) \in ElementCalls(f)
    BY DEF ElementCalls
  <2>3. Element(f, k, m).below = f
    BY DEF Element, Call
  <2> QED  BY <2>1, <2>2, <2>3
<1>4. EachOf(f, b, m) = [i \in 1 .. n |-> Element(f, b[1] + i - 1, m)]
  BY <1>2 DEF EachOf
<1> HIDE DEF len
<1>5. EachOf(f, b, m) \in Seq(ElementCalls(f)) /\ Len(EachOf(f, b, m)) = n
  BY <1>3, <1>4
<1> QED  BY <1>3, <1>4, <1>5

(* One call that is left.                                                   *)
LEMMA OneCall ==
  ASSUME NEW c
  PROVE  <<c>> \in Seq({c}) /\ Len(<<c>>) = 1 /\ <<c>>[1] = c /\ \A j \in 1 .. 1 : <<c>>[j] = c
OBVIOUS

(* A single call at the field that was drawn                                *)
LEMMA OneCallInv ==
  ASSUME MutInv, FieldsTyped, Ready, NEW name \in {"random", "splice", "append", "pop"},
         NEW f \in ToSet(FieldsOf(input)), NEW m, Run(name, f, <<Here(f, m)>>),
         FitsField(input, name, f, <<Here(f, m)>>)
  PROVE  MutInv'
<1>1. /\ <<Here(f, m)>> \in Seq({Here(f, m)}) /\ Len(<<Here(f, m)>>) = 1
      /\ \A j \in 1 .. 1 : <<Here(f, m)>>[j] = Here(f, m)
  BY OneCall
<1>2. Here(f, m).below = f
  BY DEF Here, Call
<1>3. f \in Stacks /\ ListKept(input, f)
  BY Drawn
<1>4. Fits(input, name, f, <<Here(f, m)>>)
  BY <1>1, <1>2, <1>3 DEF Fits
<1> QED  BY <1>1, <1>3, <1>4, DrawInv

LEMMA RandomInv == ASSUME MutInv, FieldsTyped, Random PROVE MutInv'
<1>1. Ready
  BY DEF Random
<1>2. CASE Underflow("random")
  BY <1>1, <1>2, UnderflowInv
<1>3. ASSUME NEW f \in ToSet(FieldsOf(input)), IsIterable(f),
             NEW b \in Subslices(Last(f).node.len), Run("random", f, EachOf(f, b, GenerateReplace))
      PROVE  MutInv'
  <2>1. f \in Stacks /\ Last(f).node.len \in Nat /\ ListKept(input, f)
    BY Drawn
  <2>2. /\ EachOf(f, b, GenerateReplace) \in Seq(ElementCalls(f))
        /\ \A j \in 1 .. Len(EachOf(f, b, GenerateReplace)) :
             /\ EachOf(f, b, GenerateReplace)[j] \in ElementCalls(f)
             /\ EachOf(f, b, GenerateReplace)[j].below = f
    BY <2>1, SubsliceCalls
  <2>3. Fits(input, "random", f, EachOf(f, b, GenerateReplace))
    BY <1>3, <2>1, <2>2 DEF Fits, FitsField
  <2> QED  BY <1>1, <1>3, <2>1, <2>2, <2>3, DrawInv
<1>4. ASSUME NEW f \in ToSet(FieldsOf(input)), ~ IsIterable(f),
             Run("random", f, <<Here(f, GenerateReplace)>>)
      PROVE  MutInv'
  <2>1. FitsField(input, "random", f, <<Here(f, GenerateReplace)>>)
    BY <1>4, OneCall DEF FitsField, ReplaceCalls
  <2> QED  BY <1>1, <1>4, <2>1, OneCallInv
<1> QED  BY <1>2, <1>3, <1>4 DEF Random

LEMMA SpliceInv == ASSUME MutInv, FieldsTyped, SpliceInput PROVE MutInv'
<1>1. Ready
  BY DEF SpliceInput
<1>2. CASE Underflow("splice")
  BY <1>1, <1>2, UnderflowInv
<1>3. ASSUME NEW f \in ToSet(FieldsOf(input)), SpliceOne(f) PROVE MutInv'
  <2>1. FitsField(input, "splice", f, <<Here(f, Splice(Chunk(Last(f).ty)))>>)
    BY <1>3, OneCall DEF SpliceOne, FitsField, ReplaceCalls
  <2> QED  BY <1>1, <1>3, <2>1, OneCallInv DEF SpliceOne
<1>4. ASSUME NEW f \in ToSet(FieldsOf(input)), SpliceSubslice(f) PROVE MutInv'
  <2> DEFINE m == Splice(Chunk(Last(f).node.elem))
  <2>1. PICK b \in Subslices(Last(f).node.len) : IsIterable(f) /\ Run("splice", f, EachOf(f, b, m))
    BY <1>4 DEF SpliceSubslice
  <2>2. f \in Stacks /\ Last(f).node.len \in Nat /\ ListKept(input, f)
    BY Drawn
  <2>3. /\ EachOf(f, b, m) \in Seq(ElementCalls(f))
        /\ \A j \in 1 .. Len(EachOf(f, b, m)) :
             EachOf(f, b, m)[j] \in ElementCalls(f) /\ EachOf(f, b, m)[j].below = f
    BY <2>2, SubsliceCalls
  <2> HIDE DEF m
  <2>4. Fits(input, "splice", f, EachOf(f, b, m))
    BY <2>1, <2>2, <2>3 DEF Fits, FitsField
  <2> QED  BY <1>1, <2>1, <2>2, <2>3, <2>4, DrawInv
<1>5. ASSUME NEW f \in ToSet(FieldsOf(input)), SpliceFull(f) PROVE MutInv'
  <2> DEFINE m == Splice(Chunks(Last(f).node.elem, Last(f).node.len, Last(f).node.fixed))
  <2>1. IsIterable(f) /\ Run("splice", f, <<Here(f, m)>>) /\ Here(f, m) = FullCall(f)
    BY <1>5 DEF SpliceFull, FullCall
  <2> HIDE DEF m
  <2>2. FitsField(input, "splice", f, <<Here(f, m)>>)
    BY <2>1, OneCall DEF FitsField
  <2> QED  BY <1>1, <2>1, <2>2, OneCallInv
<1> QED  BY <1>2, <1>3, <1>4, <1>5 DEF SpliceInput

LEMMA AppendInv ==
  ASSUME MutInv, FieldsTyped, SpliceAppendInput \/ GenerateAppendInput PROVE MutInv'
<1>1. Ready
  BY DEF SpliceAppendInput, GenerateAppendInput
<1>2. ASSUME NEW f \in ToSet(FieldsOf(input)), Growable(f),
             Run("append", f, <<Here(f, SpliceAppend(Chunk(Last(f).node.elem)))>>)
      PROVE  MutInv'
  <2>1. Resized(f, f, Last(f).node.len)
    BY Drawn
  <2>2. FitsField(input, "append", f, <<Here(f, SpliceAppend(Chunk(Last(f).node.elem)))>>)
    BY <1>2, <2>1, OneCall DEF FitsField, AppendCalls
  <2> QED  BY <1>1, <1>2, <2>2, OneCallInv
<1>3. ASSUME NEW f \in ToSet(FieldsOf(input)), NEW n \in 1 .. IterateDepth, Growable(f),
             Run("append", f, Times(n, Here(f, GenerateAppend)))
      PROVE  MutInv'
  <2> DEFINE calls == Times(n, Here(f, GenerateAppend))
  <2>1. n \in Nat
    BY IterateAssumption
  <2>2. /\ calls \in Seq({Here(f, GenerateAppend)}) /\ Len(calls) = n
        /\ \A j \in 1 .. n : calls[j] = Here(f, GenerateAppend)
    BY <2>1 DEF Times
  <2>3. Here(f, GenerateAppend).below = f /\ Here(f, GenerateAppend) \in AppendCalls(f)
    BY DEF Here, Call, AppendCalls
  <2>4. f \in Stacks /\ Resized(f, f, Last(f).node.len)
    BY Drawn
  <2>5. Run("append", f, calls)
    BY <1>3
  <2> HIDE DEF calls
  <2>6. Fits(input, "append", f, calls)
    BY <1>3, <2>2, <2>3, <2>4 DEF Fits, FitsField
  <2> QED  BY <1>1, <2>2, <2>5, <2>6, DrawInv
<1> QED  BY <1>2, <1>3 DEF SpliceAppendInput, GenerateAppendInput

LEMMA PopInputInv == ASSUME MutInv, FieldsTyped, PopInput PROVE MutInv'
<1>1. Ready
  BY DEF PopInput
<1>2. CASE Underflow("pop")
  BY <1>1, <1>2, UnderflowInv
<1>3. ASSUME NEW f \in ToSet(FieldsOf(input)), Growable(f), NEW i \in 0 .. Last(f).node.len - 1,
             Run("pop", f, <<Here(f, IterablePop(i))>>)
      PROVE  MutInv'
  <2>1. FitsField(input, "pop", f, <<Here(f, IterablePop(i))>>)
    BY <1>3, OneCall DEF FitsField, PopCalls
  <2> QED  BY <1>1, <1>3, <2>1, OneCallInv
<1> QED  BY <1>2, <1>3 DEF PopInput

LEMMA CmplogInv == ASSUME MutInv, FieldsTyped, CmplogInput PROVE MutInv'
<1>1. Ready
  BY DEF CmplogInput
<1>2. PICK leaves \in CmpsOf(input) :
        Run("cmplog", << >>, [i \in 1 .. Len(leaves) |-> CmpCall(leaves[i])])
  BY DEF CmplogInput
<1> DEFINE calls == [i \in 1 .. Len(leaves) |-> CmpCall(leaves[i])]
<1>3. leaves \in Seq(Stacks) /\ Len(leaves) \in Nat /\ DOMAIN leaves = 1 .. Len(leaves)
  BY DEF FieldsTyped
<1>4. \A i \in 1 .. Len(leaves) : leaves[i] \in CmpLeaves(input)
  BY <1>3 DEF CmpLeaves, ToSet
<1>5. /\ calls \in Seq({CmpCall(leaves[i]) : i \in 1 .. Len(leaves)})
      /\ Len(calls) = Len(leaves)
      /\ \A i \in 1 .. Len(leaves) : calls[i] = CmpCall(leaves[i])
  BY <1>3
<1>6. \A i \in 1 .. Len(leaves) : CmpCall(leaves[i]).below = leaves[i]
  BY DEF CmpCall, Call
<1>7. Run("cmplog", << >>, calls)
  BY <1>2
<1> HIDE DEF calls
<1>8. Fits(input, "cmplog", << >>, calls)
  BY <1>4, <1>5, <1>6 DEF Fits, FitsLeaves
<1> QED  BY <1>1, <1>5, <1>7, <1>8, DrawInv

(* The mutator is through.                                                  *)
LEMMA EvaluateInv == ASSUME MutInv, Evaluate PROVE MutInv'
<1>1. /\ mutator' = "none" /\ todo' = todo /\ todo = << >> /\ outcome' = outcome /\ outcome = "ok"
  BY DEF Evaluate
<1>2. todo \in Seq(ToSet(todo))
  BY DEF MutInv
<1> QED  BY <1>1, <1>2 DEF MutInv, PanicsAreKnown

(* The call that is made is one of those for any field that has the path of *)
(* the drawn one, and its element type.                                     *)
LEMMA SameCalls ==
  ASSUME NEW f \in Stacks, NEW g \in Stacks, NEW n, Resized(f, g, n),
         todo # << >>, Growable(f) \/ n = Last(f).node.len
  PROVE  /\ n = Last(f).node.len /\ Head(todo) \in ElementCalls(f) \cup {FullCall(f)}
              => Calls(ElementCalls(g) \cup {FullCall(g)})
         /\ Head(todo) \in AppendCalls(f) => Calls(AppendCalls(g))
<1>1. /\ PathOf(g) = PathOf(f) /\ Last(g).node.len = n
      /\ Last(g).node.elem = Last(f).node.elem /\ Last(g).node.fixed = Last(f).node.fixed
  BY ResizedIsLike
<1>2. ASSUME n = Last(f).node.len, Head(todo) \in ElementCalls(f)
      PROVE  Calls(ElementCalls(g) \cup {FullCall(g)})
  <2>1. PICK i \in 0 .. Last(f).node.len - 1,
             m \in {GenerateReplace, Splice(Chunk(Last(f).node.elem))} :
          Head(todo) = Element(f, i, m)
    BY <1>2 DEF ElementCalls
  <2>2. Element(g, i, m) \in ElementCalls(g)
    BY <1>1, <1>2 DEF ElementCalls
  <2>3. Element(g, i, m).m = Head(todo).m /\ Element(g, i, m).path = Head(todo).path
    BY <1>1, <2>1 DEF Element, Call
  <2> QED  BY <2>2, <2>3 DEF Calls
<1>3. ASSUME n = Last(f).node.len, Head(todo) = FullCall(f)
      PROVE  Calls(ElementCalls(g) \cup {FullCall(g)})
  <2>1. FullCall(g).m = FullCall(f).m /\ FullCall(g).path = FullCall(f).path
    BY <1>1, <1>3 DEF FullCall, Here, Call
  <2> QED  BY <1>3, <2>1 DEF Calls
<1>4. ASSUME Head(todo) \in AppendCalls(f) PROVE Calls(AppendCalls(g))
  <2>1. PICK m \in {GenerateAppend, SpliceAppend(Chunk(Last(f).node.elem))} :
          Head(todo) = Here(f, m)
    BY <1>4 DEF AppendCalls
  <2>2. Here(g, m) \in AppendCalls(g)
    BY <1>1 DEF AppendCalls
  <2>3. Here(g, m).m = Head(todo).m /\ Here(g, m).path = Head(todo).path
    BY <1>1, <2>1 DEF Here, Call
  <2> QED  BY <2>2, <2>3 DEF Calls
<1> QED  BY <1>2, <1>3, <1>4

(* A call that replaces a field or pops from it succeeds.                   *)
LEMMA OnceSucceeds ==
  ASSUME FieldsTyped, PathsLead, todo # << >>, Straight(field),
         field \in ToSet(FieldsOf(input)), NEW r \in Called,
         \/ ~ IsIterable(field) /\ Head(todo) \in ReplaceCalls(field)
         \/ Growable(field) /\ Head(todo) \in PopCalls(field)
  PROVE  r.out = "ok"
<1>1. CASE ~ IsIterable(field) /\ Head(todo) \in ReplaceCalls(field)
  <2>1. Calls(ReplaceCalls(field))
    BY <1>1 DEF Calls
  <2> QED  BY <1>1, <2>1 DEF PathsLead, FieldsLead
<1>2. CASE Growable(field) /\ Head(todo) \in PopCalls(field)
  <2>1. PICK i \in 0 .. Last(field).node.len - 1 : Head(todo) = Here(field, IterablePop(i))
    BY <1>2 DEF PopCalls
  <2>2. Called = Mutate(input, IterablePop(i), PathOf(field))
    BY <2>1 DEF Called, Here, Call
  <2> QED  BY <1>2, <2>1, <2>2 DEF PathsLead, PopsShorten, Straight
<1> QED  BY <1>1, <1>2

(* A call made up for the drawn list leaves it at its length.               *)
LEMMA KeptByCall ==
  ASSUME FieldsTyped, PathsLead, todo # << >>, Straight(field), IsIterable(field),
         ListKept(input, field), Head(todo) \in ElementCalls(field) \cup {FullCall(field)},
         NEW r \in Called, r.out = "ok" => FieldsOf(r.val) \in Seq(Stacks)
  PROVE  r.out = "ok" /\ ListIn(r.val, field, Last(field).node.len)
<1>1. PICK g \in ToSet(FieldsOf(input)) : Resized(field, g, Last(field).node.len)
  BY DEF ListKept, ListIn
<1>2. g \in Stacks /\ field \in Stacks
  BY DEF FieldsTyped, ToSet, ListKept
<1>3. /\ Straight(g) /\ IsIterable(g) /\ Last(g).node.len = Last(field).node.len
      /\ \A h, m : Resized(g, h, m) => Resized(field, h, m)
  BY <1>1, <1>2, ResizedIsLike
<1>4. Calls(ElementCalls(g) \cup {FullCall(g)})
  BY <1>1, <1>2, SameCalls
<1>5. r.out = "ok" /\ Keeps(g, r, {Last(g).node.len})
  BY <1>3, <1>4 DEF PathsLead, FieldsLead
<1> QED  BY <1>3, <1>5 DEF Keeps, ListIn

(* An append leaves it, at one length or another.                           *)
LEMMA KeptByAppend ==
  ASSUME FieldsTyped, PathsLead, todo # << >>, Straight(field), Growable(field), field \in Stacks,
         NEW g \in ToSet(FieldsOf(input)), Resized(field, g, Last(g).node.len),
         Head(todo) \in AppendCalls(field),
         NEW r \in Called, r.out = "ok" => FieldsOf(r.val) \in Seq(Stacks)
  PROVE  /\ r.out = "ok"
         /\ \E h \in ToSet(FieldsOf(r.val)) : Resized(field, h, Last(h).node.len)
<1>1. g \in Stacks
  BY DEF FieldsTyped, ToSet
<1>2. /\ Straight(g) /\ Growable(g)
      /\ \A h, m : Resized(g, h, m) => Resized(field, h, m)
  BY <1>1, ResizedIsLike
<1>3. Calls(AppendCalls(g))
  BY <1>1, SameCalls
<1>4. r.out = "ok" /\ Keeps(g, r, {Last(g).node.len, Last(g).node.len + 1})
  BY <1>2, <1>3 DEF PathsLead, FieldsLead
<1>5. PICK h \in ToSet(FieldsOf(r.val)), n \in {Last(g).node.len, Last(g).node.len + 1} :
        Resized(g, h, n)
  BY <1>4 DEF Keeps
<1>6. h \in Stacks
  BY <1>4, <1>5 DEF ToSet
<1>7. Last(h).node.len = n
  BY <1>1, <1>5, <1>6, ResizedIsLike
<1> QED  BY <1>2, <1>4, <1>5, <1>7

(* A call that panics is below a Result, or at or below a map, ...          *)
LEMMA PanicInv ==
  ASSUME MutInv, FieldsTyped, PathsLead, outcome = "ok", todo # << >>,
         NEW r \in Called, r.out # "ok",
         outcome' = r.out, UNCHANGED <<input, mutator, field, todo>>
  PROVE  MutInv'
<1>1. /\ Len(todo) \in Nat /\ 1 \in 1 .. Len(todo) /\ Head(todo) = todo[1]
      /\ todo \in Seq(ToSet(todo))
  BY RestOfTheCalls DEF MutInv
<1>2. ~ Straight(Head(todo).below)
  <2>1. CASE mutator = "cmplog"
    <3>1. Crooked(Head(todo).below) \/ Head(todo).below \in CmpLeaves(input)
      BY <1>1, <2>1 DEF MutInv, Fits, FitsLeaves
    <3> QED  BY <2>1, <3>1 DEF PathsLead, LeavesLead, Straight
  <2>2. CASE mutator # "cmplog"
    <3>1. /\ Head(todo).below = field /\ field \in Stacks
          /\ Straight(field) => FitsField(input, mutator, field, todo)
      BY <1>1, <2>2 DEF MutInv, Fits
    <3> SUFFICES ASSUME Straight(field) PROVE FALSE
      BY <3>1
    <3>2. CASE /\ field \in ToSet(FieldsOf(input))
               /\ \/ ~ IsIterable(field) /\ Head(todo) \in ReplaceCalls(field)
                  \/ Growable(field) /\ Head(todo) \in PopCalls(field)
      BY <3>2, OnceSucceeds
    <3>3. CASE /\ mutator \in {"random", "splice"} /\ IsIterable(field)
               /\ Head(todo) \in ElementCalls(field) \cup {FullCall(field)}
      <4>1. ListKept(input, field)
        BY <3>3 DEF MutInv
      <4> QED  BY <3>3, <4>1, KeptByCall
    <3>4. CASE /\ Growable(field) /\ Head(todo) \in AppendCalls(field)
               /\ \E g \in ToSet(FieldsOf(input)) : Resized(field, g, Last(g).node.len)
      BY <3>1, <3>4, KeptByAppend
    <3> QED  BY <1>1, <3>1, <3>2, <3>3, <3>4 DEF FitsField
  <2> QED  BY <2>1, <2>2
<1> QED  BY <1>1, <1>2 DEF MutInv, PanicsAreKnown

(* ... and one that succeeds leaves what the other calls are made up for.   *)
LEMMA SuccessInv ==
  ASSUME MutInv, FieldsTyped, FieldsTyped', PathsLead, outcome = "ok", todo # << >>,
         NEW r \in Called, r.out = "ok",
         input' = r.val, todo' = Tail(todo), UNCHANGED <<mutator, field, outcome>>
  PROVE  MutInv'
<1>1. /\ Len(todo) \in Nat /\ 1 \in 1 .. Len(todo) /\ Head(todo) = todo[1]
      /\ Tail(todo) \in Seq(ToSet(todo)) /\ Len(Tail(todo)) = Len(todo) - 1
      /\ \A j \in 1 .. Len(Tail(todo)) : j + 1 \in 1 .. Len(todo) /\ Tail(todo)[j] = todo[j + 1]
      /\ todo \in Seq(ToSet(todo))
  BY RestOfTheCalls DEF MutInv
<1>2. Tail(todo) \in Seq(ToSet(Tail(todo)))
  BY <1>1, OverItsElements
<1>3. FieldsOf(r.val) \in Seq(Stacks) /\ mutator # "none" /\ Fits(input, mutator, field, todo)
  BY DEF FieldsTyped, MutInv
<1>4. CASE mutator = "cmplog"
  <2>1. FitsLeaves(input, todo)
    BY <1>3, <1>4 DEF Fits
  <2>2. \A l \in CmpLeaves(input) : Crooked(l) \/ l \in CmpLeaves(r.val)
    BY <1>4 DEF PathsLead, LeavesLead
  <2>3. FitsLeaves(r.val, Tail(todo))
    BY <1>1, <2>1, <2>2 DEF FitsLeaves
  <2>4. Fits(r.val, mutator, field, Tail(todo))
    BY <1>4, <2>3 DEF Fits
  <2> QED  BY <1>2, <1>4, <2>4 DEF MutInv, PanicsAreKnown
<1>5. CASE mutator # "cmplog"
  <2>1. /\ field \in Stacks
        /\ \A j \in 1 .. Len(Tail(todo)) : Tail(todo)[j].below = field
        /\ Straight(field) => FitsField(input, mutator, field, todo)
    BY <1>1, <1>3, <1>5 DEF Fits
  <2>2. ASSUME Straight(field), mutator \in {"random", "splice"}, IsIterable(field)
        PROVE  ListIn(r.val, field, Last(field).node.len)
    <3>1. ListKept(input, field)
      BY <2>2 DEF MutInv
    <3>2. Head(todo) \in ElementCalls(field) \cup {FullCall(field)}
      BY <1>1, <2>1, <2>2 DEF FitsField
    <3> QED  BY <1>3, <2>2, <3>1, <3>2, KeptByCall
  <2>3. ASSUME Straight(field), mutator = "append", Growable(field)
        PROVE  \E g \in ToSet(FieldsOf(r.val)) : Resized(field, g, Last(g).node.len)
    <3>1. PICK g \in ToSet(FieldsOf(input)) : Resized(field, g, Last(g).node.len)
      BY <2>1, <2>3 DEF FitsField
    <3>2. Head(todo) \in AppendCalls(field)
      BY <1>1, <2>1, <2>3 DEF FitsField
    <3> QED  BY <1>3, <2>1, <2>3, <3>1, <3>2, KeptByAppend
  <2>4. ListKept(r.val, field) \/ mutator \notin {"random", "splice"}
    BY <2>1, <2>2 DEF ListKept
  <2>5. Tail(todo) = << >> \/ Fits(r.val, mutator, field, Tail(todo))
    <3>1. Straight(field) =>
            Tail(todo) = << >> \/ FitsField(r.val, mutator, field, Tail(todo))
      BY <1>1, <2>1, <2>3, FitsRest
    <3> QED  BY <1>5, <2>1, <3>1 DEF Fits
  <2> QED  BY <1>2, <1>3, <2>4, <2>5 DEF MutInv, PanicsAreKnown
<1> QED  BY <1>4, <1>5

LEMMA ApplyInv ==
  ASSUME MutInv, FieldsTyped, FieldsTyped', PathsLead, Apply
  PROVE  MutInv'
<1>1. outcome = "ok" /\ todo # << >>
  BY DEF Apply
<1>2. PICK r \in Called :
        IF r.out = "ok"
        THEN input' = r.val /\ todo' = Tail(todo) /\ UNCHANGED <<mutator, field, outcome>>
        ELSE outcome' = r.out /\ UNCHANGED <<input, mutator, field, todo>>
  BY DEF Apply, Called
<1> QED  BY <1>1, <1>2, SuccessInv, PanicInv

LEMMA MutInvHolds == MutSpec /\ []FieldsTyped /\ []PathsLead => []MutInv
<1>1. ASSUME MutInv, UNCHANGED mutVars PROVE MutInv'
  BY <1>1 DEF mutVars, mutOnly, inputOnly, MutInv, PanicsAreKnown
<1>2. MutInv /\ FieldsTyped /\ FieldsTyped' /\ PathsLead /\ [MutNext]_mutVars => MutInv'
  BY <1>1, RandomInv, SpliceInv, AppendInv, PopInputInv, CmplogInv, ApplyInv, EvaluateInv DEF MutNext
<1> QED  BY <1>2, MutInitInv, PTL DEF MutSpec

(* Whatever a mutator draws and however many calls it makes of one draw, it *)
(* panics only for an input without fields, or at a map or below a map or a *)
(* Result, if a single call does what PathsLead says.                       *)
THEOREM OnlyKnownPanics == MutSpec /\ []FieldsTyped /\ []PathsLead => []PanicsAreKnown
<1>1. MutInv => PanicsAreKnown
  BY DEF MutInv
<1> QED  BY <1>1, MutInvHolds, PTL

(* The bounds of a subslice, drawn from the recorded length, are used for   *)
(* several calls that each change the list: it keeps that length, so that   *)
(* every one of the indices is still in range when its turn comes.          *)
THEOREM DrawnLengthsKept == MutSpec /\ []FieldsTyped /\ []PathsLead => []LengthsKept
<1>1. MutInv /\ FieldsTyped => LengthsKept
  <2> SUFFICES ASSUME MutInv, FieldsTyped, mutator \in {"random", "splice"}, outcome = "ok",
                      IsIterable(field), Straight(field)
               PROVE  \E g \in ToSet(FieldsOf(input)) :
                        PathOf(g) = PathOf(field) /\ Last(g).node.len = Last(field).node.len
    BY DEF LengthsKept
  <2>1. field \in Stacks /\ ListIn(input, field, Last(field).node.len)
    BY DEF MutInv, ListKept
  <2>2. PICK g \in ToSet(FieldsOf(input)) : Resized(field, g, Last(field).node.len)
    BY <2>1 DEF ListIn
  <2>3. g \in Stacks
    BY DEF FieldsTyped, ToSet
  <2> QED  BY <2>1, <2>2, <2>3, ResizedIsLike
<1> QED  BY <1>1, MutInvHolds, PTL

----------------------------------------------------------------------------
(* The byte loop of the cmplog stage                                        *)
Begun == start # 0 => width <= start

StillToFind == Repeats /\ start # 0 => Found(bytes, start) # {}

Untouched == start = 0 => bytes = original

(* Without a repeat there is nothing behind the one occurrence.             *)
FoundOnce == ~ Repeats /\ start # 0 => Found(bytes, start) = {}

LoopInv == BytesTypeOK /\ Begun /\ Untouched /\ StillToFind /\ OverOnlyWithoutRepeat /\ FoundOnce

(* Where a search finds the chunk and what the loop makes of it.            *)
LEMMA IndexInRange ==
  ASSUME BytesTypeOK, NEW at \in Found(bytes, start)
  PROVE  /\ at \in Nat /\ start <= at /\ at + width <= size
         /\ Index(at) \in Nat
         /\ Index(at) + width \in 1 .. size
BY SizesAssumption DEF BytesTypeOK, Found, OccursAt, Index

LEMMA FirstSearch ==
  ASSUME BytesTypeOK, Untouched, start = 0,
         NEW at \in Found(bytes, start), FirstOf(Found(bytes, start), at)
  PROVE  /\ WrittenBack(Index(at)) = bytes
         /\ Repeats <=> Found(bytes, at + width) # {}
<1>1. at \in Found(original, 0) /\ FirstOf(Found(original, 0), at)
  BY DEF Untouched
<1>2. \A first \in Found(original, 0) : FirstOf(Found(original, 0), first) => first = at
  <2> SUFFICES ASSUME NEW first \in Found(original, 0), FirstOf(Found(original, 0), first)
               PROVE  first = at
    OBVIOUS
  <2>1. at \in Int /\ first \in Int
    BY SizesAssumption, <1>1 DEF Found, BytesTypeOK
  <2> QED  BY <1>1, <2>1 DEF FirstOf
<1>3. at \in Int
  BY SizesAssumption, <1>1 DEF Found, BytesTypeOK
<1>4. Repeats <=> Found(original, at + width) # {}
  BY <1>1, <1>2 DEF Repeats
<1>5. Repeats <=> Found(bytes, at + width) # {}
  BY <1>4 DEF Untouched
<1>6. Index(at) = at
  BY <1>3 DEF Index
<1>7. ASSUME NEW j \in 0 .. size - 1
      PROVE  WrittenBack(Index(at))[j] = bytes[j]
  <2>1. CASE j \in at .. at + width - 1
    <3>1. j - at \in 0 .. width - 1 /\ at + (j - at) = j
      BY <1>3, <2>1, SizesAssumption DEF BytesTypeOK
    <3>2. bytes[j] = chunk[j - at]
      BY <3>1 DEF Found, OccursAt
    <3> QED
      BY <1>6, <2>1, <3>2 DEF WrittenBack
  <2>2. CASE j \notin at .. at + width - 1
    BY <1>6, <2>2 DEF WrittenBack
  <2> QED
    BY <2>1, <2>2
<1>8. WrittenBack(Index(at)) = bytes
  BY <1>7 DEF WrittenBack, BytesTypeOK
<1> QED
  BY <1>5, <1>8

(* Later searches return to what they found.                                *)
LEMMA LaterSearch ==
  ASSUME BytesTypeOK, Begun, start # 0,
         NEW at \in Found(bytes, start), NEW b \in {bytes, WrittenBack(Index(at))}
  PROVE  at \in Found(b, Index(at) + width)
<1>1. /\ at \in Nat /\ start <= at /\ at + width <= size
      /\ Index(at) \in Nat
  BY IndexInRange
<1>2. width \in Nat /\ size \in Nat /\ start \in Nat /\ width <= start
  BY SizesAssumption DEF BytesTypeOK, Begun
<1>3. Index(at) + width <= at
  BY <1>1, <1>2 DEF Index
<1>4. ASSUME NEW j \in 0 .. width - 1
      PROVE  b[at + j] = chunk[j]
  <2>1. bytes[at + j] = chunk[j]
    BY DEF Found, OccursAt
  <2>2. at + j \in 0 .. size - 1 /\ at + j \notin Index(at) .. Index(at) + width - 1
    BY <1>1, <1>2, <1>3
  <2>3. WrittenBack(Index(at))[at + j] = bytes[at + j]
    BY <2>2 DEF WrittenBack
  <2> QED
    BY <2>1, <2>3
<1>5. at \in Index(at) + width .. size
  BY <1>1, <1>2, <1>3
<1> QED
  BY <1>1, <1>4, <1>5 DEF Found, OccursAt

LEMMA BytesInitInv == BytesInit => LoopInv
BY SizesAssumption
   DEF BytesInit, LoopInv, BytesTypeOK, Begun, Untouched, StillToFind, OverOnlyWithoutRepeat,
       FoundOnce

LEMMA WrittenType ==
  ASSUME BytesTypeOK, NEW at \in Found(bytes, start)
  PROVE  WrittenBack(Index(at)) \in [0 .. size - 1 -> Byte]
<1>1. Index(at) \in Nat /\ width \in Nat /\ size \in Nat
  BY IndexInRange, SizesAssumption DEF BytesTypeOK
<1>2. ASSUME NEW j \in 0 .. size - 1
      PROVE  (IF j \in Index(at) .. Index(at) + width - 1 THEN chunk[j - Index(at)] ELSE bytes[j]) \in Byte
  <2>1. CASE j \in Index(at) .. Index(at) + width - 1
    <3>1. j - Index(at) \in 0 .. width - 1
      BY <1>1, <2>1
    <3> QED
      BY <2>1, <3>1 DEF BytesTypeOK
  <2>2. CASE j \notin Index(at) .. Index(at) + width - 1
    BY <2>2 DEF BytesTypeOK
  <2> QED
    BY <2>1, <2>2
<1> QED
  BY <1>2 DEF WrittenBack

LEMMA SubstituteInv == LoopInv /\ Substitute => LoopInv'
<1> SUFFICES ASSUME LoopInv, Substitute
             PROVE  LoopInv'
  OBVIOUS
<1> USE DEF LoopInv
<1>1. PICK at \in Found(bytes, start) :
        /\ FirstOf(Found(bytes, start), at)
        /\ start' = Index(at) + width
        /\ bytes' \in {bytes, WrittenBack(Index(at))}
  BY DEF Substitute
<1>2. /\ UNCHANGED <<original, size, chunk, width, search>>
      /\ search = "on"
  BY DEF Substitute
<1>3. BytesTypeOK'
  <2>1. bytes' \in [0 .. size - 1 -> Byte]
    BY <1>1, WrittenType DEF BytesTypeOK
  <2>2. start' \in 0 .. size
    BY <1>1, IndexInRange
  <2> QED
    BY <1>2, <2>1, <2>2 DEF BytesTypeOK
<1>4. start' # 0 /\ width <= start'
  BY <1>1, IndexInRange, SizesAssumption DEF BytesTypeOK
<1>5. ASSUME Repeats
      PROVE  Found(bytes', start') # {}
  <2>1. CASE start = 0
    <3>1. WrittenBack(Index(at)) = bytes /\ Found(bytes, at + width) # {}
      BY <1>1, <1>5, <2>1, FirstSearch
    <3>2. start' = at + width
      BY <1>1, <2>1, IndexInRange DEF Index
    <3> QED
      BY <1>1, <3>1, <3>2
  <2>2. CASE start # 0
    BY <1>1, <2>2, LaterSearch
  <2> QED
    BY <2>1, <2>2
<1>6. /\ Repeats' <=> Repeats
      /\ Found(bytes, start)' = Found(bytes', start')
  BY <1>2 DEF Repeats, Found, OccursAt, FirstOf
<1>7. Begun' /\ Untouched' /\ OverOnlyWithoutRepeat'
  BY <1>2, <1>4 DEF Begun, Untouched, OverOnlyWithoutRepeat
<1>8. StillToFind'
  BY <1>5, <1>6 DEF StillToFind
<1>9. ASSUME ~ Repeats PROVE Found(bytes', start') = {}
  <2>1. start = 0
    BY <1>1, <1>9 DEF FoundOnce
  <2>2. WrittenBack(Index(at)) = bytes /\ Found(bytes, at + width) = {}
    BY <1>1, <1>9, <2>1, FirstSearch
  <2>3. start' = at + width
    BY <1>1, <2>1, IndexInRange DEF Index
  <2> QED
    BY <1>1, <2>2, <2>3
<1>10. FoundOnce'
  BY <1>6, <1>9 DEF FoundOnce
<1> QED
  BY <1>3, <1>7, <1>8, <1>10

LEMMA NothingFoundInv == LoopInv /\ NothingFound => LoopInv'
<1> SUFFICES ASSUME LoopInv, NothingFound
             PROVE  LoopInv'
  OBVIOUS
<1> USE DEF LoopInv
<1>1. /\ UNCHANGED <<original, size, bytes, chunk, width, start>>
      /\ Found(bytes, start) = {}
      /\ search' = "over"
  BY DEF NothingFound
<1>2. ~ Repeats
  <2>1. CASE start = 0
    BY <1>1, <2>1 DEF Untouched, Repeats
  <2>2. CASE start # 0
    BY <1>1, <2>2 DEF StillToFind
  <2> QED
    BY <2>1, <2>2
<1>3. Repeats' <=> Repeats
  BY <1>1 DEF Repeats, Found, OccursAt, FirstOf
<1>4. BytesTypeOK' /\ Begun' /\ Untouched'
  BY <1>1 DEF BytesTypeOK, Begun, Untouched
<1>5. Found(bytes, start)' = Found(bytes, start)
  BY <1>1 DEF Found, OccursAt
<1> QED
  BY <1>1, <1>2, <1>3, <1>4, <1>5 DEF StillToFind, OverOnlyWithoutRepeat, FoundOnce

LEMMA BytesStutterInv == LoopInv /\ UNCHANGED bytesVars => LoopInv'
<1> SUFFICES ASSUME LoopInv, UNCHANGED bytesVars
             PROVE  LoopInv'
  OBVIOUS
<1>1. UNCHANGED <<original, size, bytes, chunk, width, start, search>>
  BY DEF bytesVars
<1>2. (Repeats' <=> Repeats) /\ Found(bytes, start)' = Found(bytes, start)
  BY <1>1 DEF Repeats, Found, OccursAt, FirstOf
<1>3. BytesTypeOK' /\ Begun' /\ Untouched'
  BY <1>1 DEF LoopInv, BytesTypeOK, Begun, Untouched
<1> QED
  BY <1>1, <1>2, <1>3 DEF LoopInv, StillToFind, OverOnlyWithoutRepeat, FoundOnce

LEMMA LoopInvariant == BytesSpec => []LoopInv
<1>1. LoopInv /\ [BytesNext]_bytesVars => LoopInv'
  BY SubstituteInv, NothingFoundInv, BytesStutterInv DEF BytesNext
<1> QED
  BY <1>1, BytesInitInv, PTL DEF BytesSpec

(* The search position stays within the bytes, and the bytes keep their     *)
(* number, whatever is written where: neither the slice haystack[start ..]  *)
(* nor Vec::splice can panic.                                               *)
THEOREM BytesTypeCorrect == BytesSpec => []BytesTypeOK
BY LoopInvariant, PTL DEF LoopInv

(* If the bytes do not occur a second time, the search behind the first     *)
(* occurrence finds nothing: the loop is left after one round at the most.  *)
(* This is what EndsWithoutRepeat needs besides fairness.                   *)
THEOREM OneRoundWithoutRepeat == BytesSpec => []FoundOnce
BY LoopInvariant, PTL DEF LoopInv

(* For an input and compared bytes of any size: if the bytes occur a second *)
(* time, without overlap, the loop of AutarkieCmpLogStage never ends.       *)
THEOREM RunsOnForRepeats == BytesSpec => []OverOnlyWithoutRepeat
BY LoopInvariant, PTL DEF LoopInv
=============================================================================
