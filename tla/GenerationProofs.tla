-------------------------- MODULE GenerationProofs --------------------------
(***************************************************************************)
(* Proofs about Generation for every grammar, depth limit and stack size.  *)
(***************************************************************************)
EXTENDS Generation, TLAPS

(* What is left of a stack when its top is popped.                          *)
LEMMA PopProperties ==
  ASSUME NEW S, NEW s \in Seq(S), Len(s) > 0
  PROVE  /\ SubSeq(s, 1, Len(s) - 1) \in Seq(S)
         /\ Len(SubSeq(s, 1, Len(s) - 1)) = Len(s) - 1
         /\ \A i \in 1 .. Len(s) - 1 : SubSeq(s, 1, Len(s) - 1)[i] = s[i]
<1> DEFINE n == Len(s) - 1
<1>1. n \in Int /\ n >= 0 /\ \A i \in 1 .. n : s[i] \in S
  OBVIOUS
<1> HIDE DEF n
<1>2. /\ SubSeq(s, 1, n) \in Seq(S)
      /\ Len(SubSeq(s, 1, n)) = n
      /\ \A i \in 1 .. n : SubSeq(s, 1, n)[i] = s[i]
  BY <1>1
<1>3. QED
  BY <1>2, Zenon DEF n

LEMMA FirstVariant ==
  \A t \in Types : Kind[t] \notin Derived \cup Coins => 0 \in DOMAIN Fields[t]
  BY ShapeAssumption DEF Derived

(* The body a call enters is a frame of the called type.                    *)
LEMMA BodiesType ==
  ASSUME IsGenerateMap(ty_generate_map),
         NEW t \in Types, NEW depth \in Nat, ~ Unregistered(t),
         NEW f \in Bodies(t, depth)
  PROVE  f \in Frame /\ f.ty = t /\ f.depth = depth
<1>1. CASE Kind[t] \in Derived
  <2>1. PICK v \in Candidates(t, depth) :
          f = NewFrame(t, depth, InnerDepth(t, v, depth), Fields[t][v])
    <3>1. f \in DerivedBodies(t, depth)
      BY <1>1 DEF Bodies
    <3>2. QED
      BY <3>1 DEF DerivedBodies
  <2>2. v \in Variants(t)
    BY <2>1, <1>1 DEF Candidates, IsGenerateMap, Marking, Unregistered, DerivedTypes
  <2>3. Fields[t][v] \in Seq(Types)
    BY <2>2, FieldsAssumption DEF Variants
  <2>4. InnerDepth(t, v, depth) \in Nat
    BY DEF InnerDepth
  <2>5. QED
    BY <2>1, <2>3, <2>4 DEF NewFrame, Frame
<1>2. CASE Kind[t] \in Coins
  <2>1. Kind[t] \notin Derived
    BY <1>2 DEF Coins, Derived, Structs, Enums
  <2>2. PICK v \in Variants(t) : f = NewFrame(t, depth, depth, Fields[t][v])
    <3>1. f \in CoinBodies(t, depth)
      BY <1>2, <2>1 DEF Bodies
    <3>2. QED
      BY <3>1 DEF CoinBodies
  <2>3. Fields[t][v] \in Seq(Types)
    BY <2>2, FieldsAssumption DEF Variants
  <2>4. QED
    BY <2>2, <2>3 DEF NewFrame, Frame
<1>3. CASE Kind[t] \in Lists
  <2>1. Kind[t] \notin Derived /\ Kind[t] \notin Coins
    BY <1>3 DEF Coins, Derived, Structs, Enums, Lists
  <2>2. PICK n \in 0 .. IterateDepth :
          f = NewFrame(t, depth, depth, [i \in 1 .. n |-> Fields[t][0][1]])
    <3>1. f \in ListBodies(t, depth)
      BY <1>3, <2>1 DEF Bodies
    <3>2. QED
      BY <3>1 DEF ListBodies
  <2>3. Fields[t][0] \in Seq(Types) /\ Len(Fields[t][0]) = 1
    BY <1>3, <2>1, FieldsAssumption, FirstVariant, ListAssumption
  <2>4. Fields[t][0][1] \in Types
    BY <2>3
  <2>5. [i \in 1 .. n |-> Fields[t][0][1]] \in Seq(Types)
    BY <2>4, <2>2, DepthAssumption
  <2>6. QED
    BY <2>2, <2>5 DEF NewFrame, Frame
<1>4. CASE Kind[t] \notin Derived \cup Coins \cup Lists
  <2>1. f = NewFrame(t, depth, depth, Fields[t][0])
    BY <1>4 DEF Bodies, PlainBodies
  <2>2. Fields[t][0] \in Seq(Types)
    BY <1>4, FieldsAssumption, FirstVariant
  <2>3. QED
    BY <2>1, <2>2 DEF NewFrame, Frame
<1>5. QED
  BY <1>1, <1>2, <1>3, <1>4

(* The stack below the next call, with that call's field taken off.         *)
LEMMA AdvancedType ==
  ASSUME TypeOK, AtField
  PROVE  /\ Top \in Frame
         /\ NextField \in Types
         /\ Advanced \in Seq(Frame)
         /\ Len(Advanced) = Len(calls)
         /\ \A i \in 1 .. Len(calls) :
              /\ Advanced[i].ty = calls[i].ty
              /\ Advanced[i].depth = calls[i].depth
              /\ Advanced[i].inner = calls[i].inner
         /\ \A i \in 1 .. Len(calls) :
              \A k \in 1 .. Len(Advanced[i].todo) :
                \E j \in 1 .. Len(calls[i].todo) :
                  Advanced[i].todo[k] = calls[i].todo[j]
<1>1. calls \in Seq(Frame) /\ Len(calls) \in Nat /\ Len(calls) > 0
  BY DEF TypeOK, AtField
<1>2. Top \in Frame
  BY <1>1 DEF Top
<1>3. NextField \in Types /\ Tail(Top.todo) \in Seq(Types)
  BY <1>2 DEF AtField, NextField, Frame
<1>4. [Top EXCEPT !.todo = Tail(@)] \in Frame
  BY <1>2, <1>3 DEF Frame
<1>5. Callers \in Seq(Frame) /\ Len(Callers) = Len(calls) - 1
      /\ \A i \in 1 .. Len(calls) - 1 : Callers[i] = calls[i]
  BY <1>1, PopProperties DEF Callers
<1>6. Advanced \in Seq(Frame) /\ Len(Advanced) = Len(calls)
      /\ (\A i \in 1 .. Len(calls) - 1 : Advanced[i] = calls[i])
      /\ Advanced[Len(calls)] = [Top EXCEPT !.todo = Tail(@)]
  BY <1>1, <1>4, <1>5 DEF Advanced
<1>7. \A k \in 1 .. Len(Tail(Top.todo)) :
        k + 1 \in 1 .. Len(Top.todo) /\ Tail(Top.todo)[k] = Top.todo[k + 1]
  BY <1>2 DEF AtField, Frame
<1>8. ASSUME NEW i \in 1 .. Len(calls)
      PROVE  /\ Advanced[i].ty = calls[i].ty
             /\ Advanced[i].depth = calls[i].depth
             /\ Advanced[i].inner = calls[i].inner
             /\ \A k \in 1 .. Len(Advanced[i].todo) :
                  \E j \in 1 .. Len(calls[i].todo) :
                    Advanced[i].todo[k] = calls[i].todo[j]
  <2>1. CASE i < Len(calls)
    BY <1>1, <1>6, <2>1
  <2>2. CASE i = Len(calls)
    <3>1. Advanced[i] = [Top EXCEPT !.todo = Tail(@)] /\ calls[i] = Top
      BY <1>6, <2>2 DEF Top
    <3>2. /\ Advanced[i].todo = Tail(Top.todo)
          /\ Advanced[i].ty = Top.ty
          /\ Advanced[i].depth = Top.depth
          /\ Advanced[i].inner = Top.inner
      BY <3>1, <1>2 DEF Frame
    <3>3. QED
      BY <3>1, <3>2, <1>7
  <2>3. QED
    BY <1>1, <2>1, <2>2
<1>9. QED
  BY <1>2, <1>3, <1>6, <1>8

----------------------------------------------------------------------------
(* Type correctness                                                         *)

(* A call that chooses its variant leaves a stack of frames.                *)
LEMMA EnterType ==
  ASSUME TypeOK, NEW t \in Types, NEW depth \in Nat, NEW rest \in Seq(Frame),
         Enter(t, depth, rest)
  PROVE  TypeOK'
<1>1. PICK f \in Bodies(t, depth) : calls' = Append(rest, f)
  BY DEF Enter
<1>2. f \in Frame
  BY <1>1, BodiesType DEF TypeOK, Enter
<1>3. calls' \in Seq(Frame) /\ calls' # << >>
  BY <1>1, <1>2
<1>4. outcome' = "running" /\ ty_generate_map' = ty_generate_map
  BY DEF Enter
<1>5. QED
  BY <1>3, <1>4 DEF TypeOK, Outcomes, IsGenerateMap, Marking

(* A call that finds no variant empties the stack: `?` all the way up.      *)
LEMMA GiveUpType ==
  ASSUME TypeOK, NEW t, NEW depth, NEW rest, GiveUp(t, depth, rest)
  PROVE  TypeOK'
  BY DEF TypeOK, GiveUp, Outcomes, IsGenerateMap, Marking

(* A call of an unregistered type changes nothing but the outcome.          *)
LEMMA PanicType ==
  ASSUME TypeOK, NEW t, NEW rest, Panic(t, rest)
  PROVE  TypeOK'
  BY DEF TypeOK, Panic, Outcomes, IsGenerateMap, Marking

(* A generation starts, and goes on, with its type.                         *)
LEMMA StartType ==
  ASSUME TypeOK, NEW t \in Types, Start(t)
  PROVE  TypeOK'
<1>1. Enter(t, 0, << >>) \/ GiveUp(t, 0, << >>) \/ Panic(t, << >>)
  BY DEF Start
<1>2. << >> \in Seq(Frame) /\ 0 \in Nat
  OBVIOUS
<1>3. QED
  BY <1>1, <1>2, EnterType, GiveUpType, PanicType

LEMMA GenStepType == TypeOK /\ GenStep => TypeOK'
<1> SUFFICES ASSUME TypeOK, GenStep PROVE TypeOK'
  OBVIOUS
<1>1. CASE Descend
  BY <1>1, AdvancedType, EnterType DEF Descend, Frame
<1>2. CASE Fail
  BY <1>2, GiveUpType DEF Fail
<1>3. CASE Crash
  BY <1>3, PanicType DEF Crash
<1>4. CASE RunOut
  BY <1>4 DEF RunOut, Overflow, TypeOK, Outcomes, IsGenerateMap, Marking
<1>5. CASE Return
  <2>1. calls \in Seq(Frame) /\ Len(calls) > 0
    BY <1>5 DEF TypeOK, Return
  <2>2. Callers \in Seq(Frame) /\ Len(Callers) = Len(calls) - 1
    BY <2>1, PopProperties DEF Callers
  <2>3. calls' \in Seq(Frame) /\ (outcome' = "running" => calls' # << >>)
    BY <1>5, <2>1, <2>2 DEF Return
  <2>4. outcome' \in Outcomes /\ ty_generate_map' = ty_generate_map
    BY <1>5 DEF Return, Outcomes
  <2>5. QED
    BY <2>3, <2>4 DEF TypeOK, IsGenerateMap, Marking
<1>6. QED
  BY <1>1, <1>2, <1>3, <1>4, <1>5 DEF GenStep

LEMMA TypeStep == TypeOK /\ [GenNext]_genVars => TypeOK'
<1> SUFFICES ASSUME TypeOK, [GenNext]_genVars PROVE TypeOK'
  OBVIOUS
<1>1. CASE \E t \in Roots : Start(t)
  BY <1>1, RootsAssumption, StartType
<1>2. CASE GenStep
  BY <1>2, GenStepType
<1>3. CASE UNCHANGED genVars
  BY <1>3 DEF genVars, TypeOK, IsGenerateMap, Marking
<1>4. QED
  BY <1>1, <1>2, <1>3 DEF GenNext

(* The state of a generation keeps its type.                                *)
THEOREM TypeCorrect == GenSpec => []TypeOK
<1>1. GenInit => TypeOK
  BY GenerateMapsAssumption DEF GenInit, TypeOK, Outcomes
<1>2. QED
  BY <1>1, TypeStep, PTL DEF GenSpec

----------------------------------------------------------------------------
(* The inductive invariant                                                  *)

(* The depth a call passes on is at least its own and within the limit.     *)
DepthOf(cs) ==
  \A i \in 1 .. Len(cs) : cs[i].depth <= cs[i].inner /\ cs[i].inner <= GenerateDepth

(* The places a stack has for one depth: one per rank from 0 to max.        *)
Level(max, depth) == depth * (max + 1)

(* A call of type t at a depth stands no higher on the stack than the ranks *)
(* used up so far allow.                                                    *)
Fits(max, rank, t, depth, place) == place <= Level(max, depth) + (max - rank[t]) + 1

(* The fields a call has yet to generate go one level deeper or to a lower  *)
(* rank.                                                                    *)
Lowers(rank, f) ==
  \A k \in 1 .. Len(f.todo) :
    \/ f.inner = f.depth + 1
    \/ f.inner = f.depth /\ rank[f.todo[k]] < rank[f.ty]

(* Of the types only those need a rank that the calls so far are of.        *)
Within(S, cs, i) == \A j \in 1 .. i : cs[j].ty \in S

Stacked(S, max, rank, cs) ==
  \A i \in 1 .. Len(cs) : Within(S, cs, i) =>
    Fits(max, rank, cs[i].ty, cs[i].depth, i) /\ Lowers(rank, cs[i])

RankFunctions(max) == [Types -> 0 .. max]

StackInv ==
  \A max \in Nat : \A S \in SUBSET Types : \A rank \in RankFunctions(max) :
    Ranks(S, rank, ty_generate_map) => Stacked(S, max, rank, calls)

IInv == TypeOK /\ DepthOf(calls) /\ StackInv

(* One depth more is worth max + 1 calls on the stack.                      *)
LEMMA LevelSucc ==
  ASSUME NEW max \in Nat, NEW d \in Nat
  PROVE  Level(max, d) \in Nat /\ Level(max, d + 1) = Level(max, d) + max + 1
  BY DEF Level

(* A larger depth has a larger level.                                       *)
LEMMA LevelMonotone ==
  ASSUME NEW max \in Nat, NEW d \in Nat, NEW e \in Nat, d <= e
  PROVE  Level(max, d) <= Level(max, e)
  BY DEF Level

(* What Visitor::generate and the derived impls choose: the depth passed on *)
(* stays within the limit, and the fields go deeper or lower.               *)
LEMMA BodiesDepth ==
  ASSUME IsGenerateMap(ty_generate_map),
         NEW t \in Types, NEW depth \in Nat, depth <= GenerateDepth,
         ~ Unregistered(t), NEW f \in Bodies(t, depth)
  PROVE  f.depth <= f.inner /\ f.inner <= GenerateDepth
<1>1. CASE Kind[t] \in Derived
  <2>1. f \in DerivedBodies(t, depth)
    BY <1>1 DEF Bodies
  <2>2. PICK v \in Candidates(t, depth) :
          f = NewFrame(t, depth, InnerDepth(t, v, depth), Fields[t][v])
    BY <2>1 DEF DerivedBodies
  <2>3. f.depth = depth /\ f.inner = InnerDepth(t, v, depth)
    BY <2>2 DEF NewFrame
  <2>4. v \in ty_generate_map[t].rec => depth < GenerateDepth
    BY <2>2, <1>1
       DEF Candidates, IsGenerateMap, Marking, Unregistered, DerivedTypes
  <2>5. QED
    BY <2>3, <2>4, DepthAssumption DEF InnerDepth
<1>2. CASE Kind[t] \notin Derived
  <2>1. f.depth = depth /\ f.inner = depth
    BY <1>2 DEF Bodies, CoinBodies, ListBodies, PlainBodies, NewFrame
  <2>2. QED
    BY <2>1
<1>3. QED
  BY <1>1, <1>2

(* A field generated at the depth its variant was entered with has a lower  *)
(* rank than the variant's type: only a recursive variant goes deeper.      *)
LEMMA BodiesLower ==
  ASSUME IsGenerateMap(ty_generate_map),
         NEW S \in SUBSET Types, NEW rank, Ranks(S, rank, ty_generate_map),
         NEW t \in S, NEW depth \in Nat, ~ Unregistered(t),
         NEW f \in Bodies(t, depth)
  PROVE  Lowers(rank, f)
<1>1. CASE Kind[t] \in Derived
  <2>1. f \in DerivedBodies(t, depth)
    BY <1>1 DEF Bodies
  <2>2. PICK v \in Candidates(t, depth) :
          f = NewFrame(t, depth, InnerDepth(t, v, depth), Fields[t][v])
    BY <2>1 DEF DerivedBodies
  <2>3. v \in Variants(t) /\ t \in DOMAIN ty_generate_map
    BY <2>2, <1>1
       DEF Candidates, IsGenerateMap, Marking, Unregistered, DerivedTypes
  <2>4. f.ty = t /\ f.depth = depth /\ f.todo = Fields[t][v]
        /\ f.inner = InnerDepth(t, v, depth)
    BY <2>2 DEF NewFrame
  <2>5. CASE v \in ty_generate_map[t].rec
    BY <2>4, <2>5 DEF Lowers, InnerDepth
  <2>6. CASE v \notin ty_generate_map[t].rec
    <3>1. \A k \in 1 .. Len(Fields[t][v]) : rank[Fields[t][v][k]] < rank[t]
      BY <2>3, <2>6 DEF Ranks, Deepens, FieldTypes
    <3>2. QED
      BY <3>1, <2>4, <2>6 DEF Lowers, InnerDepth
  <2>7. QED
    BY <2>5, <2>6
<1>2. ASSUME Kind[t] \notin Derived
      PROVE  \A v \in Variants(t) :
               \A k \in 1 .. Len(Fields[t][v]) : rank[Fields[t][v][k]] < rank[t]
  BY <1>2 DEF Ranks, Deepens, FieldTypes
<1>3. CASE Kind[t] \in Coins
  <2>1. Kind[t] \notin Derived
    BY <1>3 DEF Coins, Derived, Structs, Enums
  <2>2. f \in CoinBodies(t, depth)
    BY <1>3, <2>1 DEF Bodies
  <2>3. PICK v \in Variants(t) : f = NewFrame(t, depth, depth, Fields[t][v])
    BY <2>2 DEF CoinBodies
  <2>4. QED
    BY <1>2, <2>1, <2>3 DEF NewFrame, Lowers
<1>4. CASE Kind[t] \in Lists
  <2>1. Kind[t] \notin Derived /\ Kind[t] \notin Coins
    BY <1>4 DEF Coins, Derived, Structs, Enums, Lists
  <2>2. f \in ListBodies(t, depth)
    BY <1>4, <2>1 DEF Bodies
  <2>3. PICK n \in 0 .. IterateDepth :
          f = NewFrame(t, depth, depth, [i \in 1 .. n |-> Fields[t][0][1]])
    BY <2>2 DEF ListBodies
  <2>4. 0 \in Variants(t) /\ Len(Fields[t][0]) = 1
    BY <1>4, <2>1, FirstVariant, ListAssumption DEF Variants
  <2>5. rank[Fields[t][0][1]] < rank[t]
    BY <1>2, <2>1, <2>4
  <2>6. QED
    BY <2>3, <2>5, DepthAssumption DEF NewFrame, Lowers
<1>5. CASE Kind[t] \notin Derived \cup Coins \cup Lists
  <2>1. f = NewFrame(t, depth, depth, Fields[t][0])
    BY <1>5 DEF Bodies, PlainBodies
  <2>2. 0 \in Variants(t)
    BY <1>5, FirstVariant DEF Variants
  <2>3. QED
    BY <1>2, <1>5, <2>1, <2>2 DEF NewFrame, Lowers
<1>6. QED
  BY <1>1, <1>3, <1>4, <1>5

(* A call at a greater depth or a lower rank has a place further up.        *)
LEMMA PlaceDeeper ==
  ASSUME NEW level \in Nat, NEW place \in Nat, NEW max \in Nat,
         NEW a \in 0 .. max, NEW b \in 0 .. max,
         place <= level + (max - a) + 1
  PROVE  place + 1 <= (level + max + 1) + (max - b) + 1
  OBVIOUS

(* The call of the next field: its depth, and its place on the stack.       *)
LEMMA AdvancedInv ==
  ASSUME IInv, AtField
  PROVE  /\ DepthOf(Advanced)
         /\ Top.inner \in Nat /\ Top.inner <= GenerateDepth
         /\ \A max \in Nat : \A S \in SUBSET Types : \A rank \in RankFunctions(max) :
              Ranks(S, rank, ty_generate_map) =>
                /\ Stacked(S, max, rank, Advanced)
                /\ Within(S, Advanced, Len(Advanced)) =>
                     Fits(max, rank, NextField, Top.inner, Len(Advanced) + 1)
<1>1. TypeOK /\ DepthOf(calls) /\ StackInv
  BY DEF IInv
<1>2. calls \in Seq(Frame) /\ Len(calls) \in 1 .. Len(calls) /\ Top = calls[Len(calls)]
  BY DEF TypeOK, AtField, IInv, Top
<1>3. DepthOf(Advanced)
  BY <1>1, AdvancedType DEF DepthOf
<1>4. Top \in Frame /\ Top.inner \in Nat /\ Top.depth \in Nat /\ Top.ty \in Types
  BY <1>1, AdvancedType DEF Frame
<1>5. Top.inner <= GenerateDepth
  BY <1>1, <1>2 DEF DepthOf
<1>6. ASSUME NEW max \in Nat, NEW S \in SUBSET Types, NEW rank \in RankFunctions(max),
             Ranks(S, rank, ty_generate_map)
      PROVE  /\ Stacked(S, max, rank, Advanced)
             /\ Within(S, Advanced, Len(Advanced)) =>
                  Fits(max, rank, NextField, Top.inner, Len(Advanced) + 1)
  <2>1. Stacked(S, max, rank, calls)
    BY <1>1, <1>6 DEF StackInv
  <2>0. \A i \in 1 .. Len(calls) : Within(S, Advanced, i) => Within(S, calls, i)
    <3>1. Len(calls) \in Nat /\ \A j \in 1 .. Len(calls) : Advanced[j].ty = calls[j].ty
      BY <1>1, <1>2, AdvancedType
    <3>2. \A i \in 1 .. Len(calls) : \A j \in 1 .. i : j \in 1 .. Len(calls)
      BY <3>1
    <3>3. QED
      BY <3>1, <3>2 DEF Within
  <2>2. ASSUME NEW i \in 1 .. Len(Advanced), Within(S, Advanced, i)
        PROVE  Fits(max, rank, Advanced[i].ty, Advanced[i].depth, i)
               /\ Lowers(rank, Advanced[i])
    <3>1. /\ i \in 1 .. Len(calls)
          /\ Advanced[i].ty = calls[i].ty
          /\ Advanced[i].depth = calls[i].depth
          /\ Advanced[i].inner = calls[i].inner
          /\ \A k \in 1 .. Len(Advanced[i].todo) :
               \E j \in 1 .. Len(calls[i].todo) :
                 Advanced[i].todo[k] = calls[i].todo[j]
      BY <1>1, AdvancedType
    <3>2. Fits(max, rank, calls[i].ty, calls[i].depth, i) /\ Lowers(rank, calls[i])
      BY <2>0, <2>1, <2>2, <3>1 DEF Stacked
    <3>3. Lowers(rank, Advanced[i])
      BY <3>1, <3>2 DEF Lowers
    <3>4. QED
      BY <3>1, <3>2, <3>3
  <2>3. ASSUME Within(S, Advanced, Len(Advanced))
        PROVE  Fits(max, rank, NextField, Top.inner, Len(Advanced) + 1)
    <3>1. Within(S, calls, Len(calls)) /\ Top \in Frame
      BY <1>1, <1>2, <2>0, <2>3, AdvancedType
    <3>2. 1 \in 1 .. Len(Top.todo) /\ NextField = Top.todo[1]
      <4>1. Top.todo \in Seq(Types) /\ Top.todo # << >>
        BY <1>1, AdvancedType DEF AtField, Frame
      <4>2. QED
        BY <4>1 DEF NextField
    <3>3. \/ Top.inner = Top.depth + 1
          \/ Top.inner = Top.depth /\ rank[NextField] < rank[Top.ty]
      BY <1>2, <2>1, <3>1, <3>2 DEF Stacked, Lowers
    <3>4. Len(calls) <= Level(max, Top.depth) + (max - rank[Top.ty]) + 1
      BY <1>2, <2>1, <3>1 DEF Stacked, Fits
    <3>5. rank[NextField] \in 0 .. max /\ rank[Top.ty] \in 0 .. max
      BY <1>1, <1>4, AdvancedType DEF RankFunctions
    <3>6. Level(max, Top.depth) \in Nat /\ Level(max, Top.depth + 1) = Level(max, Top.depth) + max + 1
      BY <1>4, LevelSucc
    <3>7. Len(calls) + 1 <= Level(max, Top.inner) + (max - rank[NextField]) + 1
      <4>1. Len(calls) \in Nat
        BY <1>2
      <4>2. CASE Top.inner = Top.depth + 1
        <5>1. Level(max, Top.inner) = Level(max, Top.depth) + max + 1
          BY <4>2, <3>6
        <5>2. QED
          BY <4>1, <5>1, <3>4, <3>5, <3>6, PlaceDeeper
      <4>3. CASE Top.inner = Top.depth /\ rank[NextField] < rank[Top.ty]
        BY <4>1, <4>3, <3>4, <3>5, <3>6
      <4>4. QED
        BY <3>3, <4>2, <4>3
    <3>8. QED
      BY <1>1, <3>7, AdvancedType DEF Fits
  <2>4. QED
    BY <2>2, <2>3 DEF Stacked
<1>7. QED
  BY <1>3, <1>4, <1>5, <1>6

(* A call that fits where it is made leaves the invariant true.             *)
LEMMA EnterInv ==
  ASSUME IInv, NEW t \in Types, NEW depth \in Nat, depth <= GenerateDepth,
         NEW rest \in Seq(Frame), DepthOf(rest),
         \A max \in Nat : \A S \in SUBSET Types : \A rank \in RankFunctions(max) :
           Ranks(S, rank, ty_generate_map) =>
             /\ Stacked(S, max, rank, rest)
             /\ Within(S, rest, Len(rest)) => Fits(max, rank, t, depth, Len(rest) + 1),
         Enter(t, depth, rest)
  PROVE  DepthOf(calls)' /\ StackInv'
<1>1. PICK f \in Bodies(t, depth) : calls' = Append(rest, f)
  BY DEF Enter
<1>2. IsGenerateMap(ty_generate_map) /\ ~ Unregistered(t)
      /\ ty_generate_map' = ty_generate_map
  BY DEF IInv, TypeOK, Enter
<1>3. f \in Frame /\ f.ty = t /\ f.depth = depth
  BY <1>1, <1>2, BodiesType
<1>4. f.depth <= f.inner /\ f.inner <= GenerateDepth
  BY <1>1, <1>2, BodiesDepth
<1>5. /\ Len(calls') = Len(rest) + 1
      /\ calls'[Len(rest) + 1] = f
      /\ \A i \in 1 .. Len(rest) : calls'[i] = rest[i]
      /\ Len(rest) \in Nat
  BY <1>1, <1>3
<1>6. DepthOf(calls)'
  BY <1>4, <1>5 DEF DepthOf
<1>7. ASSUME NEW max \in Nat, NEW S \in SUBSET Types, NEW rank \in RankFunctions(max),
             Ranks(S, rank, ty_generate_map)
      PROVE  Stacked(S, max, rank, calls')
  <2>1. ASSUME NEW i \in 1 .. Len(calls'), Within(S, calls', i)
        PROVE  Fits(max, rank, calls'[i].ty, calls'[i].depth, i) /\ Lowers(rank, calls'[i])
    <3>1. CASE i \in 1 .. Len(rest)
      <4>1. \A j \in 1 .. i : j \in 1 .. Len(rest)
        BY <1>5, <3>1
      <4>2. Within(S, rest, i) /\ calls'[i] = rest[i]
        BY <1>5, <2>1, <3>1, <4>1 DEF Within
      <4>3. Stacked(S, max, rank, rest)
        BY <1>7
      <4>4. QED
        BY <3>1, <4>2, <4>3 DEF Stacked
    <3>2. CASE i = Len(rest) + 1
      <4>1. \A j \in 1 .. Len(rest) : j \in 1 .. i
        BY <1>5, <3>2
      <4>2. i \in 1 .. i
        BY <1>5, <3>2
      <4>3. Within(S, rest, Len(rest)) /\ t \in S /\ calls'[i] = f
        BY <1>3, <1>5, <2>1, <3>2, <4>1, <4>2 DEF Within
      <4>4. Lowers(rank, f)
        BY <1>1, <1>2, <1>7, <4>3, BodiesLower
      <4>5. Fits(max, rank, f.ty, f.depth, i)
        BY <1>3, <1>7, <3>2, <4>3
      <4>6. QED
        BY <4>3, <4>4, <4>5
    <3>3. i \in 1 .. Len(rest) \/ i = Len(rest) + 1
      BY <1>5
    <3>4. QED
      BY <3>1, <3>2, <3>3
  <2>2. QED
    BY <2>1 DEF Stacked
<1>8. StackInv'
  BY <1>2, <1>7 DEF StackInv
<1>9. QED
  BY <1>6, <1>8

(* Every step keeps the depth limit and every call in its place.            *)
LEMMA StartInv ==
  ASSUME IInv, NEW t \in Types, Start(t)
  PROVE  IInv'
<1>1. TypeOK /\ DepthOf(calls) /\ StackInv /\ TypeOK'
  BY StartType DEF IInv
<1>2. Enter(t, 0, << >>) \/ GiveUp(t, 0, << >>) \/ Panic(t, << >>)
  BY DEF Start
<1>3. << >> \in Seq(Frame) /\ 0 \in Nat /\ 0 <= GenerateDepth /\ DepthOf(<< >>)
  BY DepthAssumption DEF DepthOf
<1>4. ASSUME NEW max \in Nat, NEW S, NEW rank \in RankFunctions(max)
      PROVE  Stacked(S, max, rank, << >>) /\ Fits(max, rank, t, 0, Len(<< >>) + 1)
  <2>1. rank[t] \in 0 .. max
    BY DEF RankFunctions
  <2>2. QED
    BY <2>1 DEF Stacked, Fits, Level
<1>5. CASE Enter(t, 0, << >>)
  BY <1>1, <1>3, <1>4, <1>5, EnterInv DEF IInv
<1>6. CASE GiveUp(t, 0, << >>)
  BY <1>1, <1>6 DEF GiveUp, IInv, DepthOf, StackInv, Stacked
<1>7. CASE Panic(t, << >>)
  BY <1>1, <1>7 DEF Panic, IInv, DepthOf, StackInv
<1>8. QED
  BY <1>2, <1>5, <1>6, <1>7

LEMMA UnmovedInv ==
  ASSUME IInv, TypeOK', calls' = calls, ty_generate_map' = ty_generate_map
  PROVE  IInv'
BY DEF IInv, DepthOf, StackInv

LEMMA GenStepInv == IInv /\ GenStep => IInv'
<1> SUFFICES ASSUME IInv, GenStep PROVE IInv'
  OBVIOUS
<1>1. TypeOK /\ DepthOf(calls) /\ StackInv /\ TypeOK'
  BY GenStepType DEF IInv
<1>2. CASE Descend
  <2>1. AtField /\ Enter(NextField, Top.inner, Advanced)
    BY <1>2 DEF Descend
  <2>2. NextField \in Types /\ Advanced \in Seq(Frame)
    BY <1>1, <2>1, AdvancedType
  <2>3. QED
    BY <1>1, <2>1, <2>2, AdvancedInv, EnterInv DEF IInv
<1>3. CASE Fail
  BY <1>1, <1>3 DEF Fail, GiveUp, IInv, DepthOf, StackInv, Stacked
<1>4. CASE Crash
  BY <1>1, <1>4, UnmovedInv DEF Crash, Panic
<1>5. CASE RunOut
  BY <1>1, <1>5, UnmovedInv DEF RunOut, Overflow
<1>6. CASE Return
  <2>1. calls \in Seq(Frame) /\ Len(calls) > 0 /\ calls' = Callers
        /\ ty_generate_map' = ty_generate_map
    BY <1>1, <1>6 DEF TypeOK, Return
  <2>2. /\ Len(Callers) = Len(calls) - 1
        /\ \A i \in 1 .. Len(calls) - 1 : Callers[i] = calls[i]
    BY <2>1, PopProperties DEF Callers
  <2>3. Len(calls) \in Nat
    BY <2>1
  <2>4. DepthOf(calls)'
    BY <1>1, <2>1, <2>2, <2>3 DEF DepthOf
  <2>5. StackInv'
    <3>1. \A i \in 1 .. Len(Callers) :
            i \in 1 .. Len(calls) /\ Callers[i] = calls[i] /\ \A j \in 1 .. i : j \in 1 .. Len(Callers)
      BY <2>2, <2>3
    <3>2. \A S : \A i \in 1 .. Len(Callers) : Within(S, Callers, i) => Within(S, calls, i)
      BY <2>2, <3>1 DEF Within
    <3>3. \A S, max, rank : Stacked(S, max, rank, calls) => Stacked(S, max, rank, Callers)
      BY <3>1, <3>2 DEF Stacked
    <3>4. QED
      BY <1>1, <2>1, <3>3 DEF StackInv
  <2>6. QED
    BY <1>1, <2>4, <2>5 DEF IInv
<1>7. QED
  BY <1>2, <1>3, <1>4, <1>5, <1>6 DEF GenStep

LEMMA IInvStep == IInv /\ [GenNext]_genVars => IInv'
<1> SUFFICES ASSUME IInv, [GenNext]_genVars PROVE IInv'
  OBVIOUS
<1>1. CASE \E t \in Roots : Start(t)
  BY <1>1, RootsAssumption, StartInv
<1>2. CASE UNCHANGED genVars
  BY <1>2, TypeStep, UnmovedInv DEF IInv, genVars
<1>3. QED
  BY <1>1, <1>2, GenStepInv DEF GenNext

(* No call is active at first.                                              *)
LEMMA NoCallsInv == TypeOK /\ calls = << >> => IInv
BY DEF IInv, DepthOf, StackInv, Stacked

LEMMA IInvInit == GenInit => IInv
<1> SUFFICES ASSUME GenInit PROVE IInv
  OBVIOUS
<1>1. TypeOK
  BY GenerateMapsAssumption DEF GenInit, TypeOK, Outcomes
<1>2. QED
  BY <1>1, NoCallsInv DEF GenInit

(* With a rank up to max for the types of the active calls, no more than    *)
(* (GenerateDepth + 1) * (max + 1) calls are ever active.                   *)
LEMMA RankedNeverRunsOut ==
  ASSUME IInv, NEW max \in Nat, NEW S \in SUBSET Types, NEW rank \in RankFunctions(max),
         Ranks(S, rank, ty_generate_map), Within(S, calls, Len(calls)),
         StackLimit >= (GenerateDepth + 1) * (max + 1)
  PROVE  ~ RunOut
<1> SUFFICES ASSUME RunOut PROVE FALSE
  OBVIOUS
<1>1. AtField /\ Len(Advanced) = StackLimit /\ TypeOK
  BY DEF RunOut, Overflow, IInv
<1>2. Level(max, GenerateDepth) + max + 1 <= StackLimit
  BY LevelSucc, DepthAssumption DEF Level
<1>3. Within(S, Advanced, Len(Advanced))
  BY <1>1, AdvancedType DEF Within
<1>4. Fits(max, rank, NextField, Top.inner, StackLimit + 1)
  BY <1>1, <1>3, AdvancedInv
<1>5. Top.inner \in Nat /\ Level(max, Top.inner) <= Level(max, GenerateDepth)
  BY <1>1, AdvancedInv, LevelMonotone, DepthAssumption
<1>6. rank[NextField] \in 0 .. max
  BY <1>1, AdvancedType DEF RankFunctions
<1>7. Level(max, Top.inner) \in Nat /\ Level(max, GenerateDepth) \in Nat
  BY <1>5, LevelSucc, DepthAssumption
<1>8. StackLimit + 1 <= Level(max, GenerateDepth) + max + 1
  BY <1>4, <1>5, <1>6, <1>7, StackAssumption DEF Fits
<1>9. QED
  BY <1>2, <1>7, <1>8, StackAssumption

----------------------------------------------------------------------------
(* No call is ever made deeper than the depth limit.                        *)
THEOREM DepthLimited == GenSpec => []DepthBounded
<1>1. IInv => DepthBounded
  BY DEF IInv, DepthOf, DepthBounded
<1>2. QED
  BY <1>1, IInvInit, IInvStep, PTL DEF GenSpec

(* With a rank for the types, no more than (GenerateDepth + 1) * (MaxRank   *)
(* + 1) calls are ever active, so a stack of that many calls never runs out.*)
THEOREM StackSuffices ==
  ASSUME StackLimit >= (GenerateDepth + 1) * (MaxRank + 1)
  PROVE  GenSpec => []NoStackOverflow
<1>1. GenInit => NoStackOverflow
  BY DEF GenInit, NoStackOverflow
<1>2. ASSUME IInv, NoStackOverflow, [GenNext]_genVars
      PROVE  NoStackOverflow'
  <2>1. CASE RunOut /\ Ranked(ty_generate_map)
    <3>1. PICK rank \in RankFunctions(MaxRank) : Ranks(Types, rank, ty_generate_map)
      BY <2>1 DEF Ranked, RankFunctions
    <3>2. Within(Types, calls, Len(calls))
      <4>1. calls \in Seq(Frame)
        BY <1>2 DEF IInv, TypeOK
      <4>2. \A j \in 1 .. Len(calls) : calls[j] \in Frame
        BY <4>1
      <4>3. QED
        BY <4>2 DEF Within, Frame
    <3>3. QED
      BY <1>2, <2>1, <3>1, <3>2, RankedNeverRunsOut, RankAssumption
  <2>2. CASE RunOut /\ ~ Ranked(ty_generate_map)
    BY <2>2 DEF RunOut, Overflow, NoStackOverflow, Ranked, Ranks, Deepens
  <2>3. CASE ~ RunOut /\ [GenNext]_genVars
    BY <1>2, <2>3 DEF GenNext, GenStep, genVars, Start, Enter, GiveUp, Panic, Descend,
       Fail, Crash, Return, NoStackOverflow, Ranked, Ranks, Deepens
  <2>4. QED
    BY <1>2, <2>1, <2>2, <2>3
<1>3. QED
  BY <1>1, <1>2, IInvInit, IInvStep, PTL DEF GenSpec
=============================================================================
