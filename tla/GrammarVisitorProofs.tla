------------------------ MODULE GrammarVisitorProofs ------------------------
(***************************************************************************)
(* One client's Visitor for every grammar: what registration leaves is a    *)
(* map calculate_recursion accepts, what that leaves is a map Generation    *)
(* starts from, and a generation meets nothing but types of the graph.      *)
(* The proofs of the three parts are used as they stand.                    *)
(***************************************************************************)
EXTENDS GrammarVisitor, RegistrationProofs, RecursionProofs, GenerationProofs

----------------------------------------------------------------------------
(* From registration to the analysis                                        *)

(* Every entry was owed: it is one of a variant and a type it holds.        *)
LEMMA EntriesAreOwed ==
  ASSUME MapInv, NEW p \in DOMAIN ty_map, NEW v \in DOMAIN ty_map[p]
  PROVE  /\ (p = RootId /\ v = 0) \/ (p \in Types /\ v \in Variants(p))
         /\ ty_map[p][v] \subseteq Ids
<1>1. PICK u : u \in ty_map[p][v]
  BY DEF MapInv, NoneEmpty
<1>2. Owed(p, v, u)
  BY <1>1 DEF MapInv, NothingMissing, Records
<1>3. (p = RootId /\ v = 0) \/ (p \in Types /\ v \in Variants(p))
  BY <1>2 DEF Owed, Holds
<1>4. ty_map[p][v] \subseteq Ids
  BY DEF MapInv, RegInv, RegTypeOK
<1>5. QED
  BY <1>3, <1>4

LEMMA IdsAreNumbers == Ids \subseteq Int /\ IsFiniteSet(Ids) /\ RootId \in Int
<1>1. Ids \subseteq Int /\ RootId \in Int
  BY TypesAssumption, PhantomAssumption DEF Ids, RootId
<1>2. IsFiniteSet(Types \cup {Phantom})
  BY FiniteAssumption, FS_AddElement
<1>3. QED
  BY <1>1, <1>2 DEF Ids

LEMMA RegistrationLeavesATyMap == MapInv => IsTyMap(ty_map)
<1> SUFFICES ASSUME MapInv PROVE IsTyMap(ty_map)
  OBVIOUS
<1>1. DOMAIN ty_map \subseteq Types \cup {RootId}
  BY DEF MapInv, RegInv, RegTypeOK
<1>2. IsFiniteSet(DOMAIN ty_map) /\ DOMAIN ty_map \subseteq Int
  <2>1. IsFiniteSet(Types \cup {RootId})
    BY FiniteAssumption, FS_AddElement
  <2>2. IsFiniteSet(DOMAIN ty_map)
    BY <1>1, <2>1, FS_Subset
  <2>3. QED
    BY <1>1, <2>2, IdsAreNumbers DEF Ids
<1>3. ASSUME NEW t \in DOMAIN ty_map
      PROVE  /\ IsFiniteSet(DOMAIN ty_map[t]) /\ DOMAIN ty_map[t] \subseteq Nat
             /\ \A v \in DOMAIN ty_map[t] :
                  /\ IsFiniteSet(ty_map[t][v]) /\ ty_map[t][v] \subseteq Int
                  /\ {<<t, Entry>>, <<t, v>>} \cup {<<u, Entry>> : u \in ty_map[t][v]} \subseteq Node
  <2>1. IsFiniteSet(DOMAIN ty_map[t]) /\ DOMAIN ty_map[t] \subseteq Nat
    <3>1. CASE t = RootId
      <4>1. DOMAIN ty_map[t] \subseteq {0}
        BY <3>1, EntriesAreOwed, TypesAssumption
      <4>2. IsFiniteSet({0})
        BY FS_Singleton
      <4>3. QED
        BY <4>1, <4>2, FS_Subset
    <3>2. CASE t # RootId
      <4>1. t \in Types /\ DOMAIN ty_map[t] \subseteq Variants(t)
        BY <1>1, <3>2, EntriesAreOwed
      <4>2. IsFiniteSet(Variants(t)) /\ Variants(t) \subseteq Nat
        BY <4>1, FiniteAssumption, FieldsAssumption DEF Variants
      <4>3. QED
        BY <4>1, <4>2, FS_Subset
    <3>3. QED
      BY <3>1, <3>2
  <2>2. ASSUME NEW v \in DOMAIN ty_map[t]
        PROVE  /\ IsFiniteSet(ty_map[t][v]) /\ ty_map[t][v] \subseteq Int
               /\ {<<t, Entry>>, <<t, v>>} \cup {<<u, Entry>> : u \in ty_map[t][v]} \subseteq Node
    <3>1. ty_map[t][v] \subseteq Ids
      BY EntriesAreOwed
    <3>2. IsFiniteSet(ty_map[t][v]) /\ ty_map[t][v] \subseteq Int
      BY <3>1, IdsAreNumbers, FS_Subset
    <3>3. <<t, Entry>> \in Node /\ <<t, v>> \in Node
      <4>1. t \in Ids \cup {RootId}
        BY <1>1 DEF Ids
      <4>2. (t = RootId /\ v = 0) \/ (t \in Types /\ v \in Variants(t))
        BY EntriesAreOwed
      <4>3. QED
        BY <4>1, <4>2, VisitorNodesAssumption
    <3>4. \A u \in ty_map[t][v] : <<u, Entry>> \in Node
      BY <3>1, VisitorNodesAssumption
    <3>5. QED
      BY <3>2, <3>3, <3>4
  <2>3. QED
    BY <2>1, <2>2
<1>4. QED
  BY <1>2, <1>3 DEF IsTyMap

----------------------------------------------------------------------------
(* The type graph and the types a generation meets                          *)

LEMMA ReachableIsClosed ==
  ASSUME root \in RegRoots
  PROVE  /\ Reachable \subseteq Types
         /\ Strip[root] \in Reachable
         /\ \A t \in Reachable : ChildTypes(t) \subseteq Reachable
<1>1. root \in Types
  BY RegRootsAssumption
<1>2. Strip[root] \in Types
  BY <1>1, StripEnds
<1>3. Reachable = Least({Strip[root]})
  BY <1>2, ClosureIsLeast DEF Reachable
<1>4. Strip[root] \in Least({Strip[root]}) /\ Least({Strip[root]}) \subseteq Types
  BY <1>2 DEF Least
<1>5. ASSUME NEW t \in Least({Strip[root]}), NEW c \in ChildTypes(t)
      PROVE  c \in Least({Strip[root]})
  BY HoldsAre DEF Least, ClosedSet
<1>6. QED
  BY <1>3, <1>4, <1>5

(* The types a value of type t is made of                                   *)
ClosedTypes(T) == \A t \in T : \A v \in Variants(t) : FieldTypes(t, v) \subseteq T

GrammarOf(t) == {u \in Types : \A T \in SUBSET Types : t \in T /\ ClosedTypes(T) => u \in T}

LEMMA GrammarIsClosed ==
  ASSUME NEW t \in Types
  PROVE  t \in GrammarOf(t) /\ GrammarOf(t) \subseteq Types /\ ClosedTypes(GrammarOf(t))
<1>1. ASSUME NEW u \in GrammarOf(t), NEW v \in Variants(u), NEW c \in FieldTypes(u, v)
      PROVE  c \in GrammarOf(t)
  <2>1. c \in Types
    BY FieldsAssumption DEF GrammarOf, FieldTypes, Variants
  <2>2. QED
    BY <2>1 DEF GrammarOf, ClosedTypes
<1>2. QED
  BY <1>1 DEF GrammarOf, ClosedTypes

(* A type of the grammar that stands in the graph, in boxes and vectors or  *)
(* without                                                                  *)
Met(t) == t \in GrammarOf(root) /\ Strip[t] \in Reachable

LEMMA MetIsAType == \A t : Met(t) => t \in Types
BY DEF Met, GrammarOf

(* A variant with a field, and one of an enum without, has an entry.        *)
LEMMA ChildrenOf ==
  ASSUME NEW t \in Types, NEW v \in Variants(t)
  PROVE  /\ \A i \in 1 .. Len(Fields[t][v]) : Strip[Fields[t][v][i]] \in Children(t, v)
         /\ Fields[t][v] # << >> \/ Kind[t] \in Enums => Children(t, v) # {}
<1>1. Fields[t][v] \in Seq(Types) /\ Len(Fields[t][v]) \in Nat
  BY FieldsAssumption DEF Variants
<1>2. CASE Fields[t][v] # << >>
  <2>1. VariantJobs(t, v) # << Unit(t, v) >>
    <3>1. VariantJobs(t, v) = Visits(t, v)
      BY <1>2 DEF VariantJobs
    <3>2. 1 \in 1 .. Len(Fields[t][v])
      BY <1>1, <1>2
    <3>3. Visits(t, v)[1].do = "visit"
      BY <3>2 DEF Visits, Visit
    <3>4. << Unit(t, v) >>[1].do = "unit"
      BY DEF Unit
    <3>5. QED
      BY <3>1, <3>3, <3>4
  <2>2. Children(t, v) = {Strip[c] : c \in FieldTypes(t, v)}
    BY <2>1 DEF Children
  <2>3. \A i \in 1 .. Len(Fields[t][v]) : Strip[Fields[t][v][i]] \in Children(t, v)
    BY <2>2 DEF FieldTypes
  <2>4. 1 \in 1 .. Len(Fields[t][v])
    BY <1>1, <1>2
  <2>5. QED
    BY <2>3, <2>4
<1>3. CASE Fields[t][v] = << >>
  <2>1. Kind[t] \in Enums => Children(t, v) = {Phantom}
    BY <1>3 DEF Children, VariantJobs
  <2>2. QED
    BY <1>3, <2>1
<1>4. QED
  BY <1>2, <1>3

(* What a type of the graph holds is in the graph, unless a Cow hides it.   *)
LEMMA HeldIsMet ==
  ASSUME root \in RegRoots, ~ HasOpaqueType,
         NEW t, Met(t), NEW v \in Variants(t), NEW i \in 1 .. Len(Fields[t][v])
  PROVE  Met(Fields[t][v][i])
<1> DEFINE c == Fields[t][v][i]
<1>1. t \in Types /\ Strip[t] \in Reachable /\ t \in GrammarOf(root)
  BY MetIsAType DEF Met
<1>2. c \in Types /\ c \in GrammarOf(root)
  <2>1. c \in FieldTypes(t, v)
    BY DEF FieldTypes
  <2>2. QED
    BY <1>1, <2>1, RegRootsAssumption, GrammarIsClosed DEF ClosedTypes
<1>3. CASE Transparent(t)
  <2>1. Kind[t] \notin Enums \cup Coins
    BY <1>3 DEF Transparent, Boxes, Lists, Enums, Coins
  <2>2. v = 0 /\ Len(Fields[t][0]) = 1
    BY <1>1, <1>3, <2>1, ShapeAssumption, ListAssumption DEF Variants, Transparent
  <2>3. i = 1
    BY <2>2
  <2>4. Strip[t] = Strip[c]
    BY <1>1, <1>3, <2>2, <2>3, StripFollows
  <2>5. QED
    BY <1>1, <1>2, <2>4 DEF Met
<1>4. CASE ~ Transparent(t) /\ Walked(t)
  <2>1. Strip[t] = t
    BY <1>1, <1>4, StripFollows
  <2>2. Strip[c] \in Children(t, v)
    BY <1>1, ChildrenOf
  <2>3. Strip[c] \in Types
    BY <1>2, StripEnds
  <2>4. Strip[c] \in ChildTypes(t)
    BY <1>1, <1>4, <2>2, <2>3, HoldsAre DEF Holds
  <2>5. QED
    BY <1>1, <1>2, <2>1, <2>4, ReachableIsClosed DEF Met
<1>5. CASE ~ Transparent(t) /\ ~ Walked(t)
  <2>1. Strip[t] = t
    BY <1>1, <1>5, StripFollows
  <2>2. Kind[t] \notin Cows
    BY <1>1, <2>1 DEF HasOpaqueType, Opaque
  <2>3. Kind[t] \in Leaves
    BY <1>5, <2>2 DEF Walked
  <2>4. v = 0 /\ Fields[t][0] = << >>
    BY <1>1, <2>3, ShapeAssumption DEF Variants, Leaves, Enums, Coins
  <2>5. QED
    BY <2>4
<1>6. QED
  BY <1>3, <1>4, <1>5

(* A derived type of the graph has an entry, and every variant in it.       *)
LEMMA DerivedIsMapped ==
  ASSUME MapInv, Registered, NEW t \in DOMAIN ty_map, t \in DerivedTypes
  PROVE  DOMAIN ty_map[t] = Variants(t)
<1>1. ty_map = TypeGraph /\ t \in Types /\ Kind[t] \in Derived /\ t # RootId
  BY MapAtTheEnd, TypesAssumption DEF MapsTheGrammar, DerivedTypes
<1>2. t \in Parents /\ DOMAIN ty_map[t] = {w \in Variants(t) : Children(t, w) # {}}
  BY <1>1 DEF TypeGraph
<1>3. CASE Kind[t] \in Enums
  BY <1>1, <1>2, <1>3, ChildrenOf
<1>4. CASE Kind[t] \in Structs
  <2>1. Variants(t) = {0}
    BY <1>1, <1>4, ShapeAssumption DEF Variants, Structs, Enums, Coins
  <2>2. QED
    BY <1>2, <2>1 DEF Parents
<1>5. QED
  BY <1>1, <1>3, <1>4 DEF Derived

LEMMA MetIsMapped ==
  ASSUME MapInv, Registered, ~ HasOpaqueType, NEW t, Met(t), Kind[t] \in Derived
  PROVE  t \in DOMAIN ty_map
<1>1. t \in Types /\ ~ Transparent(t) /\ Walked(t)
  BY MetIsAType DEF Transparent, Walked, Derived, Structs, Enums, Boxes, Lists, Cows, Leaves
<1>2. t \in Reachable
  BY <1>1, StripFollows DEF Met
<1>3. ~ Opaque(t)
  BY <1>2 DEF HasOpaqueType
<1>4. \E v \in Variants(t) : Children(t, v) # {}
  <2>1. CASE Kind[t] \in Enums
    BY <1>1, <1>3, <2>1, ChildrenOf DEF Opaque
  <2>2. CASE Kind[t] \in Structs
    <3>1. 0 \in Variants(t)
      BY <1>1, <2>2, ShapeAssumption DEF Variants, Structs, Enums, Coins
    <3>2. Fields[t][0] # << >>
      BY <1>3, <2>2 DEF Opaque
    <3>3. QED
      BY <1>1, <3>1, <3>2, ChildrenOf
  <2>3. QED
    BY <2>1, <2>2 DEF Derived
<1>5. t \in Parents
  BY <1>1, <1>2, <1>4 DEF Parents
<1>6. QED
  BY <1>5, MapAtTheEnd DEF MapsTheGrammar, TypeGraph

----------------------------------------------------------------------------
(* From the analysis to generation                                          *)

LEMMA AnalysisLeavesAGenerateMap ==
  ASSUME MapInv, Registered, RecInv, phase = "calculated"
  PROVE  /\ IsGenerateMap(ty_generate_map)
         /\ DOMAIN ty_generate_map = DOMAIN ty_map
<1>1. ty_generate_map = [t \in DOMAIN ty_map |-> SplitVariants(t)]
  BY DEF RecInv
<1>2. ASSUME NEW t \in DOMAIN ty_generate_map \cap DerivedTypes
      PROVE  /\ ty_generate_map[t] \in Marking(t)
             /\ ty_generate_map[t].nonrec = Variants(t) \ ty_generate_map[t].rec
  <2>1. t \in DOMAIN ty_map /\ t \in DerivedTypes
    BY <1>1
  <2>2. DOMAIN ty_map[t] = Variants(t)
    BY <2>1, DerivedIsMapped
  <2>3. MarkedOf(t) \subseteq DOMAIN ty_map[t]
    BY MarksAreVariants DEF MarkedOf
  <2>4. ty_generate_map[t] = [rec |-> MarkedOf(t), nonrec |-> Variants(t) \ MarkedOf(t)]
    BY <1>1, <2>1, <2>2 DEF SplitVariants
  <2>5. QED
    BY <2>2, <2>3, <2>4 DEF Marking
<1>3. QED
  BY <1>1, <1>2 DEF IsGenerateMap

(* The active calls are of types of the graph, and so is what they have yet *)
(* to generate.                                                             *)
FrameMet(f) == Met(f.ty) /\ \A k \in 1 .. Len(f.todo) : Met(f.todo[k])
CallsMet(cs) == \A i \in 1 .. Len(cs) : FrameMet(cs[i])

LEMMA BodiesMet ==
  ASSUME root \in RegRoots, ~ HasOpaqueType, TypeOK, NEW t, Met(t), NEW depth \in Nat,
         ~ Unregistered(t), NEW f \in Bodies(t, depth)
  PROVE  FrameMet(f)
<1>1. t \in Types
  BY MetIsAType
<1>2. f.ty = t
  BY <1>1, BodiesType DEF TypeOK
<1>3. PICK v \in Variants(t) :
        \/ f.todo = Fields[t][v]
        \/ Len(Fields[t][v]) = 1 /\ \E n \in 0 .. IterateDepth : f.todo = [i \in 1 .. n |-> Fields[t][v][1]]
  <2>1. CASE Kind[t] \in Derived
    <3>1. PICK v \in Candidates(t, depth) :
            f = NewFrame(t, depth, InnerDepth(t, v, depth), Fields[t][v])
      BY <2>1 DEF Bodies, DerivedBodies
    <3>2. v \in Variants(t)
      BY <1>1, <3>1, <2>1 DEF TypeOK, Candidates, IsGenerateMap, Marking, Unregistered, DerivedTypes
    <3>3. QED
      BY <3>1, <3>2 DEF NewFrame
  <2>2. CASE Kind[t] \in Coins
    <3>1. Kind[t] \notin Derived
      BY <2>2 DEF Coins, Derived, Structs, Enums
    <3>2. PICK v \in Variants(t) : f = NewFrame(t, depth, depth, Fields[t][v])
      BY <2>2, <3>1 DEF Bodies, CoinBodies
    <3>3. QED
      BY <3>2 DEF NewFrame
  <2>3. CASE Kind[t] \in Lists
    <3>1. Kind[t] \notin Derived /\ Kind[t] \notin Coins
      BY <2>3 DEF Coins, Derived, Structs, Enums, Lists
    <3>2. PICK n \in 0 .. IterateDepth :
            f = NewFrame(t, depth, depth, [i \in 1 .. n |-> Fields[t][0][1]])
      BY <2>3, <3>1 DEF Bodies, ListBodies
    <3>3. 0 \in Variants(t) /\ Len(Fields[t][0]) = 1
      BY <1>1, <2>3, <3>1, FirstVariant, ListAssumption DEF Variants
    <3>4. QED
      BY <3>2, <3>3 DEF NewFrame
  <2>4. CASE Kind[t] \notin Derived \cup Coins \cup Lists
    <3>1. f = NewFrame(t, depth, depth, Fields[t][0])
      BY <2>4 DEF Bodies, PlainBodies
    <3>2. 0 \in Variants(t)
      BY <1>1, <2>4, FirstVariant DEF Variants
    <3>3. QED
      BY <3>1, <3>2 DEF NewFrame
  <2>5. QED
    BY <2>1, <2>2, <2>3, <2>4
<1>4. \A i \in 1 .. Len(Fields[t][v]) : Met(Fields[t][v][i])
  BY HeldIsMet
<1>5. CASE f.todo = Fields[t][v]
  BY <1>2, <1>4, <1>5 DEF FrameMet
<1>6. CASE Len(Fields[t][v]) = 1 /\ \E n \in 0 .. IterateDepth : f.todo = [i \in 1 .. n |-> Fields[t][v][1]]
  <2>1. PICK n \in 0 .. IterateDepth : f.todo = [i \in 1 .. n |-> Fields[t][v][1]]
    BY <1>6
  <2>2. n \in Nat
    BY <2>1, DepthAssumption
  <2>3. Len(f.todo) = n /\ \A k \in 1 .. n : f.todo[k] = Fields[t][v][1]
    BY <2>1, <2>2
  <2>4. Met(Fields[t][v][1])
    BY <1>4, <1>6
  <2>5. QED
    BY <1>2, <2>3, <2>4 DEF FrameMet
<1>7. QED
  BY <1>3, <1>5, <1>6

(* A call of a type of the graph is no panic and leaves such calls.         *)
LEMMA CallMet ==
  ASSUME MapInv, Registered, RecInv, phase = "calculated", ~ HasOpaqueType, TypeOK,
         NEW t, Met(t), NEW depth \in Nat, NEW rest \in Seq(Frame), CallsMet(rest)
  PROVE  /\ ~ Panic(t, rest)
         /\ Enter(t, depth, rest) => CallsMet(calls') /\ outcome' = "running"
         /\ GiveUp(t, depth, rest) => CallsMet(calls') /\ outcome' = "none"
<1>1. ~ Unregistered(t)
  BY MetIsMapped, AnalysisLeavesAGenerateMap DEF Unregistered
<1>2. ASSUME Enter(t, depth, rest) PROVE CallsMet(calls') /\ outcome' = "running"
  <2>1. PICK f \in Bodies(t, depth) : calls' = Append(rest, f)
    BY <1>2 DEF Enter
  <2>2. FrameMet(f)
    BY <1>1, BodiesMet DEF MapInv, RegInv, RegTypeOK
  <2>3. f \in Frame
    BY <1>1, BodiesType, MetIsAType DEF TypeOK
  <2>4. ASSUME NEW i \in 1 .. Len(Append(rest, f)) PROVE FrameMet(Append(rest, f)[i])
    <3>1. CASE i \in 1 .. Len(rest)
      <4>1. Append(rest, f)[i] = rest[i]
        BY <2>3, <3>1
      <4>2. QED
        BY <3>1, <4>1 DEF CallsMet
    <3>2. CASE i \notin 1 .. Len(rest)
      <4>1. Append(rest, f)[i] = f
        BY <2>3, <2>4, <3>2
      <4>2. QED
        BY <2>2, <4>1
    <3>3. QED
      BY <3>1, <3>2
  <2>5. QED
    BY <1>2, <2>1, <2>4 DEF Enter, CallsMet
<1>3. ASSUME GiveUp(t, depth, rest) PROVE CallsMet(calls') /\ outcome' = "none"
  BY <1>3 DEF GiveUp, CallsMet
<1>4. QED
  BY <1>1, <1>2, <1>3 DEF Panic

----------------------------------------------------------------------------
(* Where the stack suffices                                                 *)

(* The types a call of t's generate calls at the depth it was given.        *)
Shallow(t) ==
  {c \in Types : \E v \in Variants(t) : c \in FieldTypes(t, v) /\ ~ Deepens(ty_generate_map, t, v)}

ClosedShallow(T) == \A t \in T : Shallow(t) \subseteq T

ShallowBelow(t) ==
  {u \in Types : \A T \in SUBSET Types : Shallow(t) \subseteq T /\ ClosedShallow(T) => u \in T}

(* x leads to y in the type graph.                                          *)
LeadsTo(x, y) == \A T : x \in T /\ ClosedUnder(T) => y \in T

(* Where no type is below itself, how many types are below it is a rank.    *)
LEMMA LoopFreeIsRanked ==
  ASSUME NEW S \in SUBSET Types, IsFiniteSet(S), ClosedTypes(S), S # {},
         \A t \in S : t \notin ShallowBelow(t)
  PROVE  /\ Cardinality(S) - 1 \in Nat
         /\ \E rank \in RankFunctions(Cardinality(S) - 1) : Ranks(S, rank, ty_generate_map)
<1> DEFINE max == Cardinality(S) - 1
           rank == [t \in Types |-> IF t \in S THEN Cardinality(ShallowBelow(t)) ELSE 0]
<1>1. Cardinality(S) \in Nat /\ Cardinality(S) # 0
  BY FS_CardinalityType, FS_EmptySet
<1>2. max \in Nat
  BY <1>1
<1>3. ASSUME NEW t \in S
      PROVE  /\ ShallowBelow(t) \subseteq S /\ IsFiniteSet(ShallowBelow(t))
             /\ Cardinality(ShallowBelow(t)) \in 0 .. max
  <2>1. \A s \in S : Shallow(s) \subseteq S
    BY DEF Shallow, ClosedTypes
  <2>2. ShallowBelow(t) \subseteq S
    BY <2>1 DEF ShallowBelow, ClosedShallow
  <2>3. IsFiniteSet(S \ {t}) /\ Cardinality(S \ {t}) = max
    BY FS_RemoveElement
  <2>4. ShallowBelow(t) \subseteq S \ {t}
    BY <2>2
  <2>5. IsFiniteSet(ShallowBelow(t)) /\ Cardinality(ShallowBelow(t)) <= max
    BY <2>3, <2>4, FS_Subset
  <2>6. Cardinality(ShallowBelow(t)) \in Nat
    BY <2>5, FS_CardinalityType
  <2> HIDE DEF max
  <2>7. QED
    BY <1>2, <2>2, <2>5, <2>6
<1>4. rank \in RankFunctions(max)
  <2>1. 0 \in 0 .. max
    BY <1>2
  <2>2. \A t \in Types : (IF t \in S THEN Cardinality(ShallowBelow(t)) ELSE 0) \in 0 .. max
    BY <1>3, <2>1
  <2> HIDE DEF max
  <2>3. QED
    BY <2>2 DEF RankFunctions
<1>5. ASSUME NEW t \in S, NEW v \in Variants(t), NEW c \in FieldTypes(t, v),
             ~ Deepens(ty_generate_map, t, v)
      PROVE  rank[c] < rank[t]
  <2>1. c \in S
    BY DEF ClosedTypes
  <2>2. c \in Shallow(t)
    BY <1>5, <2>1 DEF Shallow
  <2>3. ShallowBelow(c) \subseteq ShallowBelow(t)
    BY <2>2 DEF ShallowBelow, ClosedShallow
  <2>4. c \in ShallowBelow(t) /\ c \notin ShallowBelow(c)
    BY <2>1, <2>2 DEF ShallowBelow
  <2>5. Cardinality(ShallowBelow(c)) <= Cardinality(ShallowBelow(t))
        /\ Cardinality(ShallowBelow(c)) # Cardinality(ShallowBelow(t))
    BY <1>3, <2>3, <2>4, FS_Subset
  <2>6. Cardinality(ShallowBelow(c)) \in Nat /\ Cardinality(ShallowBelow(t)) \in Nat
    BY <1>3, <2>1
  <2>7. Cardinality(ShallowBelow(c)) < Cardinality(ShallowBelow(t))
    BY <2>5, <2>6
  <2>8. rank[c] = Cardinality(ShallowBelow(c)) /\ rank[t] = Cardinality(ShallowBelow(t))
    BY <2>1
  <2>9. QED
    BY <2>7, <2>8
<1> HIDE DEF rank, max
<1>6. Ranks(S, rank, ty_generate_map)
  BY <1>5 DEF Ranks
<1>7. QED
  BY <1>2, <1>4, <1>6 DEF max

(* A step that does not go deeper, from a type of the graph: what it leads  *)
(* to, without boxes and vectors, is the next type of the graph, and on a   *)
(* cycle of the graph the step is one that is not bound to be limited.      *)
LEMMA ShallowStep ==
  ASSUME MapInv, Registered, RecInv, phase = "calculated", ~ HasOpaqueType,
         NEW x, Met(x), ~ Transparent(x), NEW d \in Shallow(x)
  PROVE  /\ Met(d) /\ Strip[x] = x
         /\ LeadsTo(x, Strip[d])
         /\ LeadsTo(Strip[d], x) => Strip[d] \in Unlimited(x)
<1> DEFINE y == Strip[d]
<1>1. /\ root \in RegRoots /\ x \in Types /\ ty_map = TypeGraph
      /\ IsGenerateMap(ty_generate_map) /\ DOMAIN ty_generate_map = DOMAIN ty_map
  BY MetIsAType, MapAtTheEnd, AnalysisLeavesAGenerateMap
     DEF MapsTheGrammar, MapInv, RegInv, RegTypeOK
<1>2. Strip[x] = x /\ x \in Reachable
  BY <1>1, StripFollows DEF Met
<1>3. PICK v \in Variants(x) : d \in FieldTypes(x, v) /\ ~ Deepens(ty_generate_map, x, v)
  BY DEF Shallow
<1>4. PICK i \in 1 .. Len(Fields[x][v]) : d = Fields[x][v][i]
  BY <1>3 DEF FieldTypes
<1>5. Met(d) /\ d \in Types
  BY <1>1, <1>4, HeldIsMet, MetIsAType
<1>6. y \in Types /\ y \in Children(x, v)
  BY <1>1, <1>4, <1>5, ChildrenOf, StripEnds
<1>7. Walked(x)
  <2>1. Kind[x] \notin Cows
    BY <1>2 DEF HasOpaqueType, Opaque
  <2>2. ASSUME Kind[x] \in Leaves PROVE FALSE
    <3>1. v = 0 /\ Fields[x][0] = << >>
      BY <1>1, <2>2, ShapeAssumption DEF Variants, Leaves, Enums, Coins
    <3>2. QED
      BY <1>4, <3>1
  <2>3. QED
    BY <2>1, <2>2 DEF Walked
<1>8. x \in DOMAIN ty_map /\ v \in DOMAIN ty_map[x] /\ ty_map[x][v] = Children(x, v)
  <2>1. x \in Parents /\ x # RootId
    BY <1>1, <1>2, <1>6, <1>7, TypesAssumption DEF Parents
  <2>2. v \in {w \in Variants(x) : Children(x, w) # {}}
    BY <1>6
  <2>3. QED
    BY <1>1, <2>1, <2>2 DEF TypeGraph
<1>9. LeadsTo(x, y)
  BY <1>6, <1>8 DEF LeadsTo, ClosedUnder, VariantsOf, Leads
<1>10. y \in ChildTypes(x)
  BY <1>1, <1>6, <1>7, HoldsAre DEF Holds
<1>11. ASSUME LeadsTo(y, x), Kind[x] \in Derived
       PROVE  x # y /\ ~ (Cardinality(Variants(x)) > Cardinality(Variants(y)))
  <2>1. x \in DerivedTypes /\ v \in ty_generate_map[x].nonrec
    <3>1. x \in DerivedTypes /\ v \notin ty_generate_map[x].rec
      BY <1>1, <1>3, <1>8, <1>11 DEF Deepens, DerivedTypes
    <3>2. QED
      BY <1>1, <1>8, <3>1 DEF IsGenerateMap
  <2>2. x # y /\ VariantCount(x) <= VariantCount(y)
    BY <1>6, <1>8, <1>11, <2>1, UnmarkedStep DEF LeadsTo
  <2>3. VariantCount(x) = Cardinality(Variants(x)) /\ VariantCount(x) \in Nat
    BY <1>1, <1>8, <2>1, DerivedIsMapped, FiniteAssumption, FS_CardinalityType DEF VariantCount
  <2>4. y \in DOMAIN ty_map
    <3>1. ASSUME y \notin DOMAIN ty_map PROVE FALSE
      <4>1. ClosedUnder({y})
        BY <3>1 DEF ClosedUnder, VariantsOf
      <4>2. x = y
        BY <1>11, <4>1 DEF LeadsTo
      <4>3. QED
        BY <2>2, <4>2
    <3>2. QED
      BY <3>1
  <2>5. DOMAIN ty_map[y] \subseteq Variants(y)
    BY <1>6, <2>4, EntriesAreOwed, TypesAssumption
  <2>6. IsFiniteSet(Variants(y))
    BY <1>6, FiniteAssumption
  <2>7. VariantCount(y) <= Cardinality(Variants(y))
        /\ VariantCount(y) \in Nat /\ Cardinality(Variants(y)) \in Nat
    BY <2>5, <2>6, FS_Subset, FS_CardinalityType DEF VariantCount
  <2>8. QED
    BY <2>2, <2>3, <2>7
<1>12. ASSUME LeadsTo(y, x) PROVE y \in Unlimited(x)
  BY <1>10, <1>11, <1>12 DEF Unlimited, Limited
<1>13. QED
  BY <1>2, <1>5, <1>9, <1>12

(* Where the graph has no unlimited cycle, no type is below itself.  Going  *)
(* down from t, whatever still leads back to t's place in the graph, s, is  *)
(* reached along unlimited steps; boxes alone lead to less and less nested  *)
(* types.                                                                   *)
LEMMA NoShallowLoop ==
  ASSUME MapInv, Registered, RecInv, phase = "calculated", ~ HasOpaqueType,
         ~ HasUnlimitedCycle, NEW t, Met(t)
  PROVE  t \notin ShallowBelow(t)
<1> DEFINE s == Strip[t]
<1>1. t \in Types /\ s \in Reachable
  BY MetIsAType DEF Met
<1>2. PICK U \in SUBSET Reachable :
        Unlimited(s) \subseteq U /\ (\A x \in U : Unlimited(x) \subseteq U) /\ s \notin U
  BY <1>1 DEF HasUnlimitedCycle
<1> HIDE DEF s
<1> DEFINE Before(c) == Met(c) /\ LeadsTo(s, Strip[c])
           Away(c) == Strip[c] \in U \/ ~ LeadsTo(Strip[c], s)
           Z == {c \in Types : Before(c) /\ (Away(c) \/ (Strip[c] = s /\ Nesting[c] < Nesting[t]))}
<1>3. ASSUME NEW c \in Types, Before(c), Away(c) \/ (Strip[c] = s /\ Nesting[c] <= Nesting[t]),
             NEW d \in Shallow(c)
      PROVE  d \in Z
  <2>1. CASE Transparent(c)
    <3>1. Kind[c] \notin Enums \cup Coins
      BY <2>1 DEF Transparent, Boxes, Lists, Enums, Coins
    <3>2. PICK v \in Variants(c) : d \in FieldTypes(c, v)
      BY DEF Shallow
    <3>3. PICK i \in 1 .. Len(Fields[c][v]) : d = Fields[c][v][i]
      BY <3>2 DEF FieldTypes
    <3>4. v = 0 /\ Len(Fields[c][0]) = 1
      BY <2>1, <3>1, ShapeAssumption, ListAssumption DEF Variants, Transparent
    <3>5. d = Fields[c][0][1]
      BY <3>3, <3>4
    <3>6. Met(d) /\ d \in Types
      BY <1>3, <3>3, HeldIsMet, MetIsAType DEF MapInv, RegInv, RegTypeOK
    <3>7. Strip[d] = Strip[c] /\ Nesting[d] < Nesting[c]
      BY <2>1, <3>5, StripFollows, NestingAssumption
    <3>8. Nesting[d] \in Nat /\ Nesting[c] \in Nat /\ Nesting[t] \in Nat
      BY <1>1, <3>6, NestingAssumption
    <3>9. Nesting[c] <= Nesting[t] => Nesting[d] < Nesting[t]
      BY <3>7, <3>8
    <3>10. Before(d) /\ (Away(d) \/ (Strip[d] = s /\ Nesting[d] < Nesting[t]))
      BY <1>3, <3>6, <3>7, <3>9
    <3>11. QED
      BY <3>6, <3>10
  <2>2. CASE ~ Transparent(c)
    <3>1. /\ Met(d) /\ Strip[c] = c /\ d \in Types
          /\ LeadsTo(c, Strip[d])
          /\ LeadsTo(Strip[d], c) => Strip[d] \in Unlimited(c)
      BY <1>3, <2>2, ShallowStep, MetIsAType
    <3>2. LeadsTo(s, c)
      BY <1>3, <3>1
    <3>3. LeadsTo(s, Strip[d])
      BY <3>1, <3>2 DEF LeadsTo
    <3>4. ASSUME LeadsTo(Strip[d], s) PROVE Strip[d] \in U
      <4>1. LeadsTo(Strip[d], c)
        BY <3>2, <3>4 DEF LeadsTo
      <4>2. LeadsTo(c, s)
        BY <3>1, <3>4 DEF LeadsTo
      <4>3. c \in U \/ c = s
        BY <1>3, <3>1, <4>2
      <4>4. QED
        BY <1>2, <3>1, <4>1, <4>3
    <3>5. Before(d) /\ Away(d)
      BY <3>1, <3>3, <3>4
    <3>6. QED
      BY <3>1, <3>5
  <2>3. QED
    BY <2>1, <2>2
<1>4. ClosedShallow(Z)
  <2>1. ASSUME NEW c \in Z PROVE Shallow(c) \subseteq Z
    <3>1. Nesting[c] \in Nat /\ Nesting[t] \in Nat
      BY <1>1, NestingAssumption
    <3>2. Nesting[c] < Nesting[t] => Nesting[c] <= Nesting[t]
      BY <3>1
    <3>3. QED
      BY <1>3, <3>2
  <2> HIDE DEF Z
  <2>2. QED
    BY <2>1 DEF ClosedShallow
<1>5. Shallow(t) \subseteq Z
  <2>1. Nesting[t] \in Nat
    BY <1>1, NestingAssumption
  <2>2. Nesting[t] <= Nesting[t]
    BY <2>1
  <2>3. LeadsTo(s, s) /\ Strip[t] = s
    BY DEF LeadsTo, s
  <2>4. QED
    BY <1>1, <1>3, <2>2, <2>3
<1>6. t \notin Z
  <2>1. Strip[t] = s /\ LeadsTo(s, s)
    BY DEF LeadsTo, s
  <2>2. Nesting[t] \in Nat
    BY <1>1, NestingAssumption
  <2>3. ~ (Nesting[t] < Nesting[t])
    BY <2>2
  <2>4. QED
    BY <1>2, <2>1, <2>3
<1>7. Z \in SUBSET Types
  OBVIOUS
<1> HIDE DEF Z
<1>8. QED
  BY <1>4, <1>5, <1>6, <1>7 DEF ShallowBelow

----------------------------------------------------------------------------
(* The inductive invariant: the three parts' own, one after the other       *)
VisitorInv ==
  /\ MapInv
  /\ RecInv
  /\ phase # "build" => Registered
  /\ phase # "calculated" => calls = << >> /\ outcome = "idle"
  /\ phase = "calculated" => IInv
  /\ phase = "calculated" /\ ~ HasOpaqueType => CallsMet(calls) /\ outcome # "panic"

(* Where a grammar has neither an opaque type nor an unlimited cycle, a     *)
(* stack of one call per type and level of depth does not run out.          *)
LEMMA GrammarFits ==
  ASSUME VisitorInv, phase = "calculated", ~ HasOpaqueType, ~ HasUnlimitedCycle,
         StackLimit >= (GenerateDepth + 1) * Cardinality(GrammarOf(root))
  PROVE  ~ RunOut
<1> DEFINE S == {t \in Types : Met(t)}
<1>1. /\ MapInv /\ Registered /\ RecInv /\ IInv /\ CallsMet(calls)
      /\ root \in RegRoots /\ root \in Types
  BY RegRootsAssumption DEF VisitorInv, MapInv, RegInv, RegTypeOK
<1>2. S \in SUBSET Types /\ S \subseteq GrammarOf(root) /\ \A t \in S : Met(t)
  BY DEF Met
<1>3. ClosedTypes(S)
  <2>1. ASSUME NEW t \in S, NEW v \in Variants(t), NEW i \in 1 .. Len(Fields[t][v])
        PROVE  Fields[t][v][i] \in S
    BY <1>1, <1>2, HeldIsMet, MetIsAType
  <2> HIDE DEF S
  <2>2. QED
    BY <2>1 DEF ClosedTypes, FieldTypes
<1>4. root \in S
  BY <1>1, ReachableIsClosed, GrammarIsClosed DEF Met
<1>5. \A t \in S : t \notin ShallowBelow(t)
  BY <1>1, NoShallowLoop
<1>6. /\ IsFiniteSet(S) /\ Cardinality(S) \in Nat
      /\ Cardinality(GrammarOf(root)) \in Nat /\ Cardinality(S) <= Cardinality(GrammarOf(root))
  <2>1. IsFiniteSet(GrammarOf(root))
    BY <1>1, FiniteAssumption, FS_Subset, GrammarIsClosed
  <2> HIDE DEF S
  <2>2. QED
    BY <1>2, <2>1, FS_Subset, FS_CardinalityType
<1>7. Within(S, calls, Len(calls))
  BY <1>1, MetIsAType DEF CallsMet, FrameMet, Within
<1> HIDE DEF S
<1>8. PICK max \in Nat : max = Cardinality(S) - 1 /\
        \E rank \in RankFunctions(max) : Ranks(S, rank, ty_generate_map)
  BY <1>2, <1>3, <1>4, <1>5, <1>6, LoopFreeIsRanked
<1>9. StackLimit >= (GenerateDepth + 1) * (max + 1)
  <2>1. max + 1 <= Cardinality(GrammarOf(root))
    BY <1>6, <1>8
  <2>2. \A d, m, n \in Nat : m + 1 <= n => (d + 1) * (m + 1) <= (d + 1) * n
    OBVIOUS
  <2>3. (GenerateDepth + 1) * (max + 1) <= (GenerateDepth + 1) * Cardinality(GrammarOf(root))
    BY <1>6, <1>8, <2>1, <2>2, DepthAssumption
  <2>4. /\ (GenerateDepth + 1) * (max + 1) \in Nat
        /\ (GenerateDepth + 1) * Cardinality(GrammarOf(root)) \in Nat /\ StackLimit \in Nat
    BY <1>6, <1>8, DepthAssumption, StackAssumption
  <2>5. QED
    BY <2>3, <2>4
<1>10. QED
  BY <1>1, <1>2, <1>7, <1>8, <1>9, RankedNeverRunsOut

LEMMA VisitorInitially == Init => VisitorInv
<1> SUFFICES ASSUME Init PROVE VisitorInv
  OBVIOUS
<1>1. MapInv
  BY MapInitially DEF Init
<1>2. CompleteInv /\ Fresh
  BY UnstartedIsFresh, CompleteFresh DEF Init, Unstarted
<1>3. RecInv
  BY <1>1, <1>2, RegistrationLeavesATyMap DEF Init, RecInv
<1>4. QED
  BY <1>1, <1>3 DEF Init, VisitorInv

(* Registration is over when the analysis begins.                           *)
LEMMA RegisterKeeps == VisitorInv /\ RegisterTypes => VisitorInv'
<1> SUFFICES ASSUME VisitorInv, RegisterTypes PROVE VisitorInv'
  OBVIOUS
<1>1. RegNext /\ UNCHANGED <<ty_generate_map, searchVars, markVars, genOnly>>
  BY DEF RegisterTypes
<1>2. ~ Registered
  BY <1>1 DEF Registered, RegNext, VisitNew, VisitKnown, RegisterInner, RegisterType,
              RegisterVariant, RegisterUnit, pop_ty, At
<1>3. phase = "build"
  BY <1>2 DEF VisitorInv
<1>4. MapInv'
  BY <1>1, MapStep DEF VisitorInv
<1>5. IsTyMap(ty_map)'
  <2>1. (MapInv => IsTyMap(ty_map))'
    BY RegistrationLeavesATyMap, PTL
  <2>2. QED
    BY <1>4, <2>1
<1>6. phase' = phase /\ recursive_nodes' = recursive_nodes /\ calls' = calls /\ outcome' = outcome
  BY <1>1 DEF markVars, genOnly
<1>7. CompleteInv' /\ Fresh'
  <2>1. CompleteInv'
    BY <1>1, CompleteStep DEF VisitorInv, RecInv
  <2>2. QED
    BY <1>1, <1>3, <2>1 DEF VisitorInv, RecInv, Fresh, searchVars
<1>8. RecInv'
  BY <1>3, <1>5, <1>6, <1>7 DEF VisitorInv, RecInv
<1>9. QED
  BY <1>3, <1>4, <1>6, <1>8 DEF VisitorInv

LEMMA RegKept ==
  ASSUME MapInv, UNCHANGED <<ty_map, regOnly>>
  PROVE  MapInv' /\ (Registered => Registered')
<1>1. UNCHANGED regVars
  BY DEF regOnly, regVars
<1>2. QED
  BY <1>1, MapInvStep DEF regVars, Registered

(* The analysis hands over what a generation may start from.                *)
LEMMA AnalysisKeeps == VisitorInv /\ CalculateRecursion => VisitorInv'
<1> SUFFICES ASSUME VisitorInv, CalculateRecursion PROVE VisitorInv'
  OBVIOUS
<1>1. Registered /\ RecNext /\ UNCHANGED <<regOnly, genOnly>>
  BY DEF CalculateRecursion
<1>2. RecInv'
  BY <1>1, RecInvStep DEF VisitorInv
<1>3. phase # "calculated" /\ ty_map' = ty_map
  BY <1>1 DEF RecNext, BuildGraph, FindCycles, Calculate, recVars
<1>4. MapInv' /\ Registered'
  BY <1>1, <1>3, RegKept DEF VisitorInv
<1>5. calls = << >> /\ outcome = "idle" /\ calls' = << >> /\ outcome' = "idle"
  BY <1>1, <1>3 DEF VisitorInv, genOnly
<1>6. ASSUME phase' = "calculated" PROVE IInv' /\ CallsMet(calls)'
  <2>1. IsGenerateMap(ty_generate_map)'
    <3>1. (MapInv /\ Registered /\ RecInv /\ phase = "calculated"
             => IsGenerateMap(ty_generate_map))'
      BY AnalysisLeavesAGenerateMap, PTL
    <3>2. QED
      BY <1>2, <1>4, <1>6, <3>1
  <2>2. << >> \in Seq(Frame) /\ Len(calls') = 0
    BY <1>5
  <2>3. TypeOK' /\ CallsMet(calls)'
    BY <1>5, <2>1, <2>2 DEF TypeOK, Outcomes, CallsMet
  <2>4. (TypeOK /\ calls = << >> => IInv)'
    BY NoCallsInv, PTL
  <2>5. QED
    BY <1>5, <2>3, <2>4
<1>7. QED
  BY <1>2, <1>4, <1>5, <1>6 DEF VisitorInv

(* What is met under the next call is what was met before it.               *)
LEMMA AdvancedMet ==
  ASSUME TypeOK, AtField, CallsMet(calls)
  PROVE  CallsMet(Advanced) /\ Met(NextField) /\ Top.inner \in Nat
<1>1. /\ Top \in Frame /\ Len(Advanced) = Len(calls) /\ Len(calls) \in Nat /\ Len(calls) > 0
      /\ Top.todo \in Seq(Types)
  BY AdvancedType DEF TypeOK, AtField, Frame
<1>2. ASSUME NEW i \in 1 .. Len(calls) PROVE FrameMet(Advanced[i])
  <2>1. FrameMet(calls[i])
    BY DEF CallsMet
  <2>2. QED
    BY <2>1, AdvancedType DEF FrameMet
<1>3. Top = calls[Len(calls)] /\ Len(calls) \in 1 .. Len(calls)
  BY <1>1 DEF Top
<1>4. FrameMet(Top)
  BY <1>3 DEF CallsMet
<1>5. Top.todo[1] = NextField /\ 1 \in 1 .. Len(Top.todo)
  BY <1>1 DEF AtField, NextField
<1>6. QED
  BY <1>1, <1>2, <1>4, <1>5 DEF CallsMet, FrameMet, Frame

(* A generation that starts in the graph stays in it and cannot panic.      *)
LEMMA GenerationStaysMet ==
  ASSUME VisitorInv, GenerateInput, ~ HasOpaqueType
  PROVE  CallsMet(calls') /\ outcome' # "panic"
<1>1. /\ MapInv /\ Registered /\ RecInv /\ phase = "calculated" /\ TypeOK
      /\ CallsMet(calls) /\ outcome # "panic"
  BY DEF VisitorInv, GenerateInput, IInv
<1>2. CASE Start(root)
  <2>1. root \in RegRoots /\ root \in Types /\ Met(root)
    BY <1>1, RegRootsAssumption, ReachableIsClosed, GrammarIsClosed DEF Met, MapInv, RegInv, RegTypeOK
  <2>2. << >> \in Seq(Frame) /\ CallsMet(<< >>)
    BY DEF CallsMet
  <2>3. Enter(root, 0, << >>) \/ GiveUp(root, 0, << >>) \/ Panic(root, << >>)
    BY <1>2 DEF Start
  <2>4. QED
    BY <1>1, <2>1, <2>2, <2>3, CallMet
<1>3. CASE Descend \/ Fail \/ Crash
  <2>1. AtField
    BY <1>3 DEF Descend, Fail, Crash
  <2>2. Advanced \in Seq(Frame) /\ CallsMet(Advanced) /\ Met(NextField) /\ Top.inner \in Nat
    BY <1>1, <2>1, AdvancedMet, AdvancedType
  <2>3. \/ Enter(NextField, Top.inner, Advanced) \/ GiveUp(NextField, Top.inner, Advanced)
        \/ Panic(NextField, Advanced)
    BY <1>3 DEF Descend, Fail, Crash
  <2>4. QED
    BY <1>1, <2>2, <2>3, CallMet
<1>4. CASE RunOut
  BY <1>1, <1>4 DEF RunOut, Overflow
<1>5. CASE Return
  <2>1. calls \in Seq(Frame) /\ Len(calls) > 0
    BY <1>1, <1>5 DEF TypeOK, Return
  <2>2. Len(Callers) = Len(calls) - 1 /\ \A i \in 1 .. Len(calls) - 1 : Callers[i] = calls[i]
    BY <2>1, PopProperties DEF Callers
  <2>3. \A i \in 1 .. Len(calls) - 1 : i \in 1 .. Len(calls)
    BY <2>1
  <2>4. CallsMet(Callers)
    BY <1>1, <2>2, <2>3 DEF CallsMet
  <2>5. calls' = Callers /\ outcome' # "panic"
    BY <1>5 DEF Return
  <2>6. QED
    BY <2>4, <2>5
<1>6. QED
  BY <1>2, <1>3, <1>4, <1>5 DEF GenerateInput, GenStep

LEMMA GenerationKeeps == VisitorInv /\ GenerateInput => VisitorInv'
<1> SUFFICES ASSUME VisitorInv, GenerateInput PROVE VisitorInv'
  OBVIOUS
<1>1. /\ phase = "calculated" /\ (Start(root) \/ GenStep)
      /\ UNCHANGED <<ty_map, regOnly, searchVars, markVars>>
  BY DEF GenerateInput
<1>2. ty_generate_map' = ty_generate_map
  BY <1>1 DEF Start, GenStep, Descend, Fail, Crash, RunOut, Return, Enter, GiveUp, Panic, Overflow
<1>3. RecInv'
  BY <1>1, <1>2, RecInvStep DEF VisitorInv, recVars, markVars
<1>4. MapInv' /\ Registered'
  BY <1>1, RegKept DEF VisitorInv
<1>5. IInv'
  <2>1. root \in Types
    BY RegRootsAssumption DEF VisitorInv, MapInv, RegInv, RegTypeOK
  <2>2. QED
    BY <1>1, <2>1, StartInv, GenStepInv DEF VisitorInv
<1>6. phase' = phase /\ root' = root
  BY <1>1 DEF markVars, regOnly
<1>7. (HasOpaqueType' <=> HasOpaqueType) /\ (CallsMet(calls)' <=> CallsMet(calls'))
  BY <1>6 DEF HasOpaqueType, Reachable, CallsMet, FrameMet, Met
<1>8. QED
  BY <1>1, <1>3, <1>4, <1>5, <1>6, <1>7, GenerationStaysMet DEF VisitorInv

LEMMA VisitorStep == VisitorInv /\ [Next]_visitorVars => VisitorInv'
<1> SUFFICES ASSUME VisitorInv, [Next]_visitorVars PROVE VisitorInv'
  OBVIOUS
<1>1. CASE UNCHANGED visitorVars
  <2>1. /\ UNCHANGED <<ty_map, regOnly>> /\ UNCHANGED <<searchVars, recVars>> /\ UNCHANGED genVars
        /\ phase' = phase /\ root' = root /\ calls' = calls /\ outcome' = outcome
    BY <1>1 DEF visitorVars, regOnly, searchVars, markVars, genOnly, recVars, genVars
  <2>2. MapInv' /\ (Registered => Registered') /\ RecInv'
    BY <2>1, RegKept, RecInvStep DEF VisitorInv
  <2>3. phase = "calculated" => IInv'
    BY <2>1, IInvStep DEF VisitorInv
  <2>4. (HasOpaqueType' <=> HasOpaqueType) /\ (CallsMet(calls)' <=> CallsMet(calls))
    BY <2>1 DEF HasOpaqueType, Reachable, CallsMet, FrameMet, Met
  <2>5. QED
    BY <2>1, <2>2, <2>3, <2>4 DEF VisitorInv
<1>2. QED
  BY <1>1, RegisterKeeps, AnalysisKeeps, GenerationKeeps DEF Next

THEOREM VisitorInvariant == VisitorSpec => []VisitorInv
<1>1. QED
  BY VisitorInitially, VisitorStep, PTL DEF VisitorSpec

(* The analysis hands over what Generation assumes, and the generations of  *)
(* a client are Generation's, for every grammar.                            *)
THEOREM GeneratesFromTheAnalysis == VisitorSpec => []GenerationTypeOK
<1>1. VisitorInv => GenerationTypeOK
  BY DEF VisitorInv, IInv, GenerationTypeOK
<1>2. QED
  BY <1>1, VisitorInvariant, PTL

(* Visitor::generate's expect fails for no grammar without a type that is   *)
(* registered without a variant or hidden in a Cow.                         *)
THEOREM OnlyOpaqueTypesPanic == VisitorSpec => []PanicNeedsOpaqueType
<1>1. VisitorInv => PanicNeedsOpaqueType
  BY DEF VisitorInv, PanicNeedsOpaqueType
<1>2. QED
  BY <1>1, VisitorInvariant, PTL

(* With the depth limit, and a stack that holds a call per type of the      *)
(* fuzzed grammar for each level, only a grammar with an unlimited cycle or *)
(* an opaque type runs out of stack: told from the types alone, whatever is *)
(* drawn and however often.                                                 *)
THEOREM OnlyUnlimitedCyclesOverflow ==
  ASSUME \A r \in RegRoots : StackLimit >= (GenerateDepth + 1) * Cardinality(GrammarOf(r))
  PROVE  VisitorSpec => []OverflowNeedsUnlimitedCycle
<1>1. Init => OverflowNeedsUnlimitedCycle
  BY DEF Init, OverflowNeedsUnlimitedCycle
<1>2. ASSUME VisitorInv, VisitorInv', OverflowNeedsUnlimitedCycle, [Next]_visitorVars
      PROVE  OverflowNeedsUnlimitedCycle'
  <2>1. root' = root
    BY <1>2 DEF Next, visitorVars, regOnly, RegisterTypes, CalculateRecursion, GenerateInput,
       RegNext, VisitNew, VisitKnown, RegisterInner, RegisterType, RegisterVariant,
       RegisterUnit, pop_ty
  <2>2. (HasUnlimitedCycle' <=> HasUnlimitedCycle) /\ (HasOpaqueType' <=> HasOpaqueType)
    BY <2>1 DEF HasUnlimitedCycle, HasOpaqueType, Reachable
  <2>3. CASE GenerateInput /\ RunOut
    <3>1. phase = "calculated" /\ root \in RegRoots
      BY <1>2, <2>3 DEF GenerateInput, VisitorInv, MapInv, RegInv, RegTypeOK
    <3>2. HasUnlimitedCycle \/ HasOpaqueType
      BY <1>2, <2>3, <3>1, GrammarFits
    <3>3. QED
      BY <2>2, <3>2 DEF OverflowNeedsUnlimitedCycle
  <2>4. CASE ~ (GenerateInput /\ RunOut)
    <3>1. outcome' = "overflow" => outcome = "overflow"
      BY <1>2, <2>4 DEF Next, visitorVars, RegisterTypes, CalculateRecursion, GenerateInput,
         genOnly, GenStep, Start, Enter, GiveUp, Panic, Descend, Fail, Crash, Return
    <3>2. QED
      BY <1>2, <2>2, <3>1 DEF OverflowNeedsUnlimitedCycle
  <2>5. QED
    BY <2>3, <2>4
<1>3. QED
  BY <1>1, <1>2, VisitorInvariant, PTL DEF VisitorSpec
=============================================================================
