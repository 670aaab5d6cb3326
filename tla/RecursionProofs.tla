--------------------------- MODULE RecursionProofs ---------------------------
(***************************************************************************)
(* Proofs, for every type map a registration may leave, about what         *)
(* calculate_recursion marks.  That find_cycles reports only cycles, and    *)
(* one for every edge on a cycle, is taken from CycleSearchProofs.         *)
(***************************************************************************)
EXTENDS Recursion, CycleSearchProofs, WellFoundedInduction

(* A set of numbers that is not empty has a least one.                      *)
LEMMA LeastNumber ==
  ASSUME NEW T \in SUBSET Nat, T # {}
  PROVE  \E x \in T : \A y \in T : x <= y
<1>1. PICK x \in T : \A y \in T : <<y, x>> \notin OpToRel(<, Nat)
  BY WFMin, NatLessThanWellFounded
<1>2. ASSUME NEW y \in T PROVE x <= y
  <2>1. x \in Nat /\ y \in Nat
    OBVIOUS
  <2>2. ~ (y < x)
    BY <1>1, <2>1 DEF OpToRel
  <2>3. QED
    BY <2>1, <2>2
<1>3. QED
  BY <1>2

(* Along an interval: what holds at its start and is handed on from each    *)
(* number to the next holds at every number of it.                          *)
LEMMA AlongInterval ==
  ASSUME NEW S, NEW a \in Nat, NEW b \in Nat, a \in S,
         \A k \in a .. (b - 1) : k \in S => k + 1 \in S
  PROVE  \A k \in a .. b : k \in S
<1> DEFINE T == {k \in a .. b : k \notin S}
<1> SUFFICES ASSUME T # {} PROVE FALSE
  OBVIOUS
<1>1. T \in SUBSET Nat
  OBVIOUS
<1> HIDE DEF T
<1>2. PICK x \in T : \A y \in T : x <= y
  BY <1>1, LeastNumber
<1>3. x \in a .. b /\ x \notin S
  BY <1>2 DEF T
<1>4. x - 1 \in a .. (b - 1) /\ x - 1 < x
  BY <1>3
<1>5. x - 1 \in S
  BY <1>2, <1>4 DEF T
<1>6. QED
  BY <1>3, <1>4, <1>5

(* A total order on a set, as the members before each one; and a list of    *)
(* the set by the number of those before.                                   *)
Ordered(S, before) ==
  /\ before \in [S -> SUBSET S]
  /\ \A x \in S : x \notin before[x]
  /\ \A x, y \in S : \/ x = y
                     \/ before[x] \cup {x} \subseteq before[y]
                     \/ before[y] \cup {y} \subseteq before[x]

ListedBy(S, before, n, f) ==
  /\ n = Cardinality(S)
  /\ f = [i \in 1 .. n |-> f[i]]
  /\ \A i \in 1 .. n : (\E x \in S : Cardinality(before[x]) = i - 1) =>
       f[i] \in S /\ Cardinality(before[f[i]]) = i - 1

(* Such a list names every member of a finite set, and each once.           *)
LEMMA ByRank ==
  ASSUME NEW S, IsFiniteSet(S), NEW before, NEW n, NEW f,
         Ordered(S, before), ListedBy(S, before, n, f)
  PROVE  /\ f \in Seq(S) /\ Len(f) = n
         /\ {f[i] : i \in 1 .. n} = S
         /\ \A i, j \in 1 .. n : f[i] = f[j] => i = j
<1> USE DEF Ordered, ListedBy
<1> DEFINE rank == [x \in S |-> Cardinality(before[x]) + 1]
<1>1. n \in Nat
  BY FS_CardinalityType
<1>2. ASSUME NEW x \in S
      PROVE  IsFiniteSet(before[x]) /\ Cardinality(before[x]) \in Nat /\ Cardinality(before[x]) < n
  <2>1. before[x] \in SUBSET S /\ before[x] # S
    OBVIOUS
  <2>2. /\ IsFiniteSet(before[x]) /\ Cardinality(before[x]) <= n /\ Cardinality(before[x]) # n
    BY <2>1, FS_Subset
  <2>3. Cardinality(before[x]) \in Nat
    BY <2>2, FS_CardinalityType
  <2>4. QED
    BY <1>1, <2>2, <2>3
<1>3. \A x \in S : rank[x] = Cardinality(before[x]) + 1 /\ rank[x] \in 1 .. n
  BY <1>1, <1>2
<1>4. ASSUME NEW x \in S, NEW y \in S, before[x] \cup {x} \subseteq before[y]
      PROVE  rank[x] # rank[y]
  <2>1. before[x] \in SUBSET before[y] /\ before[x] # before[y]
    BY <1>4
  <2>2. Cardinality(before[y]) # Cardinality(before[x])
    BY <1>2, <2>1, FS_Subset
  <2>3. QED
    BY <1>2, <2>2
<1>5. \A x, y \in S : rank[x] = rank[y] => x = y
  BY <1>4
<1>6. rank \in Injection(S, 1 .. n)
  <2>1. rank \in [S -> 1 .. n]
    BY <1>3
  <2>2. QED
    BY <1>5, <2>1 DEF Injection, IsInjective
<1>7. IsFiniteSet(1 .. n) /\ Cardinality(1 .. n) = n
  <2>1. /\ 1 \in Int /\ n \in Int /\ IsFiniteSet(1 .. n)
        /\ Cardinality(1 .. n) = IF 1 > n THEN 0 ELSE n - 1 + 1
    BY <1>1, FS_Interval
  <2>2. QED
    BY <1>1, <2>1
<1>8. rank \in Surjection(S, 1 .. n)
  BY <1>6, <1>7, FS_Injection
<1>9. \A i \in 1 .. n : \E x \in S : rank[x] = i
  BY <1>8 DEF Surjection
<1> HIDE DEF rank
<1>10. ASSUME NEW i \in 1 .. n PROVE f[i] \in S /\ rank[f[i]] = i
  <2>1. PICK x \in S : rank[x] = i
    BY <1>9
  <2>2. Cardinality(before[x]) = i - 1
    BY <1>2, <1>3, <2>1
  <2>3. f[i] \in S /\ Cardinality(before[f[i]]) = i - 1
    BY <2>2
  <2>4. QED
    BY <1>2, <1>3, <2>3
<1>11. f \in Seq(S) /\ Len(f) = n
  <2>1. f \in [1 .. n -> S]
    BY <1>10
  <2>2. QED
    BY <1>1, <2>1
<1>12. ASSUME NEW x \in S PROVE \E i \in 1 .. n : f[i] = x
  <2>1. rank[x] \in 1 .. n /\ rank[f[rank[x]]] = rank[x] /\ f[rank[x]] \in S
    BY <1>3, <1>10
  <2>2. QED
    BY <1>5, <2>1
<1>13. \A i, j \in 1 .. n : f[i] = f[j] => i = j
  BY <1>10
<1>14. {f[i] : i \in 1 .. n} = S
  <2>1. \A x : x \in {f[i] : i \in 1 .. n} <=> x \in S
    BY <1>10, <1>12
  <2>2. QED
    BY <2>1
<1>15. QED
  BY <1>11, <1>13, <1>14

(* Ascending lists the members of a finite set of integers.                 *)
LEMMA AscendingLists ==
  ASSUME NEW S, IsFiniteSet(S), S \subseteq Int
  PROVE  /\ Ascending(S) \in Seq(S) /\ Len(Ascending(S)) = Cardinality(S)
         /\ {Ascending(S)[i] : i \in 1 .. Cardinality(S)} = S
<1> DEFINE before == [x \in S |-> {y \in S : y < x}]
<1> SUFFICES ASSUME NEW f, f = Ascending(S), NEW n, n = Cardinality(S)
             PROVE  f \in Seq(S) /\ Len(f) = n /\ {f[i] : i \in 1 .. n} = S
  OBVIOUS
<1>1. before \in [S -> SUBSET S] /\ \A x \in S : before[x] = {y \in S : y < x}
  OBVIOUS
<1>2. \A x \in S : x \notin before[x]
  OBVIOUS
<1>3. ASSUME NEW x \in S, NEW y \in S
      PROVE  \/ x = y
             \/ before[x] \cup {x} \subseteq before[y]
             \/ before[y] \cup {y} \subseteq before[x]
  <2>1. x \in Int /\ y \in Int
    OBVIOUS
  <2>2. x < y \/ x = y \/ y < x
    BY <2>1
  <2>3. \A a, b \in S : a < b => \A z \in S : z < a => z < b
    <3>1. \A a, b, z \in Int : a < b /\ z < a => z < b
      OBVIOUS
    <3>2. QED
      BY <3>1
  <2>4. QED
    BY <1>1, <2>2, <2>3
<1>4. f = [i \in 1 .. n |-> CHOOSE x \in S : Cardinality({y \in S : y < x}) = i - 1]
  BY DEF Ascending
<1>5. ASSUME NEW i \in 1 .. n, \E x \in S : Cardinality(before[x]) = i - 1
      PROVE  f[i] \in S /\ Cardinality(before[f[i]]) = i - 1
  <2>1. \E x \in S : Cardinality({y \in S : y < x}) = i - 1
    BY <1>1, <1>5
  <2>2. f[i] \in S /\ Cardinality({y \in S : y < f[i]}) = i - 1
    BY <1>4, <2>1, Zenon
  <2>3. QED
    BY <1>1, <2>2
<1>6. f = [i \in 1 .. n |-> f[i]]
  BY <1>4
<1>7. \A i \in 1 .. n : (\E x \in S : Cardinality(before[x]) = i - 1) =>
        f[i] \in S /\ Cardinality(before[f[i]]) = i - 1
  BY <1>5
<1>8. \A x, y \in S : \/ x = y
                      \/ before[x] \cup {x} \subseteq before[y]
                      \/ before[y] \cup {y} \subseteq before[x]
  BY <1>3
<1>9. before \in [S -> SUBSET S]
  BY <1>1
<1> HIDE DEF before
<1>10. Ordered(S, before) /\ ListedBy(S, before, n, f)
  BY <1>2, <1>6, <1>7, <1>8, <1>9 DEF Ordered, ListedBy
<1>11. QED
  BY <1>10, ByRank

----------------------------------------------------------------------------
(* The edges of the type graph: from a type to each of its variants, and    *)
(* from a variant to each of the types it holds.                            *)
Step(x, y) ==
  \E t \in DOMAIN ty_map : \E v \in DOMAIN ty_map[t] :
    \/ x = <<t, Entry>> /\ y = <<t, v>>
    \/ x = <<t, v>> /\ \E u \in ty_map[t][v] : y = <<u, Entry>>

LEMMA TyMapFacts ==
  ASSUME IsTyMap(ty_map)
  PROVE  /\ IsFiniteSet(DOMAIN ty_map)
         /\ \A t \in DOMAIN ty_map :
              /\ t \in Int /\ IsFiniteSet(DOMAIN ty_map[t]) /\ VariantCount(t) \in Nat
              /\ \A v \in DOMAIN ty_map[t] :
                   /\ v \in Nat /\ v # Entry /\ v > Entry
                   /\ <<t, Entry>> \in Node /\ <<t, v>> \in Node
                   /\ IsFiniteSet(ty_map[t][v])
                   /\ \A u \in ty_map[t][v] : u \in Int /\ <<u, Entry>> \in Node /\ u \in VariantTypes
<1>2. /\ IsFiniteSet(DOMAIN ty_map)
      /\ \A t \in DOMAIN ty_map :
           /\ t \in Int /\ IsFiniteSet(DOMAIN ty_map[t])
           /\ \A v \in DOMAIN ty_map[t] :
                /\ v \in Nat /\ <<t, Entry>> \in Node /\ <<t, v>> \in Node
                /\ IsFiniteSet(ty_map[t][v])
                /\ \A u \in ty_map[t][v] : u \in Int /\ <<u, Entry>> \in Node
  BY DEF IsTyMap
<1>3. \A t \in DOMAIN ty_map : VariantCount(t) \in Nat
  BY <1>2, FS_CardinalityType DEF VariantCount
<1>4. \A v \in Nat : v # Entry /\ v > Entry
  BY DEF Entry
<1>5. \A t \in DOMAIN ty_map : \A v \in DOMAIN ty_map[t] : \A u \in ty_map[t][v] : u \in VariantTypes
  BY DEF VariantTypes
<1>6. QED
  BY <1>2, <1>3, <1>4, <1>5

LEMMA SuccessorsAre ==
  ASSUME IsTyMap(ty_map), NEW n \in Node
  PROVE  /\ Successors(n) \in Seq(Node)
         /\ \A k \in 1 .. Len(Successors(n)) : Step(n, Successors(n)[k])
         /\ \A y : Step(n, y) => \E k \in 1 .. Len(Successors(n)) : Successors(n)[k] = y
<1>1. PICK t, v : n = <<t, v>> /\ t \in Int /\ v \in Int
  BY NodesAssumption
<1>2. n[1] = t /\ n[2] = v
  BY <1>1
<1>3. CASE t \notin DOMAIN ty_map
  <2>1. Successors(n) = << >>
    BY <1>2, <1>3 DEF Successors
  <2>2. \A y : ~Step(n, y)
    BY <1>1, <1>3 DEF Step
  <2>3. QED
    BY <2>1, <2>2
<1>4. CASE t \in DOMAIN ty_map /\ v = Entry
  <2>1. PICK S, s, c : S = DOMAIN ty_map[t] /\ s = Ascending(S) /\ c = Cardinality(S)
    OBVIOUS
  <2>2. IsFiniteSet(S) /\ S \subseteq Int /\ c \in Nat
    <3>1. IsFiniteSet(S) /\ S \subseteq Nat
      BY <1>4, <2>1, TyMapFacts
    <3>2. QED
      BY <2>1, <3>1, FS_CardinalityType
  <2>3. s \in Seq(S) /\ Len(s) = c /\ {s[i] : i \in 1 .. c} = S
    BY <2>1, <2>2, AscendingLists
  <2>4. Successors(n) = [i \in 1 .. c |-> <<t, s[i]>>]
    BY <1>2, <1>4, <2>1 DEF Successors, VariantCount
  <2>5. \A i \in 1 .. c : <<t, s[i]>> \in Node /\ Step(n, <<t, s[i]>>)
    <3>1. \A i \in 1 .. c : s[i] \in DOMAIN ty_map[t]
      BY <2>1, <2>3
    <3>2. QED
      BY <1>1, <1>4, <3>1, TyMapFacts DEF Step
  <2>6. /\ Successors(n) \in Seq(Node) /\ Len(Successors(n)) = c
        /\ \A i \in 1 .. c : Successors(n)[i] = <<t, s[i]>>
    BY <2>2, <2>4, <2>5
  <2>7. ASSUME NEW y, Step(n, y)
        PROVE  \E k \in 1 .. c : Successors(n)[k] = y
    <3>1. PICK w \in DOMAIN ty_map[t] : y = <<t, w>>
      BY <1>1, <1>4, <2>7, TyMapFacts DEF Step
    <3>2. PICK k \in 1 .. c : s[k] = w
      BY <2>1, <2>3, <3>1
    <3>3. QED
      BY <2>6, <3>1, <3>2
  <2>8. QED
    BY <2>5, <2>6, <2>7
<1>5. CASE t \in DOMAIN ty_map /\ v # Entry /\ v \notin DOMAIN ty_map[t]
  <2>1. Successors(n) = << >>
    BY <1>2, <1>5 DEF Successors
  <2>2. \A y : ~Step(n, y)
    BY <1>1, <1>5 DEF Step
  <2>3. QED
    BY <2>1, <2>2
<1>6. CASE t \in DOMAIN ty_map /\ v # Entry /\ v \in DOMAIN ty_map[t]
  <2>1. PICK S, s, c : S = ty_map[t][v] /\ s = Ascending(S) /\ c = Cardinality(S)
    OBVIOUS
  <2>2. IsFiniteSet(S) /\ S \subseteq Int
    BY <1>6, <2>1, TyMapFacts
  <2>3. s \in Seq(S) /\ Len(s) = c /\ {s[i] : i \in 1 .. c} = S /\ c \in Nat
    BY <2>1, <2>2, AscendingLists, FS_CardinalityType
  <2>4. Successors(n) = [i \in 1 .. c |-> <<s[i], Entry>>]
    BY <1>2, <1>6, <2>1 DEF Successors
  <2>5. \A i \in 1 .. c : <<s[i], Entry>> \in Node /\ Step(n, <<s[i], Entry>>)
    <3>1. \A i \in 1 .. c : s[i] \in ty_map[t][v]
      BY <2>1, <2>3
    <3>2. QED
      BY <1>1, <1>6, <3>1, TyMapFacts DEF Step
  <2>6. /\ Successors(n) \in Seq(Node) /\ Len(Successors(n)) = c
        /\ \A i \in 1 .. c : Successors(n)[i] = <<s[i], Entry>>
    BY <2>3, <2>4, <2>5
  <2>7. ASSUME NEW y, Step(n, y)
        PROVE  \E k \in 1 .. c : Successors(n)[k] = y
    <3>1. PICK u \in ty_map[t][v] : y = <<u, Entry>>
      BY <1>1, <1>6, <2>7 DEF Step
    <3>2. PICK k \in 1 .. c : s[k] = u
      BY <2>1, <2>3, <3>1
    <3>3. QED
      BY <2>6, <3>1, <3>2
  <2>8. QED
    BY <2>5, <2>6, <2>7
<1>7. QED
  BY <1>3, <1>4, <1>5, <1>6

(* The nodes of the graph are those the edges name.                         *)
LEMMA NodesOfEdges ==
  ASSUME IsTyMap(ty_map)
  PROVE  /\ GraphNodes \subseteq Node
         /\ \A x, y : Step(x, y) => x \in GraphNodes /\ y \in GraphNodes
<1>1. ASSUME NEW t \in DOMAIN ty_map
      PROVE  VariantCount(t) > 0 <=> DOMAIN ty_map[t] # {}
  <2>1. VariantCount(t) \in Nat /\ IsFiniteSet(DOMAIN ty_map[t])
    BY TyMapFacts
  <2>2. VariantCount(t) = 0 <=> DOMAIN ty_map[t] = {}
    BY <2>1, FS_EmptySet DEF VariantCount
  <2>3. \A n \in Nat : n > 0 <=> n # 0
    OBVIOUS
  <2>4. QED
    BY <2>1, <2>2, <2>3, Zenon
<1>2. ASSUME NEW x \in GraphNodes PROVE x \in Node
  <2>1. CASE \E t \in DOMAIN ty_map : VariantCount(t) > 0 /\ x = <<t, Entry>>
    BY <1>1, <2>1, TyMapFacts
  <2>2. CASE \E u \in VariantTypes : x = <<u, Entry>>
    <3>1. PICK t \in DOMAIN ty_map : \E v \in DOMAIN ty_map[t] : \E u \in ty_map[t][v] : x = <<u, Entry>>
      BY <2>2 DEF VariantTypes
    <3>2. QED
      BY <3>1, TyMapFacts
  <2>3. CASE \E t \in DOMAIN ty_map : \E v \in DOMAIN ty_map[t] : x = <<t, v>>
    BY <2>3, TyMapFacts
  <2>4. QED
    BY <2>1, <2>2, <2>3 DEF GraphNodes
<1>3. ASSUME NEW t \in DOMAIN ty_map, NEW v \in DOMAIN ty_map[t]
      PROVE  /\ <<t, Entry>> \in GraphNodes /\ <<t, v>> \in GraphNodes
             /\ \A u \in ty_map[t][v] : <<u, Entry>> \in GraphNodes
  <2>1. VariantCount(t) > 0 /\ \A u \in ty_map[t][v] : u \in VariantTypes
    BY <1>1, TyMapFacts
  <2>2. QED
    BY <2>1 DEF GraphNodes
<1>4. QED
  BY <1>2, <1>3 DEF Step

(* What a function takes a finite set to is finite.                         *)
LEMMA FiniteValues ==
  ASSUME NEW S, IsFiniteSet(S), NEW f, f = [x \in S |-> f[x]]
  PROVE  IsFiniteSet({f[x] : x \in S})
<1> DEFINE T == {f[x] : x \in S}
<1>1. f \in Surjection(S, T)
  BY DEF Surjection
<1>2. QED
  BY <1>1, FS_Surjection

LEMMA GraphNodesFinite ==
  ASSUME IsTyMap(ty_map)
  PROVE  IsFiniteSet(GraphNodes) /\ GraphNodes \subseteq Node
<1> DEFINE D == DOMAIN ty_map
           held == [t \in D |-> UNION {ty_map[t][v] : v \in DOMAIN ty_map[t]}]
           numbers == [t \in D |-> DOMAIN ty_map[t]]
           Variants == UNION {numbers[t] : t \in D}
<1>1. \A t \in D : IsFiniteSet(held[t])
  <2>1. ASSUME NEW t \in D PROVE IsFiniteSet(held[t])
    <3>1. PICK V, f : V = DOMAIN ty_map[t] /\ f = [v \in V |-> ty_map[t][v]]
      OBVIOUS
    <3>2. IsFiniteSet(V) /\ f = [v \in V |-> f[v]] /\ \A v \in V : IsFiniteSet(f[v])
      BY <3>1, TyMapFacts
    <3>3. IsFiniteSet({f[v] : v \in V})
      BY <3>2, FiniteValues
    <3>4. IsFiniteSet(UNION {f[v] : v \in V})
      BY <3>2, <3>3, FS_UNION
    <3>5. held[t] = UNION {f[v] : v \in V}
      BY <3>1
    <3>6. QED
      BY <3>4, <3>5
  <2>2. QED
    BY <2>1
<1>2. IsFiniteSet(D) /\ \A t \in D : IsFiniteSet(numbers[t])
  BY TyMapFacts
<1>3. VariantTypes = UNION {held[t] : t \in D}
  BY DEF VariantTypes
<1>4. /\ held = [t \in D |-> held[t]]
      /\ numbers = [t \in D |-> numbers[t]]
  OBVIOUS
<1>5. GraphNodes \subseteq (D \cup VariantTypes) \X (Variants \cup {Entry})
  BY DEF GraphNodes
<1>6. GraphNodes \subseteq Node
  BY NodesOfEdges
<1> HIDE DEF D, held, numbers
<1>7. IsFiniteSet({held[t] : t \in D}) /\ IsFiniteSet({numbers[t] : t \in D})
  BY <1>2, <1>4, FiniteValues
<1>8. IsFiniteSet(VariantTypes)
  BY <1>1, <1>3, <1>7, FS_UNION
<1>9. IsFiniteSet(Variants)
  BY <1>2, <1>7, FS_UNION
<1> HIDE DEF Variants
<1>10. IsFiniteSet(D \cup VariantTypes) /\ IsFiniteSet(Variants \cup {Entry})
  BY <1>2, <1>8, <1>9, FS_Union, FS_AddElement
<1>11. IsFiniteSet((D \cup VariantTypes) \X (Variants \cup {Entry}))
  BY <1>10, FS_Product
<1>12. QED
  BY <1>5, <1>6, <1>11, FS_Subset

(* The graph handed to find_cycles is one: its nodes are the types and      *)
(* variants, each of them once, and its edges are Step.                     *)
LEMMA VariantGraphIs ==
  ASSUME IsTyMap(ty_map)
  PROVE  VariantGraph \in Graph
<1> DEFINE S == GraphNodes
           before == [x \in S |-> Earlier(x)]
<1>1. IsFiniteSet(S) /\ S \subseteq Node
  BY GraphNodesFinite
<1>2. \A x \in S : x[1] \in Int /\ x[2] \in Int /\ x = <<x[1], x[2]>>
  BY <1>1, NodesAssumption
<1>3. /\ \A x \in S : before[x] = Earlier(x)
      /\ \A x, y \in S : y \in before[x] <=> y[1] < x[1] \/ (y[1] = x[1] /\ y[2] < x[2])
  BY DEF Earlier
<1>4. before \in [S -> SUBSET S]
  BY DEF Earlier
<1> HIDE DEF before, S
<1>5. \A x \in S : x \notin before[x]
  BY <1>2, <1>3
<1>6. ASSUME NEW x \in S, NEW y \in S
      PROVE  \/ x = y
             \/ before[x] \cup {x} \subseteq before[y]
             \/ before[y] \cup {y} \subseteq before[x]
  <2>1. x = y \/ x \in before[y] \/ y \in before[x]
    <3>1. \/ x[1] < y[1] \/ y[1] < x[1]
          \/ x[1] = y[1] /\ (x[2] < y[2] \/ y[2] < x[2] \/ x[2] = y[2])
      BY <1>2
    <3>2. QED
      BY <1>2, <1>3, <3>1
  <2>2. ASSUME NEW a \in S, NEW b \in S, a \in before[b], NEW c \in before[a]
        PROVE  c \in before[b]
    <3>1. c \in S
      BY <1>4
    <3>2. /\ a[1] \in Int /\ b[1] \in Int /\ c[1] \in Int
          /\ a[2] \in Int /\ b[2] \in Int /\ c[2] \in Int
      BY <1>2, <3>1
    <3>3. /\ a[1] < b[1] \/ (a[1] = b[1] /\ a[2] < b[2])
          /\ c[1] < a[1] \/ (c[1] = a[1] /\ c[2] < a[2])
      BY <1>3, <2>2, <3>1
    <3>4. c[1] < b[1] \/ (c[1] = b[1] /\ c[2] < b[2])
      BY <3>2, <3>3
    <3>5. QED
      BY <1>3, <3>1, <3>4
  <2>3. QED
    BY <2>1, <2>2
<1>7. PICK f, n : f = VariantGraph.nodes /\ n = Cardinality(S)
  OBVIOUS
<1>8. f = [i \in 1 .. n |-> CHOOSE x \in S : Cardinality(Earlier(x)) = i - 1]
  BY <1>7 DEF VariantGraph, S
<1>9. ASSUME NEW i \in 1 .. n, \E x \in S : Cardinality(before[x]) = i - 1
      PROVE  f[i] \in S /\ Cardinality(before[f[i]]) = i - 1
  <2>1. \E x \in S : Cardinality(Earlier(x)) = i - 1
    BY <1>3, <1>9
  <2>2. f[i] \in S /\ Cardinality(Earlier(f[i])) = i - 1
    BY <1>8, <2>1, Zenon
  <2>3. QED
    BY <1>3, <2>2
<1>10. f = [i \in 1 .. n |-> f[i]]
  BY <1>8
<1>11. Ordered(S, before) /\ ListedBy(S, before, n, f)
  BY <1>4, <1>5, <1>6, <1>7, <1>9, <1>10 DEF Ordered, ListedBy
<1>12. /\ f \in Seq(S) /\ Len(f) = n
       /\ {f[i] : i \in 1 .. n} = S
       /\ \A i, j \in 1 .. n : f[i] = f[j] => i = j
  BY <1>1, <1>11, ByRank
<1>13. VariantGraph = [nodes |-> f, neighbors |-> [x \in Node |-> Successors(x)]]
  BY <1>7 DEF VariantGraph
<1>14. f \in Seq(Node)
  BY <1>1, <1>12
<1>15. /\ VariantGraph.nodes = f
       /\ VariantGraph.neighbors = [x \in Node |-> Successors(x)]
       /\ VariantGraph.neighbors \in [Node -> Seq(Node)]
  BY <1>13, SuccessorsAre
<1>16. ASSUME NEW x \in Node, NEW y, Step(x, y)
       PROVE  x \in S /\ y \in S
  BY <1>16, NodesOfEdges DEF S
<1>17. \A u \in Node : \A k \in 1 .. Len(VariantGraph.neighbors[u]) :
         {u, VariantGraph.neighbors[u][k]} \subseteq {f[i] : i \in 1 .. n}
  <2>1. ASSUME NEW u \in Node, NEW k \in 1 .. Len(VariantGraph.neighbors[u])
        PROVE  u \in S /\ VariantGraph.neighbors[u][k] \in S
    BY <1>15, <1>16, SuccessorsAre
  <2>2. QED
    BY <1>12, <2>1
<1>18. VariantGraph \in [nodes : Seq(Node), neighbors : [Node -> Seq(Node)]]
  BY <1>13, <1>14, <1>15
<1>19. PICK l : l = Len(VariantGraph.nodes) /\ l = n
  BY <1>12, <1>15
<1>20. /\ \A i, j \in 1 .. l : VariantGraph.nodes[i] = VariantGraph.nodes[j] => i = j
       /\ \A u \in Node : \A k \in 1 .. Len(VariantGraph.neighbors[u]) :
            {u, VariantGraph.neighbors[u][k]} \subseteq {VariantGraph.nodes[i] : i \in 1 .. l}
  BY <1>12, <1>15, <1>17, <1>19
<1>21. QED
  BY <1>18, <1>19, <1>20 DEF Graph

----------------------------------------------------------------------------
EdgesAreSteps == \A x \in Node : \A y : Edge(x, y) <=> Step(x, y)

(* The inductive invariant: the search runs on the graph of the type map    *)
(* and keeps its own invariant, and the result is read off when it is over. *)
RecInv ==
  /\ CompleteInv
  /\ IsTyMap(ty_map)
  /\ phase \in {"build", "search", "calculated"}
  /\ phase = "build" => Fresh
  /\ phase # "build" => EdgesAreSteps
  /\ phase # "calculated" => recursive_nodes = << >>
  /\ phase = "calculated" =>
       /\ Searched
       /\ recursive_nodes = [t \in {n[1] : n \in Marked} |-> MarkedOf(t)]
       /\ ty_generate_map = [t \in DOMAIN ty_map |-> SplitVariants(t)]

(* Before the analysis the search has nothing to do.                        *)
Unstarted ==
  /\ graph = [nodes |-> << >>, neighbors |-> [n \in Node |-> << >>]]
  /\ visited = {} /\ stack = << >> /\ cycles = {} /\ done = {}

LEMMA UnstartedIsFresh == Unstarted => Fresh
<1> SUFFICES ASSUME Unstarted PROVE Fresh
  OBVIOUS
<1>1. graph \in Graph
  BY DEF Unstarted, Graph
<1>2. QED
  BY <1>1 DEF Unstarted, Fresh

LEMMA RecInvInit == RecInit => RecInv
<1> SUFFICES ASSUME RecInit PROVE RecInv
  OBVIOUS
<1>1. Fresh
  BY UnstartedIsFresh DEF RecInit, Unstarted
<1>2. IsTyMap(ty_map)
  BY TyMapsAssumption DEF RecInit
<1>3. QED
  BY <1>1, <1>2, CompleteFresh DEF RecInit, RecInv

LEMMA RecInvStep == RecInv /\ [RecNext]_<<searchVars, recVars>> => RecInv'
<1> SUFFICES ASSUME RecInv, [RecNext]_<<searchVars, recVars>> PROVE RecInv'
  OBVIOUS
<1>1. /\ CompleteInv /\ IsTyMap(ty_map)
  BY DEF RecInv
<1>2. ASSUME UNCHANGED <<ty_map, cycles>>
      PROVE  Marked' = Marked /\ \A t : MarkedOf(t)' = MarkedOf(t) /\ SplitVariants(t)' = SplitVariants(t)
  <2>1. \A t : VariantCount(t)' = VariantCount(t)
    BY <1>2 DEF VariantCount
  <2>2. \A c : Mark(c)' = Mark(c)
    BY <2>1 DEF Mark, MarkWithin, MarkAcross
  <2>3. Marked' = Marked
    BY <1>2, <2>2 DEF Marked
  <2>4. \A t : MarkedOf(t)' = MarkedOf(t)
    BY <2>3 DEF MarkedOf
  <2>5. QED
    BY <1>2, <2>3, <2>4 DEF SplitVariants
<1>3. ASSUME UNCHANGED <<ty_map, graph>>
      PROVE  EdgesAreSteps => EdgesAreSteps'
  BY <1>3 DEF EdgesAreSteps, Edge, Step
<1>4. CASE BuildGraph
  <2>1. /\ phase = "build" /\ phase' = "search" /\ graph' = VariantGraph /\ ty_map' = ty_map
        /\ recursive_nodes' = recursive_nodes
        /\ UNCHANGED <<visited, stack, cycles, done>>
    BY <1>4 DEF BuildGraph
  <2>2. Fresh'
    BY <1>1, <2>1, VariantGraphIs DEF RecInv, Fresh
  <2>3. CompleteInv'
    <3>1. (Fresh => CompleteInv)'
      BY CompleteFresh, PTL
    <3>2. QED
      BY <2>2, <3>1
  <2>4. EdgesAreSteps'
    <3>1. graph'.neighbors = [x \in Node |-> Successors(x)]
      BY <2>1 DEF VariantGraph
    <3>2. \A x \in Node : \A y :
            (\E k \in 1 .. Len(graph'.neighbors[x]) : graph'.neighbors[x][k] = y) <=> Step(x, y)
      BY <1>1, <3>1, SuccessorsAre
    <3>3. \A x, y : Step(x, y)' <=> Step(x, y)
      BY <2>1 DEF Step
    <3>4. QED
      BY <3>2, <3>3 DEF EdgesAreSteps, Edge
  <2>5. QED
    BY <1>1, <2>1, <2>3, <2>4 DEF RecInv
<1>5. CASE FindCycles
  <2>1. SearchNext /\ phase = "search" /\ UNCHANGED recVars
    BY <1>5 DEF FindCycles
  <2>2. /\ phase' = phase /\ ty_map' = ty_map /\ recursive_nodes' = recursive_nodes
    BY <2>1 DEF recVars
  <2>3. graph' = graph
    BY <2>1 DEF SearchNext, StartSearch, EnterNeighbor, ReportCycle, SkipNeighbor, LeaveNode
  <2>4. CompleteInv'
    BY <1>1, <2>1, CompleteStep
  <2>5. QED
    BY <1>1, <1>3, <2>1, <2>2, <2>3, <2>4 DEF RecInv
<1>6. ASSUME UNCHANGED searchVars
      PROVE  CompleteInv' /\ (Fresh => Fresh') /\ (Searched => Searched')
  <2>1. CompleteInv'
    BY <1>1, <1>6, CompleteStep
  <2>2. QED
    BY <1>6, <2>1 DEF searchVars, Fresh, Searched
<1>7. CASE Calculate
  <2>1. /\ phase = "search" /\ phase' = "calculated" /\ ty_map' = ty_map
        /\ Searched /\ UNCHANGED searchVars
        /\ recursive_nodes' = [t \in {n[1] : n \in Marked} |-> MarkedOf(t)]
        /\ ty_generate_map' = [t \in DOMAIN ty_map |-> SplitVariants(t)]
    BY <1>7 DEF Calculate
  <2>2. graph' = graph /\ cycles' = cycles
    BY <2>1 DEF searchVars
  <2>3. /\ recursive_nodes' = [t \in {n[1] : n \in Marked'} |-> MarkedOf(t)']
        /\ ty_generate_map' = [t \in DOMAIN ty_map' |-> SplitVariants(t)']
    BY <1>2, <2>1, <2>2
  <2>4. QED
    BY <1>1, <1>3, <1>6, <2>1, <2>2, <2>3 DEF RecInv
<1>8. CASE UNCHANGED <<searchVars, recVars>>
  <2>1. /\ ty_map' = ty_map /\ phase' = phase /\ recursive_nodes' = recursive_nodes
        /\ ty_generate_map' = ty_generate_map /\ UNCHANGED searchVars
    BY <1>8 DEF recVars
  <2>2. graph' = graph /\ cycles' = cycles
    BY <2>1 DEF searchVars
  <2>3. phase = "calculated" =>
          /\ recursive_nodes' = [t \in {n[1] : n \in Marked'} |-> MarkedOf(t)']
          /\ ty_generate_map' = [t \in DOMAIN ty_map' |-> SplitVariants(t)']
    BY <1>2, <2>1, <2>2 DEF RecInv
  <2>4. QED
    BY <1>1, <1>3, <1>6, <2>1, <2>2, <2>3 DEF RecInv
<1>9. QED
  BY <1>4, <1>5, <1>7, <1>8 DEF RecNext

----------------------------------------------------------------------------
(* A reported cycle that can mark something goes from a type t through one  *)
(* of its variants to a variant w of a type u that holds t.                 *)
Closes(c, t, v, u, w) ==
  /\ t \in DOMAIN ty_map /\ v \in DOMAIN ty_map[t]
  /\ u \in DOMAIN ty_map /\ w \in DOMAIN ty_map[u] /\ t \in ty_map[u][w]
  /\ Len(c) \in Nat /\ Len(c) >= 2
  /\ c[1] = <<t, Entry>> /\ c[2] = <<t, v>> /\ c[Len(c)] = <<u, w>>
  /\ \A k \in 1 .. Len(c) - 1 : Step(c[k], c[k + 1])

LEMMA CycleShape ==
  ASSUME RecInv, phase # "build", NEW c \in cycles,
         c[1][1] # c[Len(c)][1] \/ c[Len(c)][2] > Entry
  PROVE  \E t, v, u, w : Closes(c, t, v, u, w)
<1>1. /\ c \in Seq(Node) /\ Len(c) \in Nat /\ Len(c) > 0
      /\ \A k \in 1 .. Len(c) - 1 : Edge(c[k], c[k + 1])
      /\ Edge(c[Len(c)], c[1])
      /\ \A i, j \in 1 .. Len(c) : c[i] = c[j] => i = j
  BY DEF RecInv, CompleteInv, SearchInv, CyclesAreReal, IsCycle
<1>2. EdgesAreSteps /\ IsTyMap(ty_map)
  BY DEF RecInv
<1>3. \A k \in 1 .. Len(c) : c[k] \in Node
  BY <1>1
<1>4. \A k \in 1 .. Len(c) - 1 : Step(c[k], c[k + 1])
  BY <1>1, <1>2, <1>3 DEF EdgesAreSteps
<1>5. Step(c[Len(c)], c[1])
  BY <1>1, <1>2, <1>3 DEF EdgesAreSteps
<1>6. PICK u, w :
        /\ u \in DOMAIN ty_map /\ w \in DOMAIN ty_map[u]
        /\ \/ c[Len(c)] = <<u, Entry>> /\ c[1] = <<u, w>>
           \/ c[Len(c)] = <<u, w>> /\ \E t \in ty_map[u][w] : c[1] = <<t, Entry>>
  BY <1>5 DEF Step
<1>7. c[Len(c)] # <<u, Entry>> \/ c[1] # <<u, w>>
  BY DEF Entry
<1>8. PICK t \in ty_map[u][w] : c[1] = <<t, Entry>>
  BY <1>6, <1>7
<1>9. c[Len(c)] = <<u, w>> /\ w # Entry
  BY <1>2, <1>6, <1>7, TyMapFacts
<1>10. c[Len(c)] # c[1]
  BY <1>8, <1>9
<1>11. Len(c) >= 2
  <2>1. Len(c) # 1
    BY <1>10
  <2>2. \A n \in Nat : n > 0 /\ n # 1 => n >= 2
    OBVIOUS
  <2>3. QED
    BY <1>1, <2>1, <2>2
<1>12. Step(c[1], c[2])
  <2>1. 1 \in 1 .. Len(c) - 1
    BY <1>1, <1>11
  <2>2. Step(c[1], c[1 + 1])
    BY <1>4, <2>1
  <2>3. QED
    BY <2>2
<1>13. PICK s, v :
         /\ s \in DOMAIN ty_map /\ v \in DOMAIN ty_map[s]
         /\ \/ c[1] = <<s, Entry>> /\ c[2] = <<s, v>>
            \/ c[1] = <<s, v>>
  BY <1>12 DEF Step
<1>14. v # Entry
  BY <1>2, <1>13, TyMapFacts
<1>15. s = t /\ c[2] = <<t, v>>
  BY <1>8, <1>13, <1>14
<1>16. Closes(c, t, v, u, w)
  BY <1>1, <1>4, <1>6, <1>8, <1>9, <1>11, <1>13, <1>15 DEF Closes
<1>17. QED
  BY <1>16

(* What such a cycle marks: its last variant if it is within one type, and  *)
(* else the first or the last, of the type that has more variants.          *)
LEMMA MarkOf ==
  ASSUME RecInv, NEW c, NEW t, NEW v, NEW u, NEW w, Closes(c, t, v, u, w)
  PROVE  /\ t = u => Mark(c) = {<<u, w>>}
         /\ t # u /\ VariantCount(t) > VariantCount(u) => Mark(c) = {<<t, v>>}
         /\ t # u /\ VariantCount(u) > VariantCount(t) => Mark(c) = {<<u, w>>}
         /\ t # u /\ VariantCount(u) = VariantCount(t) => Mark(c) = {}
<1>1. IsTyMap(ty_map)
  BY DEF RecInv
<1>2. /\ VariantCount(t) \in Nat /\ VariantCount(u) \in Nat /\ w > Entry
      /\ c[1][1] = t /\ c[Len(c)][1] = u /\ c[Len(c)][2] = w /\ c[2][1] = t
      /\ c[2] = <<t, v>> /\ c[Len(c)] = <<u, w>>
  <2>1. /\ t \in DOMAIN ty_map /\ u \in DOMAIN ty_map /\ w \in DOMAIN ty_map[u]
        /\ c[1] = <<t, Entry>> /\ c[2] = <<t, v>> /\ c[Len(c)] = <<u, w>>
    BY DEF Closes
  <2>2. VariantCount(t) \in Nat /\ VariantCount(u) \in Nat /\ w > Entry
    BY <1>1, <2>1, TyMapFacts
  <2>3. QED
    BY <2>1, <2>2
<1>3. ASSUME t = u PROVE Mark(c) = {<<u, w>>}
  BY <1>2, <1>3 DEF Mark, MarkWithin
<1>4. ASSUME t # u PROVE Mark(c) = MarkAcross(c)
  BY <1>2, <1>4 DEF Mark
<1>5. QED
  BY <1>2, <1>3, <1>4 DEF MarkAcross

(* Every mark comes of such a cycle.                                        *)
LEMMA MarksClose ==
  ASSUME RecInv, phase # "build", NEW n \in Marked
  PROVE  \E c \in cycles : \E t, v, u, w :
           /\ Closes(c, t, v, u, w)
           /\ n = <<u, w>> \/ (n = <<t, v>> /\ t # u)
<1>1. PICK c \in cycles : n \in Mark(c)
  BY DEF Marked
<1>2. c[1][1] # c[Len(c)][1] \/ c[Len(c)][2] > Entry
  BY <1>1 DEF Mark, MarkWithin
<1>3. PICK t, v, u, w : Closes(c, t, v, u, w)
  BY <1>2, CycleShape
<1>4. VariantCount(t) \in Nat /\ VariantCount(u) \in Nat
  BY <1>3, TyMapFacts DEF Closes, RecInv
<1>5. n = <<u, w>> \/ (n = <<t, v>> /\ t # u)
  BY <1>1, <1>3, <1>4, MarkOf
<1>6. QED
  BY <1>3, <1>5

LEMMA MarksAreVariants ==
  ASSUME RecInv, phase # "build", NEW n \in Marked
  PROVE  n[1] \in DOMAIN ty_map /\ n[2] \in DOMAIN ty_map[n[1]] /\ n = <<n[1], n[2]>>
<1>1. PICK t, v, u, w, c :
        Closes(c, t, v, u, w) /\ (n = <<u, w>> \/ n = <<t, v>>)
  BY MarksClose
<1>2. QED
  BY <1>1 DEF Closes

(* The state of the analysis has its type.                                  *)
LEMMA RecInvType == RecInv => RecTypeOK
<1> SUFFICES ASSUME RecInv PROVE RecTypeOK
  OBVIOUS
<1>1. SearchTypeOK /\ phase \in {"build", "search", "calculated"}
  BY DEF RecInv, CompleteInv, SearchInv
<1>2. CASE phase # "calculated"
  <2>1. DOMAIN recursive_nodes = {}
    BY <1>2 DEF RecInv
  <2>2. QED
    BY <1>1, <1>2, <2>1 DEF RecTypeOK
<1>3. CASE phase = "calculated"
  <2>1. /\ recursive_nodes = [t \in {n[1] : n \in Marked} |-> MarkedOf(t)]
        /\ ty_generate_map = [t \in DOMAIN ty_map |-> SplitVariants(t)]
    BY <1>3 DEF RecInv
  <2>2. \A n \in Marked : n[1] \in DOMAIN ty_map /\ n[2] \in DOMAIN ty_map[n[1]]
    BY <1>3, MarksAreVariants
  <2>3. \A t : MarkedOf(t) \subseteq DOMAIN ty_map[t]
    BY <2>2 DEF MarkedOf
  <2>4. /\ DOMAIN recursive_nodes \subseteq DOMAIN ty_map
        /\ \A t \in DOMAIN recursive_nodes : recursive_nodes[t] \subseteq DOMAIN ty_map[t]
    BY <2>1, <2>2, <2>3
  <2>5. \A t \in DOMAIN ty_map :
          /\ ty_generate_map[t].rec \cup ty_generate_map[t].nonrec = DOMAIN ty_map[t]
          /\ ty_generate_map[t].rec \cap ty_generate_map[t].nonrec = {}
    BY <2>1, <2>3 DEF SplitVariants
  <2>6. DOMAIN ty_generate_map = DOMAIN ty_map
    BY <2>1
  <2>7. QED
    BY <1>1, <2>4, <2>5, <2>6 DEF RecTypeOK
<1>4. QED
  BY <1>2, <1>3

----------------------------------------------------------------------------
(* Sets of types that hold, with a type, what its variants lead to          *)
ClosedUnder(T) ==
  \A t \in T : \A v \in VariantsOf(t) : Leads(t, v) \subseteq T

(* A cycle that is in such a set at one of its nodes stays in it.           *)
LEMMA CycleStaysIn ==
  ASSUME NEW T, ClosedUnder(T), NEW c, NEW t, NEW v, NEW u, NEW w, Closes(c, t, v, u, w),
         NEW a \in 1 .. Len(c), c[a][1] \in T
  PROVE  u \in T
<1> DEFINE S == {k \in 1 .. Len(c) : c[k][1] \in T}
<1>1. Len(c) \in Nat /\ a \in Nat /\ a <= Len(c) /\ a >= 1
  BY DEF Closes
<1>2. ASSUME NEW k \in a .. (Len(c) - 1), k \in S PROVE k + 1 \in S
  <2>1. k \in 1 .. Len(c) - 1 /\ k + 1 \in 1 .. Len(c)
    BY <1>1
  <2>2. Step(c[k], c[k + 1]) /\ c[k][1] \in T
    BY <1>2, <2>1 DEF Closes
  <2>3. PICK s, z :
          /\ s \in DOMAIN ty_map /\ z \in DOMAIN ty_map[s] /\ c[k][1] = s
          /\ c[k + 1][1] = s \/ c[k + 1][1] \in ty_map[s][z]
    BY <2>2 DEF Step
  <2>4. c[k + 1][1] \in T
    BY <2>2, <2>3 DEF ClosedUnder, VariantsOf, Leads
  <2>5. QED
    BY <2>1, <2>4
<1>3. a \in S
  OBVIOUS
<1> HIDE DEF S
<1>4. \A k \in a .. Len(c) : k \in S
  BY <1>1, <1>2, <1>3, AlongInterval
<1>5. Len(c) \in S
  BY <1>1, <1>4
<1>6. c[Len(c)][1] \in T
  BY <1>5 DEF S
<1>7. QED
  BY <1>6 DEF Closes

(* A marked variant leads back to its type: the cycle that marks it does.   *)
LEMMA MarkedLeadsBack ==
  ASSUME RecInv, phase # "build", NEW s, NEW z, <<s, z>> \in Marked,
         NEW T, ClosedUnder(T), ty_map[s][z] \subseteq T
  PROVE  s \in T
<1>1. PICK c, t, v, u, w :
        Closes(c, t, v, u, w) /\ (<<s, z>> = <<u, w>> \/ (<<s, z>> = <<t, v>> /\ t # u))
  BY MarksClose
<1>2. Len(c) \in Nat /\ Len(c) >= 2 /\ 1 \in 1 .. Len(c)
  BY <1>1 DEF Closes
<1>3. CASE s = u /\ z = w
  <2>1. c[1][1] \in T
    BY <1>1, <1>3 DEF Closes
  <2>2. QED
    BY <1>1, <1>2, <1>3, <2>1, CycleStaysIn
<1>4. CASE s = t /\ z = v /\ t # u
  <2>1. c[2] = <<t, v>> /\ c[Len(c)] = <<u, w>> /\ v # Entry
    BY <1>1, TyMapFacts DEF Closes, RecInv
  <2>2. 2 \in 1 .. Len(c) - 1 /\ 3 \in 1 .. Len(c)
    <3>1. Len(c) # 2
      BY <1>4, <2>1
    <3>2. \A n \in Nat : n >= 2 /\ n # 2 => 2 \in 1 .. n - 1 /\ 3 \in 1 .. n
      OBVIOUS
    <3>3. QED
      BY <1>2, <3>1, <3>2
  <2>3. Step(c[2], c[3])
    <3>1. Step(c[2], c[2 + 1])
      BY <1>1, <2>2 DEF Closes
    <3>2. QED
      BY <3>1
  <2>4. PICK y \in ty_map[t][v] : c[3] = <<y, Entry>>
    BY <2>1, <2>3 DEF Step
  <2>5. c[3][1] \in T
    BY <1>4, <2>4
  <2>6. u \in T
    BY <1>1, <2>2, <2>5, CycleStaysIn
  <2>7. t \in ty_map[u][w] /\ u \in DOMAIN ty_map /\ w \in DOMAIN ty_map[u]
    BY <1>1 DEF Closes
  <2>8. QED
    BY <1>4, <2>6, <2>7 DEF ClosedUnder, VariantsOf, Leads
<1>5. QED
  BY <1>1, <1>3, <1>4

LEMMA RecInvMarks == RecInv => MarksAreRecursive
<1> SUFFICES ASSUME RecInv, phase = "calculated",
                    NEW t \in DOMAIN ty_map, NEW v \in ty_generate_map[t].rec
             PROVE  t \in Below(ty_map[t][v], Anything)
  BY DEF MarksAreRecursive
<1>1. v \in MarkedOf(t)
  BY DEF RecInv, SplitVariants
<1>2. PICK n \in Marked : n[1] = t /\ n[2] = v
  BY <1>1 DEF MarkedOf
<1>3. <<t, v>> \in Marked
  BY <1>2, MarksAreVariants
<1>4. ASSUME NEW T, ty_map[t][v] \subseteq T, ClosedUnder(T) PROVE t \in T
  BY <1>3, <1>4, MarkedLeadsBack
<1>5. QED
  BY <1>4 DEF Below, Anything, ClosedUnder

(* A variant that leads back to its type through a type it holds is the end *)
(* of a reported cycle that starts at that type.                            *)
LEMMA ClosingEdgeFound ==
  ASSUME RecInv, phase = "calculated",
         NEW x \in DOMAIN ty_map, NEW w \in DOMAIN ty_map[x], NEW y \in ty_map[x][w],
         \A T : y \in T /\ ClosedUnder(T) => x \in T
  PROVE  \E c \in cycles : \E v : Closes(c, y, v, x, w)
<1>1. /\ CompleteInv /\ Searched /\ IsTyMap(ty_map)
      /\ \A a \in Node : \A b : Edge(a, b) <=> Step(a, b)
  BY DEF RecInv, EdgesAreSteps
<1>2. /\ <<x, w>> \in Node /\ <<y, Entry>> \in Node /\ w > Entry /\ y \in Int
      /\ \A i \in DOMAIN ty_map : \A z \in DOMAIN ty_map[i] :
           <<i, Entry>> \in Node /\ <<i, z>> \in Node
  BY <1>1, TyMapFacts
<1>3. PICK k \in 1 .. Len(graph.neighbors[<<x, w>>]) : graph.neighbors[<<x, w>>][k] = <<y, Entry>>
  <2>1. Step(<<x, w>>, <<y, Entry>>)
    BY DEF Step
  <2>2. Edge(<<x, w>>, <<y, Entry>>)
    BY <1>1, <1>2, <2>1
  <2>3. QED
    BY <2>2 DEF Edge
<1>4. ASSUME NEW N \in SUBSET Node, {<<y, Entry>>} \subseteq N,
             \A a \in N : \A l \in 1 .. Len(graph.neighbors[a]) : graph.neighbors[a][l] \in N
      PROVE  <<x, w>> \in N
  <2>1. \A a \in N : \A b : Step(a, b) => b \in N
    BY <1>1, <1>4 DEF Edge
  <2>2. PICK T : T = {i \in Int : <<i, Entry>> \in N}
    OBVIOUS
  <2>3. ASSUME NEW i \in T, NEW z \in VariantsOf(i) PROVE Leads(i, z) \subseteq T
    <3>1. i \in DOMAIN ty_map /\ z \in DOMAIN ty_map[i] /\ Leads(i, z) = ty_map[i][z]
      BY DEF VariantsOf, Leads
    <3>2. <<i, Entry>> \in N
      BY <2>2
    <3>3. Step(<<i, Entry>>, <<i, z>>)
      BY <3>1 DEF Step
    <3>4. <<i, z>> \in N
      BY <2>1, <3>2, <3>3
    <3>5. ASSUME NEW j \in ty_map[i][z] PROVE j \in T
      <4>1. Step(<<i, z>>, <<j, Entry>>)
        BY <3>1 DEF Step
      <4>2. j \in Int
        BY <1>1, <3>1, TyMapFacts
      <4>3. QED
        BY <2>1, <2>2, <3>4, <4>1, <4>2
    <3>6. QED
      BY <3>1, <3>5
  <2>4. ClosedUnder(T) /\ y \in T
    BY <1>2, <1>4, <2>2, <2>3 DEF ClosedUnder
  <2>5. <<x, Entry>> \in N
    BY <2>2, <2>4
  <2>6. Step(<<x, Entry>>, <<x, w>>)
    BY DEF Step
  <2>7. QED
    BY <2>1, <2>5, <2>6
<1>5. <<x, w>> \in ReachableFrom({<<y, Entry>>})
  BY <1>2, <1>4 DEF ReachableFrom
<1>6. PICK c \in cycles : c[1] = <<y, Entry>> /\ c[Len(c)] = <<x, w>>
  <2>1. PICK a, b : a = <<x, w>> /\ b = <<y, Entry>>
    OBVIOUS
  <2>2. a \in Node /\ k \in 1 .. Len(graph.neighbors[a]) /\ graph.neighbors[a][k] = b
        /\ a \in ReachableFrom({b})
    BY <1>2, <1>3, <1>5, <2>1
  <2>3. EveryCyclicEdgeFound
    BY <1>1, CompleteFinds
  <2>4. \E c \in cycles : c[1] = b /\ c[Len(c)] = a
    BY <1>1, <2>2, <2>3 DEF EveryCyclicEdgeFound
  <2>5. QED
    BY <2>1, <2>4
<1>7. PICK t, v, u, z : Closes(c, t, v, u, z)
  <2>1. c[Len(c)][2] > Entry
    BY <1>2, <1>6
  <2>2. QED
    BY <2>1, CycleShape
<1>8. t = y /\ u = x /\ z = w
  BY <1>6, <1>7 DEF Closes
<1>9. QED
  BY <1>7, <1>8

(* An unmarked variant that leads back to its type through another type     *)
(* leads to one with at least as many variants, and none does at once.      *)
LEMMA UnmarkedStep ==
  ASSUME RecInv, phase = "calculated",
         NEW x \in DOMAIN ty_map, NEW w \in ty_generate_map[x].nonrec, NEW y \in ty_map[x][w],
         \A T : y \in T /\ ClosedUnder(T) => x \in T
  PROVE  x # y /\ VariantCount(x) <= VariantCount(y)
<1>1. w \in DOMAIN ty_map[x] /\ w \notin MarkedOf(x)
  BY DEF RecInv, SplitVariants
<1>2. <<x, w>> \notin Marked
  <2>1. ASSUME <<x, w>> \in Marked PROVE w \in MarkedOf(x)
    <3>1. PICK n \in Marked : n[1] = x /\ n[2] = w
      BY <2>1
    <3>2. QED
      BY <3>1 DEF MarkedOf
  <2>2. QED
    BY <1>1, <2>1
<1>0. PICK c \in cycles : \E v : Closes(c, y, v, x, w)
  BY <1>1, ClosingEdgeFound
<1>3. PICK v : Closes(c, y, v, x, w)
  BY <1>0
<1>4. <<x, w>> \notin Mark(c)
  BY <1>2 DEF Marked
<1>5. VariantCount(x) \in Nat /\ VariantCount(y) \in Nat
  BY <1>3, TyMapFacts DEF Closes, RecInv
<1>6. QED
  BY <1>3, <1>4, <1>5, MarkOf

(* u is under t along unmarked variants, as closed sets say it.             *)
ClosedUnmarked(T) ==
  \A t \in T : \A v \in VariantsOf(t) : Unmarked(t, v) => Leads(t, v) \subseteq T

Under(t, u) ==
  /\ u \in DOMAIN ty_map \cup VariantTypes
  /\ \A T \in SUBSET (DOMAIN ty_map \cup VariantTypes) : t \in T /\ ClosedUnmarked(T) => u \in T

LEMMA BelowIsUnder ==
  ASSUME NEW t, NEW u
  PROVE  u \in Below({t}, Unmarked) <=> Under(t, u)
BY DEF Below, Under, ClosedUnmarked

(* Around a loop of unmarked variants no type has fewer variants than the   *)
(* one before it.                                                           *)
LEMMA UnmarkedLoop ==
  ASSUME RecInv, phase = "calculated", NEW t \in DOMAIN ty_map, NEW u \in DOMAIN ty_map,
         Under(t, u), Under(u, t)
  PROVE  VariantCount(t) <= VariantCount(u)
<1> DEFINE Mentioned == DOMAIN ty_map \cup VariantTypes
           T == {x \in Mentioned : Under(t, x) /\ (Under(x, t) => VariantCount(t) <= VariantCount(x))}
<1>1. IsTyMap(ty_map)
  BY DEF RecInv
<1>2. ASSUME NEW x \in T, NEW w \in VariantsOf(x), Unmarked(x, w), NEW y \in Leads(x, w)
      PROVE  y \in T
  <2>1. /\ x \in DOMAIN ty_map /\ w \in ty_generate_map[x].nonrec
        /\ w \in DOMAIN ty_map[x] /\ y \in ty_map[x][w] /\ y \in VariantTypes
    BY <1>1, <1>2, TyMapFacts DEF VariantsOf, Unmarked, Leads
  <2>2. Under(x, y)
    BY <1>2, <2>1 DEF Under, ClosedUnmarked
  <2>3. Under(t, y)
    BY <2>2 DEF Under
  <2>4. ASSUME Under(y, t) PROVE VariantCount(t) <= VariantCount(y)
    <3>1. Under(x, t) /\ Under(y, x)
      BY <2>2, <2>4 DEF Under
    <3>2. \A U : y \in U /\ ClosedUnder(U) => x \in U
      <4>1. ASSUME NEW U, y \in U, ClosedUnder(U) PROVE x \in U
        <5>1. y \in U \cap Mentioned /\ U \cap Mentioned \in SUBSET Mentioned
          BY <2>1, <4>1
        <5>2. \A i \in Mentioned : \A z \in VariantsOf(i) : Leads(i, z) \subseteq Mentioned
          BY <1>1, TyMapFacts DEF VariantsOf, Leads
        <5>3. ClosedUnmarked(U \cap Mentioned)
          BY <4>1, <5>2 DEF ClosedUnder, ClosedUnmarked
        <5>4. QED
          BY <3>1, <5>1, <5>3 DEF Under
      <4>2. QED
        BY <4>1
    <3>3. VariantCount(x) <= VariantCount(y)
      BY <2>1, <3>2, UnmarkedStep
    <3>4. VariantCount(t) <= VariantCount(x)
      BY <3>1
    <3>5. y \in DOMAIN ty_map
      <4>1. ASSUME y \notin DOMAIN ty_map PROVE FALSE
        <5>1. ClosedUnmarked({y}) /\ {y} \in SUBSET Mentioned
          BY <2>1, <4>1 DEF ClosedUnmarked, VariantsOf
        <5>2. t = y
          BY <2>4, <5>1 DEF Under
        <5>3. QED
          BY <4>1, <5>2
      <4>2. QED
        BY <4>1
    <3>6. VariantCount(t) \in Nat /\ VariantCount(x) \in Nat /\ VariantCount(y) \in Nat
      BY <1>1, <2>1, <3>5, TyMapFacts
    <3>7. QED
      BY <3>3, <3>4, <3>6
  <2>5. QED
    BY <2>1, <2>3, <2>4
<1>3. t \in T
  <2>1. VariantCount(t) \in Nat
    BY <1>1, TyMapFacts
  <2>2. \A n \in Nat : n <= n
    OBVIOUS
  <2>3. VariantCount(t) <= VariantCount(t)
    BY <2>1, <2>2
  <2>4. QED
    BY <2>3 DEF Under
<1>4. ClosedUnmarked(T) /\ T \in SUBSET Mentioned
  BY <1>2 DEF ClosedUnmarked
<1>5. u \in T
  BY <1>3, <1>4 DEF Under
<1>6. QED
  BY <1>5

LEMMA RecInvEven == RecInv => UnmarkedCyclesAreEven
<1> SUFFICES ASSUME RecInv, phase = "calculated", NEW t \in DOMAIN ty_map
             PROVE  /\ \A v \in ty_generate_map[t].nonrec : t \notin ty_map[t][v]
                    /\ \A u \in DOMAIN ty_map :
                         (u \in Below({t}, Unmarked) /\ t \in Below({u}, Unmarked))
                           => VariantCount(t) = VariantCount(u)
  BY DEF UnmarkedCyclesAreEven
<1>1. \A v \in ty_generate_map[t].nonrec : t \notin ty_map[t][v]
  BY UnmarkedStep
<1>2. ASSUME NEW u \in DOMAIN ty_map, Under(t, u), Under(u, t)
      PROVE  VariantCount(t) = VariantCount(u)
  <2>1. VariantCount(t) <= VariantCount(u) /\ VariantCount(u) <= VariantCount(t)
    BY <1>2, UnmarkedLoop
  <2>2. VariantCount(t) \in Nat /\ VariantCount(u) \in Nat
    BY TyMapFacts DEF RecInv
  <2>3. QED
    BY <2>1, <2>2
<1>3. QED
  BY <1>1, <1>2, BelowIsUnder

----------------------------------------------------------------------------
(* Whatever was registered, the analysis splits the variants of every type  *)
(* into the recursive and the others, and marks nothing but variants.       *)
THEOREM RecTypeCorrect == RecSpec => []RecTypeOK
<1>1. QED
  BY RecInvInit, RecInvStep, RecInvType, PTL DEF RecSpec

(* Whatever was registered, a variant that is marked can hold its own type  *)
(* again: the depth limit forbids no variant that cannot recurse.           *)
THEOREM OnlyRecursiveMarked == RecSpec => []MarksAreRecursive
<1>1. QED
  BY RecInvInit, RecInvStep, RecInvMarks, PTL DEF RecSpec

(* Whatever was registered, the types around a loop that is left when the   *)
(* marked variants are taken away all have equally many variants, and no    *)
(* type is left that holds itself at once.                                  *)
THEOREM UnmarkedLoopsEven == RecSpec => []UnmarkedCyclesAreEven
<1>1. QED
  BY RecInvInit, RecInvStep, RecInvEven, PTL DEF RecSpec
=============================================================================
