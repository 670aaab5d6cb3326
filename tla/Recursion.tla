------------------------------ MODULE Recursion ------------------------------
(***************************************************************************)
(* Visitor::calculate_recursion: which variants of which types count as    *)
(* recursive.  The type graph built from ty_map is handed to find_cycles   *)
(* (CycleSearch); every reported cycle marks at most one variant, and the  *)
(* marks split the variants of each type into the recursive and the        *)
(* non-recursive ones that Visitor::generate chooses from.                 *)
(***************************************************************************)
EXTENDS CycleSearch, TypeMap, GenerateMap

CONSTANT TyMaps   \* the ty_maps a registration may leave

VARIABLES recursive_nodes,  \* what calculate_recursion returns
          phase             \* "build" | "search" | "calculated"

recVars == <<ty_map, recursive_nodes, ty_generate_map, phase>>

Entry == -1   \* the node of a type itself: (ty, -1)

(* Variants are numbered, types are ordered by their id.                    *)
IsTyMap(m) ==
  /\ IsFiniteSet(DOMAIN m) /\ DOMAIN m \subseteq Int
  /\ \A t \in DOMAIN m :
       /\ IsFiniteSet(DOMAIN m[t]) /\ DOMAIN m[t] \subseteq Nat
       /\ \A v \in DOMAIN m[t] :
            /\ IsFiniteSet(m[t][v]) /\ m[t][v] \subseteq Int
            /\ {<<t, Entry>>, <<t, v>>} \cup {<<u, Entry>> : u \in m[t][v]} \subseteq Node

ASSUME NodesAssumption == Node \subseteq Int \X Int
ASSUME TyMapsAssumption == \A m \in TyMaps : IsTyMap(m)

----------------------------------------------------------------------------
Ascending(S) ==
  [i \in 1 .. Cardinality(S) |-> CHOOSE x \in S : Cardinality({y \in S : y < x}) = i - 1]

VariantTypes == UNION {UNION {ty_map[t][v] : v \in DOMAIN ty_map[t]} : t \in DOMAIN ty_map}

VariantCount(t) == Cardinality(DOMAIN ty_map[t])

(* (ty, -1) -> (ty, variant) -> (variant_ty, -1); BTreeMap and BTreeSet are *)
(* iterated in ascending order.                                             *)
Successors(n) ==
  LET t == n[1]  v == n[2]
  IN  IF t \notin DOMAIN ty_map THEN << >>
      ELSE IF v = Entry
      THEN [i \in 1 .. VariantCount(t) |-> <<t, Ascending(DOMAIN ty_map[t])[i]>>]
      ELSE IF v \notin DOMAIN ty_map[t] THEN << >>
      ELSE [i \in 1 .. Cardinality(ty_map[t][v]) |-> <<Ascending(ty_map[t][v])[i], Entry>>]

(* The nodes add_edge adds: a type without variants has no edge of its own. *)
GraphNodes ==
  {<<t, Entry>> : t \in {u \in DOMAIN ty_map : VariantCount(u) > 0} \cup VariantTypes}
    \cup UNION {{<<t, v>> : v \in DOMAIN ty_map[t]} : t \in DOMAIN ty_map}

(* A search is independent of the others: any order of the nodes will do.   *)
Earlier(n) == {m \in GraphNodes : m[1] < n[1] \/ (m[1] = n[1] /\ m[2] < n[2])}

VariantGraph ==
  [nodes |-> [i \in 1 .. Cardinality(GraphNodes) |->
                CHOOSE n \in GraphNodes : Cardinality(Earlier(n)) = i - 1],
   neighbors |-> [n \in Node |-> Successors(n)]]

BuildGraph ==
  /\ phase = "build"
  /\ graph' = VariantGraph
  /\ phase' = "search"
  /\ UNCHANGED <<visited, stack, cycles, done, ty_map, recursive_nodes, ty_generate_map>>

FindCycles ==
  /\ phase = "search"
  /\ SearchNext
  /\ UNCHANGED recVars

----------------------------------------------------------------------------
(* Mutant: > 0 for > -1, so that no first variant is ever marked.           *)
MarkWithinPositive(c) ==
  IF c[Len(c)][2] > 0 THEN {c[Len(c)]} ELSE {}

(* A cycle within one type marks its last node, unless that is the type's   *)
(* own node: the cycle seen from (ty, variant) round to (ty, -1).           *)
MarkWithin(c) ==
  IF c[Len(c)][2] > Entry THEN {c[Len(c)]} ELSE {}

(* A cycle through several types marks its second or its last node, the one *)
(* whose type has more variants; neither when they have equally many.       *)
MarkAcross(c) ==
  LET second == c[2]
      last == c[Len(c)]
  IN  IF VariantCount(second[1]) > VariantCount(last[1]) THEN {second}
      ELSE IF VariantCount(last[1]) > VariantCount(second[1]) THEN {last}
      ELSE {}

Mark(c) == IF c[1][1] = c[Len(c)][1] THEN MarkWithin(c) ELSE MarkAcross(c)

Marked == UNION {Mark(c) : c \in cycles}
(* Mutant: a mark counts for every variant of the type.                     *)
MarkedOfWholeType(t) ==
  IF \E n \in Marked : n[1] = t THEN DOMAIN ty_map[t] ELSE {}

MarkedOf(t) == {n[2] : n \in {m \in Marked : m[1] = t}}

(* Mutant: marked variants stay among the non-recursive ones.               *)
SplitVariantsKept(t) == [rec |-> MarkedOf(t), nonrec |-> DOMAIN ty_map[t]]

(* Every variant of a type is in exactly one of the two sets.               *)
SplitVariants(t) ==
  [rec |-> MarkedOf(t), nonrec |-> DOMAIN ty_map[t] \ MarkedOf(t)]

Calculate ==
  /\ phase = "search"
  /\ Searched
  /\ recursive_nodes' = [t \in {n[1] : n \in Marked} |-> MarkedOf(t)]
  /\ ty_generate_map' = [t \in DOMAIN ty_map |-> SplitVariants(t)]
  /\ phase' = "calculated"
  /\ UNCHANGED <<searchVars, ty_map>>

RecNext == BuildGraph \/ FindCycles \/ Calculate

RecInit ==
  /\ ty_map \in TyMaps
  /\ graph = [nodes |-> << >>, neighbors |-> [n \in Node |-> << >>]]
  /\ visited = {} /\ stack = << >> /\ cycles = {} /\ done = {}
  /\ recursive_nodes = << >>
  /\ ty_generate_map = << >>
  /\ phase = "build"

RecSpec == RecInit /\ [][RecNext]_<<searchVars, recVars>>

----------------------------------------------------------------------------
(* Reference: which types lead to which.                                    *)
Leads(t, v) == IF t \in DOMAIN ty_map THEN ty_map[t][v] ELSE {}

VariantsOf(t) == IF t \in DOMAIN ty_map THEN DOMAIN ty_map[t] ELSE {}

(* The types under some types, through the variants `keep` lets by: those   *)
(* in every set that holds S and what such a variant of a member leads to.  *)
Below(S, keep(_, _)) ==
  LET Mentioned == DOMAIN ty_map \cup VariantTypes
  IN  {u \in Mentioned : \A T \in SUBSET Mentioned :
         (/\ S \subseteq T
          /\ \A t \in T : \A v \in VariantsOf(t) : keep(t, v) => Leads(t, v) \subseteq T)
         => u \in T}

Unmarked(t, v) == v \in ty_generate_map[t].nonrec
Anything(t, v) == TRUE

----------------------------------------------------------------------------
(* The state of the analysis is what the code's types say it is.            *)
RecTypeOK ==
  /\ SearchTypeOK
  /\ phase \in {"build", "search", "calculated"}
  /\ DOMAIN recursive_nodes \subseteq DOMAIN ty_map
  /\ \A t \in DOMAIN recursive_nodes : recursive_nodes[t] \subseteq DOMAIN ty_map[t]
  /\ phase = "calculated" =>
       /\ DOMAIN ty_generate_map = DOMAIN ty_map
       /\ \A t \in DOMAIN ty_map :
            /\ ty_generate_map[t].rec \cup ty_generate_map[t].nonrec = DOMAIN ty_map[t]
            /\ ty_generate_map[t].rec \cap ty_generate_map[t].nonrec = {}

(* "Automatically determine recursive types" (visitor.rs): only a variant   *)
(* whose fields can hold its own type again is marked, so the depth limit   *)
(* never forbids a variant that cannot recurse.                             *)
MarksAreRecursive ==
  phase = "calculated" =>
    \A t \in DOMAIN ty_map : \A v \in ty_generate_map[t].rec :
      t \in Below(ty_map[t][v], Anything)

(* What the marks guarantee: after removing the marked variants, a type     *)
(* can still hold itself only along types that all have equally many        *)
(* variants, and never directly.                                            *)
UnmarkedCyclesAreEven ==
  phase = "calculated" =>
    \A t \in DOMAIN ty_map :
      /\ \A v \in ty_generate_map[t].nonrec : t \notin ty_map[t][v]
      /\ \A u \in DOMAIN ty_map :
           (u \in Below({t}, Unmarked) /\ t \in Below({u}, Unmarked))
             => VariantCount(t) = VariantCount(u)
=============================================================================
