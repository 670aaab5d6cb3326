--------------------------- MODULE GrammarVisitor ---------------------------
(***************************************************************************)
(* The Visitor of one fuzzing client from its creation on, as run_client   *)
(* drives it: __autarkie_register of the fuzzed type (Registration), then  *)
(* calculate_recursion (Recursion, CycleSearch), then one generation of    *)
(* the fuzzed type after the other (Generation).  The three share ty_map   *)
(* and ty_generate_map.                                                    *)
(***************************************************************************)
EXTENDS Registration, Recursion, Generation

(* The parts' own starting points (TyMaps, Graphs, GenerateMaps) are not    *)
(* used: the analysis starts from what registration leaves.  Every type the *)
(* graph can mention has its nodes.                                         *)
ASSUME VisitorNodesAssumption ==
  /\ {<<t, Entry>> : t \in Ids \cup {RootId}} \subseteq Node
  /\ <<RootId, 0>> \in Node
  /\ \A t \in Types : \A v \in Variants(t) : <<t, v>> \in Node

regOnly == <<ty_map_stack, ty_done, agenda, root>>
markVars == <<recursive_nodes, phase>>
genOnly == <<calls, outcome>>

visitorVars == <<ty_map, ty_generate_map, regOnly, searchVars, markVars, genOnly>>

(* Visitor::new: every map empty                                            *)
Init ==
  /\ RegInit
  /\ graph = [nodes |-> << >>, neighbors |-> [n \in Node |-> << >>]]
  /\ visited = {} /\ stack = << >> /\ cycles = {} /\ done = {}
  /\ recursive_nodes = << >>
  /\ ty_generate_map = << >>
  /\ phase = "build"
  /\ calls = << >>
  /\ outcome = "idle"

(* I::__autarkie_register(&mut visitor, None, 0)                            *)
RegisterTypes ==
  /\ RegNext
  /\ UNCHANGED <<ty_generate_map, searchVars, markVars, genOnly>>

(* visitor.calculate_recursion()                                            *)
CalculateRecursion ==
  /\ Registered
  /\ RecNext
  /\ UNCHANGED <<regOnly, genOnly>>

(* generate(&mut visitor), again and again                                  *)
GenerateInput ==
  /\ phase = "calculated"
  /\ Start(root) \/ GenStep
  /\ UNCHANGED <<ty_map, regOnly, searchVars, markVars>>

Next == RegisterTypes \/ CalculateRecursion \/ GenerateInput

VisitorSpec == Init /\ [][Next]_visitorVars /\ WF_visitorVars(Next)

----------------------------------------------------------------------------
(* A step from a type to one it holds that the analysis is bound to limit:  *)
(* from a derived type to itself or to a type with fewer variants.          *)
Limited(t, c) ==
  /\ Kind[t] \in Derived
  /\ t = c \/ Cardinality(Variants(t)) > Cardinality(Variants(c))

Unlimited(t) == {c \in ChildTypes(t) : ~ Limited(t, c)}

(* Some type of the fuzzed type's graph holds itself along steps none of    *)
(* which is bound to be limited: it is in every set that holds where these  *)
(* lead from it and from its members.                                       *)
HasUnlimitedCycle ==
  LET graphTypes == Reachable
  IN  \E t \in graphTypes : \A T \in SUBSET graphTypes :
        Unlimited(t) \subseteq T /\ (\A u \in T : Unlimited(u) \subseteq T) => t \in T

(* Types that register themselves without a variant: Cow<T>, which does not *)
(* register T, structs without fields and enums without variants.           *)
Opaque(t) ==
  \/ Kind[t] \in Cows
  \/ Kind[t] \in Structs /\ Fields[t][0] = << >>
  \/ Kind[t] \in Enums /\ Variants(t) = {}

HasOpaqueType == \E t \in Reachable : Opaque(t)

----------------------------------------------------------------------------
(* DepthInfo's promise, from registration to generation: "so self           *)
(* referencing types do not result in a stack overflow" (visitor.rs).       *)
StackNeverOverflows == outcome # "overflow"

(* Where the promise is kept: a generation runs out of stack only for a     *)
(* grammar with a cycle of types along which no derived type holds itself   *)
(* or a type with fewer variants, or for one that hides types in a Cow.     *)
OverflowNeedsUnlimitedCycle ==
  outcome = "overflow" => HasUnlimitedCycle \/ HasOpaqueType

(* "the compiler will make sure that every necessary type is included"      *)
(* (README.md): whatever type a generation meets, the visitor knows its     *)
(* variants and Visitor::generate's expect cannot fail.                     *)
EveryTypeIsKnown == outcome # "panic"

(* Where that is so: only types that register without a variant of their    *)
(* own, or hide the types they hold, are met without being known.           *)
PanicNeedsOpaqueType == outcome = "panic" => HasOpaqueType

(* The generations of the composed system are those of Generation, started  *)
(* with a map it allows: the analysis hands over what Generation assumes.   *)
GenerationTypeOK == phase = "calculated" => TypeOK
=============================================================================
