---------------------------- MODULE Generation ----------------------------
(***************************************************************************)
(* Node::__autarkie_generate: how a random value of a type is built.  Every*)
(* impl calls the generate of the types inside it, so a generation is a    *)
(* Rust call stack; `calls` is that stack.  A derived type asks            *)
(* Visitor::generate for a variant: under the depth limit any, past it a   *)
(* non-recursive one, and None when there is none, which `?` passes up to  *)
(* the caller of the whole generation.  Only a variant that                *)
(* calculate_recursion marked (ty_generate_map, Recursive) makes its fields*)
(* one level deeper; Option, Result, Vec, Box and tuples pass on the depth *)
(* they were given and never look at a mark.                               *)
(***************************************************************************)
EXTENDS Grammar, GenerateMap, FiniteSets

CONSTANTS GenerateDepth,   \* DepthInfo.generate
          IterateDepth,    \* DepthInfo.iterate
          StackLimit,      \* calls that fit on the thread's stack
          MaxRank,         \* the largest rank considered, see Ranks
          Roots,           \* types generated: the fuzzed type, mutated nodes
          GenerateMaps     \* the ty_generate_maps to start from

ASSUME DepthAssumption == GenerateDepth \in Nat /\ IterateDepth \in Nat
ASSUME StackAssumption == StackLimit \in Nat \ {0}
ASSUME RankAssumption  == MaxRank \in Nat
ASSUME RootsAssumption == Roots \subseteq Types

VARIABLES calls,           \* the active calls of __autarkie_generate
          outcome          \* of the last generation

genVars == <<ty_generate_map, calls, outcome>>

----------------------------------------------------------------------------
DerivedTypes == {t \in Types : Kind[t] \in Derived}

Marking(t) == [rec : SUBSET Variants(t), nonrec : SUBSET Variants(t)]

(* What calculate_recursion can leave: an entry of a registered type splits *)
(* its variants into recursive and non-recursive ones.                      *)
IsGenerateMap(m) ==
  \A t \in DOMAIN m \cap DerivedTypes :
    /\ m[t] \in Marking(t)
    /\ m[t].nonrec = Variants(t) \ m[t].rec

(* One active call: the type, the depth it was called with, the depth it    *)
(* passes on and the fields it has yet to generate.                         *)
Frame == [ty : Types, depth : Nat, inner : Nat, todo : Seq(Types)]

Outcomes == {"idle", "running", "some", "none", "panic", "overflow"}

Top == calls[Len(calls)]
Callers == SubSeq(calls, 1, Len(calls) - 1)

ASSUME GenerateMapsAssumption == \A m \in GenerateMaps : IsGenerateMap(m)

----------------------------------------------------------------------------
(* Mutant: the depth limit is tested with <=.                               *)
CandidatesAtLimit(t, depth) ==
  ty_generate_map[t].nonrec \cup
    (IF depth <= GenerateDepth THEN ty_generate_map[t].rec ELSE {})

(* Visitor::generate: the variants a derived type may pick at a depth.      *)
Candidates(t, depth) ==
  ty_generate_map[t].nonrec \cup
    (IF depth < GenerateDepth THEN ty_generate_map[t].rec ELSE {})

(* Mutant: a recursive variant passes on the depth it was given.            *)
InnerDepthSame(t, v, depth) == depth

(* get_field_defs: if is_recursive {cur_depth + 1} else {cur_depth}         *)
InnerDepth(t, v, depth) ==
  IF v \in ty_generate_map[t].rec THEN depth + 1 ELSE depth

NewFrame(t, depth, inner, todo) ==
  [ty |-> t, depth |-> depth, inner |-> inner, todo |-> todo]

(* The frames a call of a derived type's generate can become once it has    *)
(* chosen its variant; none when Visitor::generate returns None.            *)
DerivedBodies(t, depth) ==
  {NewFrame(t, depth, InnerDepth(t, v, depth), Fields[t][v]) :
     v \in Candidates(t, depth)}

(* Option and Result flip a coin.                                           *)
CoinBodies(t, depth) ==
  {NewFrame(t, depth, depth, Fields[t][v]) : v \in Variants(t)}

(* Vec and Cow<[T]>: visitor.random_range(0, visitor.iterate_depth())       *)
ListBodies(t, depth) ==
  {NewFrame(t, depth, depth, [i \in 1 .. n |-> Fields[t][0][1]]) :
     n \in 0 .. IterateDepth}

(* Box, Cow and tuples generate what they hold; a leaf draws its value.     *)
PlainBodies(t, depth) == {NewFrame(t, depth, depth, Fields[t][0])}

Bodies(t, depth) ==
  IF Kind[t] \in Derived THEN DerivedBodies(t, depth)
  ELSE IF Kind[t] \in Coins THEN CoinBodies(t, depth)
  ELSE IF Kind[t] \in Lists THEN ListBodies(t, depth)
  ELSE PlainBodies(t, depth)

(* Visitor::generate: .expect("pxc9jCnK____")                               *)
Unregistered(t) == Kind[t] \in Derived /\ t \notin DOMAIN ty_generate_map

----------------------------------------------------------------------------
(* What a call of t's generate does, entered with `rest` below it.          *)
Enter(t, depth, rest) ==
  /\ Len(rest) < StackLimit
  /\ ~ Unregistered(t)
  /\ \E f \in Bodies(t, depth) : calls' = Append(rest, f)
  /\ outcome' = "running"
  /\ UNCHANGED ty_generate_map

(* None: the caller's `?` returns it, up to the first call.                 *)
GiveUp(t, depth, rest) ==
  /\ Len(rest) < StackLimit
  /\ ~ Unregistered(t)
  /\ Bodies(t, depth) = {}
  /\ calls' = << >>
  /\ outcome' = "none"
  /\ UNCHANGED ty_generate_map

Panic(t, rest) ==
  /\ Len(rest) < StackLimit
  /\ Unregistered(t)
  /\ outcome' = "panic"
  /\ UNCHANGED <<ty_generate_map, calls>>

Overflow(rest) ==
  /\ Len(rest) = StackLimit
  /\ outcome' = "overflow"
  /\ UNCHANGED <<ty_generate_map, calls>>

----------------------------------------------------------------------------
(* run_client, and GenerateReplace and GenerateAppend of the mutators: a    *)
(* generation starts at depth 0; after None run_client simply starts again. *)
Idle == outcome \in {"idle", "some", "none"}

Start(t) ==
  /\ Idle
  /\ Enter(t, 0, << >>) \/ GiveUp(t, 0, << >>) \/ Panic(t, << >>)

(* The running call's next field; what is left to do is in its frame.       *)
NextField == Head(Top.todo)
Advanced  == Append(Callers, [Top EXCEPT !.todo = Tail(@)])

AtField == outcome = "running" /\ Top.todo # << >>

Descend  == AtField /\ Enter(NextField, Top.inner, Advanced)
Fail     == AtField /\ GiveUp(NextField, Top.inner, Advanced)
Crash    == AtField /\ Panic(NextField, Advanced)
RunOut   == AtField /\ Overflow(Advanced)

(* Mutant: the outcome of the whole generation is not noted.                *)
ReturnRunning ==
  /\ outcome = "running"
  /\ Top.todo = << >>
  /\ calls' = Callers
  /\ UNCHANGED <<ty_generate_map, outcome>>

(* The value is complete: Some(..) is returned.                             *)
Return ==
  /\ outcome = "running"
  /\ Top.todo = << >>
  /\ calls' = Callers
  /\ outcome' = IF Len(calls) = 1 THEN "some" ELSE "running"
  /\ UNCHANGED ty_generate_map

GenStep == Descend \/ Fail \/ Crash \/ RunOut \/ Return
GenNext == (\E t \in Roots : Start(t)) \/ GenStep

GenInit ==
  /\ ty_generate_map \in GenerateMaps
  /\ calls = << >>
  /\ outcome = "idle"

GenSpec == GenInit /\ [][GenNext]_genVars

----------------------------------------------------------------------------
(* Which variants make their fields one level deeper: only the recursive    *)
(* ones of a derived type.                                                  *)
Deepens(m, t, v) == Kind[t] \in Derived /\ t \in DOMAIN m /\ v \in m[t].rec

(* A rank that every step from a type of S which does not go one level      *)
(* deeper lowers.  There is one exactly when every cycle of such types      *)
(* passes through a marked variant of a derived type.                       *)
Ranks(S, rank, m) ==
  \A t \in S : \A v \in Variants(t) : \A c \in FieldTypes(t, v) :
    Deepens(m, t, v) \/ rank[c] < rank[t]

Ranked(m) == \E rank \in [Types -> 0 .. MaxRank] : Ranks(Types, rank, m)

----------------------------------------------------------------------------
(* The state of a generation is what the code's types say it is.            *)
TypeOK ==
  /\ IsGenerateMap(ty_generate_map)
  /\ calls \in Seq(Frame)
  /\ outcome \in Outcomes
  /\ outcome = "running" => calls # << >>

(* The depth limit holds however deep the calls nest: "If so, we MAY pick a *)
(* recursive variant.  If not, we MAY NOT" (visitor.rs, Visitor::generate). *)
DepthBounded == \A i \in 1 .. Len(calls) : calls[i].inner <= GenerateDepth

(* DepthInfo: the depth limit is there "so self referencing types do not    *)
(* result in a stack overflow".  Where every cycle of types passes through  *)
(* a marked variant, the calls never outgrow a stack of (GenerateDepth + 1) *)
(* times the number of ranks, whatever variants are picked.                 *)
NoStackOverflow == outcome = "overflow" => ~ Ranked(ty_generate_map)
=============================================================================
