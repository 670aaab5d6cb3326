---------------------------- MODULE Registration ----------------------------
(***************************************************************************)
(* Node::__autarkie_register and Visitor::register_ty / pop_ty: the walk   *)
(* over the fuzzed type that fills Visitor.ty_map, the type graph.  The    *)
(* impls call each other recursively; `agenda` is what their call stack    *)
(* has left to do, the next job first.  A type already on ty_map_stack or  *)
(* in ty_done is only recorded under its parent, not walked again.         *)
(***************************************************************************)
EXTENDS Grammar, TypeMap, SequencesExt

CONSTANTS Phantom,   \* PhantomData<bool>, the stand-in for "no field"
          RegRoots   \* the types a fuzzer may be started for

ASSUME PhantomAssumption ==
  Phantom \in Nat \ {RootId} /\ (Phantom \in Types => Kind[Phantom] \in Leaves)
ASSUME FiniteAssumption ==
  IsFiniteSet(Types) /\ \A t \in Types : IsFiniteSet(Variants(t))
ASSUME RegRootsAssumption == RegRoots \subseteq Types

VARIABLES ty_map_stack,  \* the types being registered, innermost last
          ty_done,       \* the types pop_ty has seen
          agenda,        \* the jobs the active register calls have left
          root           \* the fuzzed type

regVars == <<ty_map, ty_map_stack, ty_done, agenda, root>>

----------------------------------------------------------------------------
(* Jobs: visit a field's type (the is_recursive test of the caller), call   *)
(* its register, go through the variants from a given one on, record the    *)
(* stand-in of a variant without fields, pop_ty.                            *)
Visit(parent, variant, t)    == [do |-> "visit", parent |-> parent, variant |-> variant, ty |-> t]
Register(parent, variant, t) == [do |-> "register", parent |-> parent, variant |-> variant, ty |-> t]
VariantsFrom(variant, t)     == [do |-> "variants", parent |-> RootId, variant |-> variant, ty |-> t]
Unit(parent, variant)        == [do |-> "unit", parent |-> parent, variant |-> variant, ty |-> Phantom]
Pop(t)                       == [do |-> "pop", parent |-> RootId, variant |-> 0, ty |-> t]

Visits(t, v) == [i \in 1 .. Len(Fields[t][v]) |-> Visit(t, v, Fields[t][v][i])]

(* A variant of an enum or of Option without a field registers PhantomData. *)
VariantJobs(t, v) ==
  IF Fields[t][v] = << >> /\ Kind[t] \in Enums \cup Coins
  THEN << Unit(t, v) >>
  ELSE Visits(t, v)

From(t, v) == IF v \in Variants(t) THEN << VariantsFrom(v, t) >> ELSE << >>

(* What t's register does between its register_ty and its pop_ty: derived   *)
(* types, Option, Result and tuples visit their fields variant by variant,  *)
(* a type with the default register nothing.                                *)
Body(t) == IF Kind[t] \in Cows \cup Leaves THEN << >> ELSE From(t, 0)

(* Box and Vec register the type they hold in their own place.              *)
Transparent(t) == Kind[t] \in Boxes \cup Lists

----------------------------------------------------------------------------
(* Visitor::register_ty's entry into ty_map                                 *)
Recorded(parent, variant, t) ==
  LET old == IF parent \in DOMAIN ty_map THEN ty_map[parent] ELSE << >>
      ids == IF variant \in DOMAIN old THEN old[variant] ELSE {}
  IN  [p \in DOMAIN ty_map \cup {parent} |->
         IF p = parent
         THEN [v \in DOMAIN old \cup {variant} |->
                 IF v = variant THEN ids \cup {t} ELSE old[v]]
         ELSE ty_map[p]]

(* Mutant: only types that are done count as known.                         *)
is_recursiveDone(t) == t \in ty_done

(* Visitor::is_recursive                                                    *)
is_recursive(t) == t \in ToSet(ty_map_stack) \/ t \in ty_done

Job  == Head(agenda)
Rest == Tail(agenda)
At(kind) == agenda # << >> /\ Job.do = kind

(* `if !v.is_recursive(T)`: T's own register ...                            *)
VisitNew ==
  /\ At("visit")
  /\ ~ is_recursive(Job.ty)
  /\ agenda' = << Register(Job.parent, Job.variant, Job.ty) >> \o Rest
  /\ UNCHANGED <<ty_map, ty_map_stack, ty_done, root>>

(* Mutant: the pop_ty after register_ty is forgotten.                       *)
VisitKnownNoPop ==
  /\ At("visit")
  /\ is_recursive(Job.ty)
  /\ ty_map' = Recorded(Job.parent, Job.variant, Job.ty)
  /\ ty_map_stack' = Append(ty_map_stack, Job.ty)
  /\ agenda' = Rest
  /\ UNCHANGED <<ty_done, root>>

(* Mutant: a known type is skipped, not recorded under its parent.          *)
VisitKnownSkipped ==
  /\ At("visit")
  /\ is_recursive(Job.ty)
  /\ agenda' = Rest
  /\ UNCHANGED <<ty_map, ty_map_stack, ty_done, root>>

(* ... `else`: register_ty and pop_ty, nothing in between.                  *)
VisitKnown ==
  /\ At("visit")
  /\ is_recursive(Job.ty)
  /\ ty_map' = Recorded(Job.parent, Job.variant, Job.ty)
  /\ ty_done' = ty_done \cup {Job.ty}
  /\ agenda' = Rest
  /\ UNCHANGED <<ty_map_stack, root>>

(* Mutant: Box<T> registers Box<T> again in place of T.                     *)
RegisterInnerSelf ==
  /\ At("register")
  /\ Transparent(Job.ty)
  /\ agenda' = << Visit(Job.parent, Job.variant, Job.ty) >> \o Rest
  /\ UNCHANGED <<ty_map, ty_map_stack, ty_done, root>>

(* Mutant: Box<T> and Vec<T> do not register T.                             *)
RegisterInnerNot ==
  /\ At("register")
  /\ Transparent(Job.ty)
  /\ agenda' = Rest
  /\ UNCHANGED <<ty_map, ty_map_stack, ty_done, root>>

RegisterInner ==
  /\ At("register")
  /\ Transparent(Job.ty)
  /\ agenda' = << Visit(Job.parent, Job.variant, Fields[Job.ty][0][1]) >> \o Rest
  /\ UNCHANGED <<ty_map, ty_map_stack, ty_done, root>>

(* Mutant: the parent is pushed in place of the type.                       *)
RegisterTypeParent ==
  /\ At("register")
  /\ ~ Transparent(Job.ty)
  /\ ty_map_stack' = Append(ty_map_stack, Job.parent)
  /\ ty_map' = Recorded(Job.parent, Job.variant, Job.ty)
  /\ agenda' = Body(Job.ty) \o << Pop(Job.ty) >> \o Rest
  /\ UNCHANGED <<ty_done, root>>

RegisterType ==
  /\ At("register")
  /\ ~ Transparent(Job.ty)
  /\ ty_map_stack' = Append(ty_map_stack, Job.ty)
  /\ ty_map' = Recorded(Job.parent, Job.variant, Job.ty)
  /\ agenda' = Body(Job.ty) \o << Pop(Job.ty) >> \o Rest
  /\ UNCHANGED <<ty_done, root>>

(* The code of a variant, then that of the next one                         *)
RegisterVariant ==
  /\ At("variants")
  /\ agenda' = VariantJobs(Job.ty, Job.variant) \o From(Job.ty, Job.variant + 1) \o Rest
  /\ UNCHANGED <<ty_map, ty_map_stack, ty_done, root>>

(* register_ty of PhantomData, then pop_ty                                  *)
RegisterUnit ==
  /\ At("unit")
  /\ ty_map' = Recorded(Job.parent, Job.variant, Phantom)
  /\ ty_done' = ty_done \cup {Phantom}
  /\ agenda' = Rest
  /\ UNCHANGED <<ty_map_stack, root>>

(* Visitor::pop_ty marks what is on top of the stack as done.               *)
pop_ty ==
  /\ At("pop")
  /\ ty_map_stack # << >>
  /\ ty_done' = ty_done \cup {Last(ty_map_stack)}
  /\ ty_map_stack' = Front(ty_map_stack)
  /\ agenda' = Rest
  /\ UNCHANGED <<ty_map, root>>

(* I::__autarkie_register(&mut visitor, None, 0)                            *)
RegInit ==
  /\ ty_map = << >>
  /\ ty_map_stack = << >>
  /\ ty_done = {}
  /\ root \in RegRoots
  /\ agenda = << Register(RootId, 0, root) >>

Registered == agenda = << >>

RegNext ==
  VisitNew \/ VisitKnown \/ RegisterInner \/ RegisterType \/ RegisterVariant \/ RegisterUnit \/ pop_ty

RegSpec == RegInit /\ [][RegNext]_regVars /\ WF_regVars(RegNext)

----------------------------------------------------------------------------
(* Reference: the type graph the walk is meant to leave.                    *)

(* The type a field is recorded as: what its boxes and vectors hold.        *)
Strip[t \in Types] == IF Transparent(t) THEN Strip[Fields[t][0][1]] ELSE t

(* A Rust type is a finite term: what a box or a vector holds is a part of  *)
(* it, so that none is in itself but through a type of another kind.        *)
Nesting[t \in Types] == IF Transparent(t) THEN Nesting[Fields[t][0][1]] + 1 ELSE 0

ASSUME NestingAssumption ==
  \A t \in Types : /\ Nesting[t] \in Nat
                   /\ Transparent(t) => Nesting[Fields[t][0][1]] < Nesting[t]

(* The types recorded under a variant.                                      *)
Children(t, v) ==
  IF VariantJobs(t, v) = << Unit(t, v) >> THEN {Phantom}
  ELSE {Strip[c] : c \in FieldTypes(t, v)}

Walked(t) == Kind[t] \notin Cows \cup Leaves

ChildTypes(t) ==
  IF Walked(t) THEN (UNION {Children(t, v) : v \in Variants(t)}) \cap Types ELSE {}

(* The types reachable from some types in the graph.                        *)
Closure[S \in SUBSET Types] ==
  LET next == S \cup UNION {ChildTypes(t) : t \in S}
  IN  IF next = S THEN S ELSE Closure[next]

Reachable == Closure[{Strip[root]}]

Parents == {t \in Reachable : Walked(t) /\ \E v \in Variants(t) : Children(t, v) # {}}

TypeGraph ==
  [p \in Parents \cup {RootId} |->
     IF p = RootId THEN [v \in {0} |-> {Strip[root]}]
     ELSE [v \in {w \in Variants(p) : Children(p, w) # {}} |-> Children(p, v)]]

----------------------------------------------------------------------------
Ids == Types \cup {Phantom}

RegTypeOK ==
  /\ root \in RegRoots
  /\ ty_map_stack \in Seq(Types)
  /\ ty_done \subseteq Ids
  /\ DOMAIN ty_map \subseteq Types \cup {RootId}
  /\ \A p \in DOMAIN ty_map : \A v \in DOMAIN ty_map[p] : ty_map[p][v] \subseteq Ids

Pops == {i \in 1 .. Len(agenda) : agenda[i].do = "pop"}

(* Every pop_ty still to come finds its own type on top of ty_map_stack,    *)
(* the pops to come being those of the types on it from the innermost on    *)
(* (visitor.rs, pop_ty: the pop must not fail), although a stack shared by  *)
(* all impls is pushed and popped by each of them on its own.               *)
PopsMatch ==
  \E place \in [1 .. Len(ty_map_stack) -> Pops] :
    /\ \A j, k \in 1 .. Len(ty_map_stack) : j < k => place[k] < place[j]
    /\ \A i \in Pops : \E k \in 1 .. Len(ty_map_stack) : place[k] = i
    /\ \A k \in 1 .. Len(ty_map_stack) : agenda[place[k]].ty = ty_map_stack[k]

(* A register_ty that begins the walk of a type meets one that is neither   *)
(* being walked nor was walked before: otherwise the registration of a      *)
(* recursive type would not end, and a type that several others hold would  *)
(* be walked for each of them.                                              *)
WalkedOnce ==
  [][Len(ty_map_stack') > Len(ty_map_stack) =>
       Last(ty_map_stack') \notin ToSet(ty_map_stack) \cup ty_done]_regVars

(* When the walk is over, ty_map is the type graph of the fuzzed type: each *)
(* reachable type with each of its variants and exactly the types behind    *)
(* the fields of that variant, whatever was cut short as already known.     *)
MapsTheGrammar == Registered => ty_map = TypeGraph

(* The walk of a recursive grammar ends.                                    *)
RegistrationEnds == <>Registered
=============================================================================
