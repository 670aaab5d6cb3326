----------------------------- MODULE NodeValue -----------------------------
(***************************************************************************)
(* Values of a grammar and what `impl Node` does with them: generate,      *)
(* fields and cmps (the paths to the nodes below a value), serialized (the *)
(* types chunks are saved for) and mutate (a node replaced along a path).  *)
(* A value is a tree of nodes; a leaf has no content.  Paths are relative: *)
(* every impl pushes what it thinks the impl it calls will pop, so fields  *)
(* and mutate of different types must agree without seeing each other.     *)
(***************************************************************************)
EXTENDS NodeInput, FiniteSets

CONSTANTS ArrayLen,      \* ArrayLen[t] = N where the list t is a [T; N]
          Recursive,     \* Recursive[t]: the variants calculate_recursion marked
          GenerateDepth, \* DepthInfo.generate
          Registered     \* the types in ty_generate_map

ASSUME EntriesAssumption ==
  /\ DOMAIN Entries \subseteq {t \in Types : Kind[t] \in Leaves}
  /\ \A t \in DOMAIN Entries :
       Entries[t] \in {c \in Types : Kind[c] \in Derived \cup Leaves} \X Types
ASSUME ArrayAssumption ==
  /\ DOMAIN ArrayLen \subseteq {t \in Types : Kind[t] \in Lists}
  /\ \A t \in DOMAIN ArrayLen : ArrayLen[t] \in 1 .. 32
ASSUME RecursiveAssumption ==
  /\ DOMAIN Recursive = Types
  /\ \A t \in Types : Recursive[t] \subseteq Variants(t)
ASSUME LimitsAssumption == GenerateDepth \in Nat

----------------------------------------------------------------------------
(* A node: its type, its variant and its children.  An entry of a map is a  *)
(* node of the map's type that holds the key and the value.                 *)
Node(t, v, kids) == [ty |-> t, var |-> v, kids |-> kids]
NoValue == [ty |-> RootId, var |-> 0, kids |-> << >>]

IsArray(t) == t \in DOMAIN ArrayLen
Elem(t)    == Fields[t][0][1]

(* Box<T> is serialized as T.                                               *)
RECURSIVE Bare(_)
Bare(t) == IF Kind[t] \in Boxes THEN Bare(Elem(t)) ELSE t

WithKid(x, i, k) == [x EXCEPT !.kids = ReplaceAt(@, i, k)]

----------------------------------------------------------------------------
(* __autarkie_generate: every value it can return for a type at a depth, and*)
(* NoValue where it can return None.  `?` makes a caller's value None too.  *)
RECURSIVE Generated(_, _)

RECURSIVE KidSeqs(_, _)
KidSeqs(ts, depth) ==
  IF ts = << >> THEN {<< >>}
  ELSE {<<x>> \o rest : x \in Generated(Head(ts), depth), rest \in KidSeqs(Tail(ts), depth)}

Built(t, v, ts, depth) ==
  {IF NoValue \in ToSet(ks) THEN NoValue ELSE Node(t, v, ks) : ks \in KidSeqs(ts, depth)}

(* Visitor::generate, and one level deeper below a recursive variant        *)
GeneratedDerived(t, depth) ==
  LET candidates == {v \in Variants(t) : v \notin Recursive[t] \/ depth < GenerateDepth}
  IN  IF candidates = {} THEN {NoValue}
      ELSE UNION {Built(t, v, Fields[t][v], IF v \in Recursive[t] THEN depth + 1 ELSE depth)
                    : v \in candidates}

GeneratedList(t, depth) ==
  UNION {Built(t, 0, [i \in 1 .. n |-> Elem(t)], depth) : n \in 0 .. IterateDepth}

(* Mutant: the elements that are not None, however many they are            *)
GeneratedArrayShort(t, depth) ==
  UNION {Built(t, 0, [i \in 1 .. n |-> Elem(t)], depth) : n \in 0 .. ArrayLen[t]}

(* [T; N]: the elements that are not None must be N.                        *)
GeneratedArray(t, depth) == Built(t, 0, [i \in 1 .. ArrayLen[t] |-> Elem(t)], depth)

(* The content of a leaf is left out, a map begins without entries.         *)
GeneratedLeaf(t) == {Node(t, 0, << >>)}

Generated(t, depth) ==
  IF Kind[t] \in Derived THEN GeneratedDerived(t, depth)
  ELSE IF Kind[t] \in Leaves THEN GeneratedLeaf(t)
  ELSE IF IsArray(t) THEN GeneratedArray(t, depth)
  ELSE IF Kind[t] \in Lists THEN GeneratedList(t, depth)
  ELSE UNION {Built(t, v, Fields[t][v], depth) : v \in Variants(t)}

----------------------------------------------------------------------------
(* __autarkie_node_ty.  A map names itself where a list names its elements. *)
Iterable(fixed, len, ty) == [node |-> "iterable", fixed |-> fixed, len |-> len, elem |-> ty]
Plain(name) == [node |-> name, fixed |-> FALSE, len |-> 0, elem |-> RootId]

RECURSIVE NodeTy(_)
NodeTy(x) ==
  IF Kind[x.ty] \in Boxes THEN NodeTy(x.kids[1])
  ELSE IF Kind[x.ty] \in Lists THEN Iterable(IsArray(x.ty), Len(x.kids), Elem(x.ty))
  ELSE IF IsMap(x.ty) THEN Iterable(FALSE, Len(x.kids), x.ty)
  ELSE IF Kind[x.ty] \in Enums /\ x.var \in Recursive[x.ty] THEN Plain("recursive")
  ELSE Plain("nonrecursive")

----------------------------------------------------------------------------
(* __autarkie_fields and __autarkie_cmps: the field stacks registered on a  *)
(* walk of a value, in order.  `index` is what the caller passes on.  Only  *)
(* derived types register (register_field), in a cmps walk only leaves      *)
(* (register_cmp); the others just push (register_field_stack).             *)
At(i, x) == [at |-> i, node |-> NodeTy(x), ty |-> x.ty]

RECURSIVE Walk(_, _, _, _)

Collected(seqs) == FlattenSeq(seqs)

WalkField(stack, kid, index, mode) ==
  (IF mode = "fields" THEN <<stack>> ELSE << >>) \o Walk(kid, index, stack, mode)

(* A struct passes 0, whichever field it is.                                *)
WalkStruct(x, stack, mode) ==
  Collected([i \in 1 .. Len(x.kids) |->
    WalkField(Append(stack, At(i - 1, x.kids[i])), x.kids[i], 0, mode)])

(* An enum pushes its variant, if that has fields, and passes the field's id*)
WalkEnum(x, stack, mode) ==
  Collected([i \in 1 .. Len(x.kids) |->
    WalkField(stack \o <<At(x.var, x), At(i - 1, x.kids[i])>>, x.kids[i], i - 1, mode)])

(* Vec, Cow<[T]> and [T; N]: fields passes 0 on, cmps the element's index.  *)
WalkList(x, stack, mode) ==
  Collected([i \in 1 .. Len(x.kids) |->
    Walk(x.kids[i], IF mode = "cmps" THEN i - 1 ELSE 0, Append(stack, At(i - 1, x.kids[i])), mode)])

WalkBox(x, index, stack, mode) == Walk(x.kids[1], index, stack, mode)

(* Mutant: Some(_) pushes nothing.                                          *)
WalkOptionBare(x, index, stack, mode) ==
  IF x.kids = << >> THEN << >> ELSE Walk(x.kids[1], 0, stack, mode)

(* Some(inner) pushes the index its caller passed; None has nothing below.  *)
WalkOption(x, index, stack, mode) ==
  IF x.kids = << >> THEN << >>
  ELSE Walk(x.kids[1], 0, Append(stack, At(index, x.kids[1])), mode)

(* Result pushes the index its caller passed, and passes its variant.       *)
WalkResult(x, index, stack, mode) ==
  Walk(x.kids[1], x.var, Append(stack, [At(index, x) EXCEPT !.node = Plain("nonrecursive")]), mode)

(* BTreeMap pushes the entry; key and value are only told 0 and 1.          *)
WalkMap(x, stack, mode) ==
  Collected([i \in 1 .. Len(x.kids) |->
    LET s == Append(stack, [at |-> i - 1, node |-> Plain("nonrecursive"), ty |-> x.ty])
    IN  Walk(x.kids[i].kids[1], 0, s, mode) \o Walk(x.kids[i].kids[2], 1, s, mode)])

WalkTuple(x, stack, mode) ==
  Collected([i \in 1 .. Len(x.kids) |->
    Walk(x.kids[i], 0, Append(stack, [At(i - 1, x.kids[i]) EXCEPT !.node = Plain("nonrecursive")]), mode)])

(* A leaf that equals one side of the comparison is registered, with the    *)
(* other side as a value of its type: here all of them are.                 *)
WalkLeaf(x, stack, mode) == IF mode = "cmps" THEN <<Append(stack, At(0, x))>> ELSE << >>

Walk(x, index, stack, mode) ==
  CASE Kind[x.ty] \in Structs  -> WalkStruct(x, stack, mode)
    [] Kind[x.ty] \in Enums    -> WalkEnum(x, stack, mode)
    [] Kind[x.ty] \in Lists    -> WalkList(x, stack, mode)
    [] Kind[x.ty] \in Boxes    -> WalkBox(x, index, stack, mode)
    [] Kind[x.ty] = "option"   -> WalkOption(x, index, stack, mode)
    [] Kind[x.ty] = "result"   -> WalkResult(x, index, stack, mode)
    [] Kind[x.ty] \in Tuples   -> WalkTuple(x, stack, mode)
    [] Kind[x.ty] \in Cows     -> << >>
    [] IsMap(x.ty)             -> WalkMap(x, stack, mode)
    [] OTHER                   -> WalkLeaf(x, stack, mode)

(* input.__autarkie_fields(visitor, 0); visitor.fields()                    *)
WalkFields(x) == Walk(x, 0, << >>, "fields")

(* input.__autarkie_cmps(visitor, 0, cmp); visitor.cmps().  Which of the    *)
(* leaves equal one side of the comparison is left open.                    *)
WalkCmps(x) ==
  LET leaves == Walk(x, 0, << >>, "cmps")
  IN  {SelectSeq(leaves, LAMBDA l : l \in matching) : matching \in SUBSET ToSet(leaves)}

----------------------------------------------------------------------------
(* __autarkie_serialized: the types it saves a chunk for.  A list's elements*)
(* are saved, not the list; a derived type's fields unless they are lists.  *)
RECURSIVE Written(_)

WrittenBelow(x) == UNION {Written(k) : k \in ToSet(x.kids)}
WrittenFields(x) ==
  {k.ty : k \in {f \in ToSet(x.kids) : NodeTy(f).node # "iterable"}} \cup WrittenBelow(x)
WrittenKids(x) == {k.ty : k \in ToSet(x.kids)} \cup WrittenBelow(x)

WrittenMap(x) == UNION {WrittenKids(e) : e \in ToSet(x.kids)}

Written(x) ==
  IF Kind[x.ty] \in Structs THEN {x.ty} \cup WrittenFields(x)
  ELSE IF Kind[x.ty] \in Enums THEN WrittenFields(x)
  ELSE IF Kind[x.ty] \in Boxes \cup Cows THEN WrittenBelow(x)
  ELSE IF IsMap(x.ty) THEN WrittenMap(x)
  ELSE WrittenKids(x)

----------------------------------------------------------------------------
(* What T::__autarkie_generate returns outside of another generation, and   *)
(* the values of T that are not None.                                       *)
FromDepth0 == [t \in Types |-> Generated(t, 0)]
Values(t)  == FromDepth0[t] \ {NoValue}

(* deserialize: the values of type t the bytes were written as; {} when they*)
(* were written as something else.                                          *)
Decoded(data, t) ==
  IF data.form = "one"
  THEN IF Bare(data.of) = Bare(t) THEN Values(t) ELSE {}
  ELSE IF /\ Kind[t] \in Lists /\ Elem(t) = data.of
          /\ IsArray(t) <=> data.form = "bare"
       THEN {Node(t, 0, ks) : ks \in [1 .. data.len -> Values(data.of)]}
       ELSE {}

----------------------------------------------------------------------------
(* What a call of __autarkie_mutate leaves: the value, the types it adds to *)
(* Visitor.serialized, or the panic it ends in.                             *)
Done(x, pending) == [val |-> x, pending |-> pending, out |-> "ok"]
Panicked(why)    == [val |-> NoValue, pending |-> {}, out |-> why]
Unreachable      == {Panicked("unreachable")}
Missing          == {Panicked("missing")}      \* an index past the end
Misread          == {Panicked("misread")}      \* bytes of another type
Assertion        == {Panicked("assertion")}    \* debug_assert!, in debug builds

RECURSIVE MutateNode(_, _, _)

(* Mutate child i, and put it back.                                         *)
MutateKid(x, i, m, path) ==
  {IF r.out = "ok" THEN [r EXCEPT !.val = WithKid(x, i, @)] ELSE r : r \in MutateNode(x.kids[i], m, path)}

(* Bytes of another type are a panic in deserialize, or happen to fit.      *)
SpliceNode(x, data) ==
  IF Decoded(data, x.ty) = {} THEN Misread \cup {Done(v, {}) : v \in Values(x.ty)}
  ELSE {Done(v, {}) : v \in Decoded(data, x.ty)}

(* A generated value takes the place of the node, None leaves it.           *)
GenerateNode(x) ==
  {IF v = NoValue THEN Done(x, {})
   ELSE Done(v, (IF Kind[v.ty] \in Lists THEN {} ELSE {v.ty}) \cup
                (IF Kind[v.ty] \in Cows THEN {} ELSE Written(v))) : v \in FromDepth0[x.ty]}

ReplaceNode(x, m) ==
  IF m.op = "Splice" THEN SpliceNode(x, m.data)
  ELSE IF m.op = "GenerateReplace" THEN GenerateNode(x)
  ELSE Unreachable

MutateStruct(x, m, path) ==
  IF path = << >> THEN ReplaceNode(x, m)
  ELSE IF path[1] < Len(x.kids) THEN MutateKid(x, path[1] + 1, m, Tail(path))
  ELSE Unreachable

MutateTuple(x, m, path) == MutateStruct(x, m, path)

(* RecursiveReplace generates from depth 0.                                 *)
MutateEnum(x, m, path) ==
  IF path = << >>
  THEN IF m.op # "RecursiveReplace" THEN ReplaceNode(x, m)
       ELSE IF NodeTy(x).node = "recursive" THEN GenerateNode(x)
       ELSE {Done(x, {})}
  ELSE IF path[1] = x.var /\ Len(path) > 1 /\ path[2] < Len(x.kids)
  THEN MutateKid(x, path[2] + 1, m, Tail(Tail(path)))
  ELSE Unreachable

AppendNode(x, m) ==
  LET elem == Elem(x.ty)
      read == IF m.op = "GenerateAppend" THEN FromDepth0[elem] ELSE Decoded(m.data, elem)
  IN  {Done(IF v = NoValue THEN x ELSE [x EXCEPT !.kids = Append(@, v)], {}) : v \in read}
      \cup (IF read = {} THEN Misread ELSE {})

PopNode(x, i) ==
  IF i < Len(x.kids) THEN {Done([x EXCEPT !.kids = RemoveAt(@, i + 1)], {})} ELSE Missing

MutateArray(x, m, path) ==
  IF path = << >> THEN ReplaceNode(x, m)
  ELSE IF path[1] < Len(x.kids) THEN MutateKid(x, path[1] + 1, m, Tail(path))
  ELSE Missing

MutateList(x, m, path) ==
  IF path # << >> THEN MutateArray(x, m, path)
  ELSE IF m.op \in {"SpliceAppend", "GenerateAppend"} THEN AppendNode(x, m)
  ELSE IF m.op = "IterablePop" THEN PopNode(x, m.at)
  ELSE IF m.op = "RecursiveReplace" THEN {Done(x, {})}
  ELSE ReplaceNode(x, m)

(* Some takes one step of the path, whatever it is; None takes none and is  *)
(* replaced itself.                                                         *)
MutateOption(x, m, path) ==
  IF path # << >> /\ x.kids # << >> THEN MutateKid(x, 1, m, Tail(path)) ELSE ReplaceNode(x, m)

(* 0 is Ok, anything else Err.                                              *)
MutateResult(x, m, path) ==
  IF path = << >> THEN ReplaceNode(x, m)
  ELSE IF path[1] = 0 <=> x.var = 0 THEN MutateKid(x, 1, m, Tail(path))
  ELSE Unreachable

(* BTreeMap::insert: the key's place in the order is not followed, nor      *)
(* whether keys that look the same are: the entry is new or it replaces one.*)
Insert(x, e) ==
  {[x EXCEPT !.kids = InsertAt(@, i, e)] : i \in 1 .. Len(x.kids) + 1}
  \cup {WithKid(x, i, e) : i \in {j \in 1 .. Len(x.kids) : x.kids[j].kids[1] = e.kids[1]}}

Entry(x, k, v) == Node(x.ty, 0, <<k, v>>)
Without(x, i)  == [x EXCEPT !.kids = RemoveAt(@, i)]

(* K::__autarkie_generate and V's: a derived type must be registered, and a *)
(* map registers neither K nor V.                                           *)
EntryTypes(x)    == {Entries[x.ty][1], Entries[x.ty][2]}
Unregistered(x)  == \E t \in EntryTypes(x) : Kind[t] \in Derived /\ t \notin Registered
NewEntries(x) ==
  {IF NoValue \in {k, v} THEN NoValue ELSE Entry(x, k, v) :
     k \in FromDepth0[Entries[x.ty][1]], v \in FromDepth0[Entries[x.ty][2]]}

Inserted(x, entries) == UNION {IF e = NoValue THEN {x} ELSE Insert(x, e) : e \in entries}

(* An entry is removed before there is another to take its place.           *)
MutateEntry(x, i, m) ==
  LET rest == Without(x, i)
  IN  IF m.op = "GenerateReplace"
      THEN IF Unregistered(x) THEN {Panicked("unregistered")}
           ELSE UNION {IF e = NoValue THEN {Done(rest, {})}
                       ELSE {Done(y, {x.ty} \cup Written(y)) : y \in Insert(rest, e)}
                         : e \in NewEntries(x)}
      ELSE IF m.op # "Splice" THEN Unreachable
      ELSE {Done(y, {}) : y \in Inserted(rest, NewEntries(x) \ {NoValue})}
           \cup (IF Kind[m.data.of] \in Tuples /\ Fields[m.data.of][0] = Entries[x.ty]
                 THEN {} ELSE Misread)

(* The key is taken out with its value and put back.                        *)
MutateKey(x, i, m, path) ==
  UNION {IF r.out = "ok"
         THEN {[r EXCEPT !.val = y] : y \in Insert(Without(x, i), Entry(x, r.val, x.kids[i].kids[2]))}
         ELSE {r} : r \in MutateNode(x.kids[i].kids[1], m, path)}

MutateValue(x, i, m, path) ==
  {IF r.out = "ok" THEN [r EXCEPT !.val = WithKid(x, i, Entry(x, x.kids[i].kids[1], @))] ELSE r :
     r \in MutateNode(x.kids[i].kids[2], m, path)}

(* A list's chunk of its elements would fit; the one a map is given is of   *)
(* the map itself.                                                          *)
AppendEntry(x, m) ==
  IF m.op = "SpliceAppend"
  THEN Misread \cup {Done(y, {}) : y \in Inserted(x, NewEntries(x) \ {NoValue})}
  ELSE IF Unregistered(x) THEN {Panicked("unregistered")}
  ELSE {Done(y, {}) : y \in Inserted(x, NewEntries(x))}

MutateMap(x, m, path) ==
  IF path # << >>
  THEN LET i == path[1] + 1
       IN  IF i > Len(x.kids) THEN Missing
           ELSE IF Len(path) = 1 THEN MutateEntry(x, i, m)
           ELSE IF path[2] = 0 THEN MutateKey(x, i, m, Tail(Tail(path)))
           ELSE (IF path[2] > 1 THEN Assertion ELSE {}) \cup MutateValue(x, i, m, Tail(Tail(path)))
  ELSE IF m.op \in {"SpliceAppend", "GenerateAppend"} THEN AppendEntry(x, m)
  ELSE IF m.op = "IterablePop" THEN PopNode(x, m.at)
  ELSE IF m.op = "RecursiveReplace" THEN {Done(x, {})}
  ELSE ReplaceNode(x, m)

(* Node's default: leaves, Cow<T>.  What is left of the path is ignored.    *)
MutateLeaf(x, m, path) == (IF path = << >> THEN {} ELSE Assertion) \cup ReplaceNode(x, m)

MutateNode(x, m, path) ==
  CASE Kind[x.ty] \in Structs  -> MutateStruct(x, m, path)
    [] Kind[x.ty] \in Enums    -> MutateEnum(x, m, path)
    [] IsArray(x.ty)           -> MutateArray(x, m, path)
    [] Kind[x.ty] \in Lists /\ ~ IsArray(x.ty) -> MutateList(x, m, path)
    [] Kind[x.ty] \in Boxes    -> MutateKid(x, 1, m, path)
    [] Kind[x.ty] = "option"   -> MutateOption(x, m, path)
    [] Kind[x.ty] = "result"   -> MutateResult(x, m, path)
    [] Kind[x.ty] \in Tuples   -> MutateTuple(x, m, path)
    [] IsMap(x.ty)             -> MutateMap(x, m, path)
    [] OTHER                   -> MutateLeaf(x, m, path)
============================================================================
