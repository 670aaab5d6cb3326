----------------------------- MODULE NodeInput -----------------------------
(***************************************************************************)
(* The input a stage works on, as the stage sees it: a value of a type that *)
(* is only known to implement `Node`.  What a stage knows of the value are  *)
(* the fields that were collected from it, and what it can do is to mutate  *)
(* it along the path to one of them.                                        *)
(***************************************************************************)
EXTENDS Grammar, SequencesExt

CONSTANTS FieldsOf(_),     \* __autarkie_fields: the fields collected from a value
          CmpsOf(_),       \* __autarkie_cmps: the lists of leaves a comparison can match
          Mutate(_, _, _), \* __autarkie_mutate: what a value can become
          Entries,         \* Entries[t] = <<K, V>> where t is a BTreeMap<K, V>
          IterateDepth     \* DepthInfo.iterate

ASSUME IterateAssumption == IterateDepth \in Nat

VARIABLES input,       \* the value that is mutated
          serialized,  \* the types of the fragments in Visitor.serialized
          chunks,      \* the types with a chunk in type_input_map
          outcome      \* "ok", or the panic that ended the client

inputOnly == <<input, serialized, chunks, outcome>>

IsMap(t) == t \in DOMAIN Entries

----------------------------------------------------------------------------
(* A field is the stack of nodes that leads to it.                          *)
NodeTypes ==
  [node : {"iterable", "recursive", "nonrecursive"}, fixed : BOOLEAN,
   len : Nat, elem : Types \cup {RootId}]
Stacks == {s \in Seq([at : Nat, node : NodeTypes, ty : Types]) : s # << >>}

(* A leaf that matches comes with its type as one more element of its stack.*)
CmpLeaves(x) == UNION {ToSet(leaves) : leaves \in CmpsOf(x)}

FieldsTyped == FieldsOf(input) \in Seq(Stacks) /\ CmpsOf(input) \subseteq Seq(Stacks)

(* The mutators' VecDeque::from_iter(field.iter().map(|(i, ty)| i.0))       *)
PathOf(field) == [i \in 1 .. Len(field) |-> field[i].at]

IsIterable(f)  == Last(f).node.node = "iterable"
IsRecursive(f) == Last(f).node.node = "recursive"

(* Mutant: arrays grow, too.                                                *)
GrowableAll(f) == IsIterable(f)

(* The iterables an element can be appended to or popped from               *)
Growable(f) == IsIterable(f) /\ ~ Last(f).node.fixed

(* A Result or a map is above what the stack leads to.                      *)
Crooked(stack) ==
  \E i \in 1 .. Len(stack) - 1 : Kind[stack[i].ty] = "result" \/ IsMap(stack[i].ty)

(* Neither is, and it does not lead to a map.                               *)
Straight(stack) == ~ Crooked(stack) /\ ~ IsMap(Last(stack).ty)

----------------------------------------------------------------------------
(* MutationType.  What a splice is given: one chunk of a type, or chunks of *)
(* an element type one after the other, behind a length (serialize_vec_len) *)
(* or, for an array, without one.                                           *)
Mutation(op, data, at) == [op |-> op, data |-> data, at |-> at]
NoData == [of |-> RootId, form |-> "none", len |-> 0]
Chunk(t) == [of |-> t, form |-> "one", len |-> 1]
Chunks(t, n, fixed) == [of |-> t, form |-> IF fixed THEN "bare" ELSE "prefixed", len |-> n]

Splice(data)       == Mutation("Splice", data, 0)
SpliceAppend(data) == Mutation("SpliceAppend", data, 0)
GenerateReplace    == Mutation("GenerateReplace", NoData, 0)
GenerateAppend     == Mutation("GenerateAppend", NoData, 0)
IterablePop(i)     == Mutation("IterablePop", NoData, i)
RecursiveReplace   == Mutation("RecursiveReplace", NoData, 0)

(* The field g is the iterable f, but has n elements.                       *)
Resized(f, g, n) ==
  /\ Len(g) = Len(f)
  /\ \A i \in 1 .. Len(f) : g[i].at = f[i].at /\ g[i].ty = f[i].ty
  /\ Last(g).node = [Last(f).node EXCEPT !.len = n]

(* An element that is popped along the path to an iterable leaves the       *)
(* iterable where it was found, one element shorter.                        *)
PopsShorten ==
  \A f \in ToSet(FieldsOf(input)) :
    Growable(f) /\ ~ Crooked(f) =>
      \A i \in 0 .. Last(f).node.len - 1 :
        \A r \in Mutate(input, IterablePop(i), PathOf(f)) :
          /\ r.out = "ok"
          /\ \E g \in ToSet(FieldsOf(r.val)) : Resized(f, g, Last(f).node.len - 1)
=============================================================================
