------------------------------ MODULE Mutators ------------------------------
(***************************************************************************)
(* The mutators of one client, on values.  Each collects the input's fields,*)
(* draws one and calls __autarkie_mutate along its path, some of them       *)
(* several times: the calls that are left (todo) keep the path and the      *)
(* length that were read before the first of them.                          *)
(***************************************************************************)
EXTENDS NodeInput

CONSTANTS MaxSubslice,  \* max_subslice_size
          MaxRounds     \* mutators run one after the other: a bound of the model

ASSUME MutBoundsAssumption == MaxSubslice \in Nat \ {0} /\ MaxRounds \in Nat

VARIABLES mutator,     \* the mutator that runs, "none" between two of them
          field,       \* the field it drew, << >> if it drew none
          todo,        \* the calls of __autarkie_mutate it will make
          rounds

mutOnly == <<mutator, field, todo, rounds>>
mutVars == <<inputOnly, mutOnly>>

----------------------------------------------------------------------------
(* One call of __autarkie_mutate at the field, or at one of its elements    *)
Call(m, path, f) == [m |-> m, path |-> path, below |-> f]
Here(f, m)       == Call(m, PathOf(f), f)
Element(f, i, m) == Call(m, Append(PathOf(f), i), f)

Times(n, call) == [i \in 1 .. n |-> call]

(* calculate_subslice_bounds: start .. end, the end not included            *)
Subslices(len) ==
  {<<start, IF end - start > MaxSubslice THEN start + MaxSubslice ELSE end>> :
     start \in 0 .. len - 1, end \in 0 .. len} \cap {b \in (0 .. len) \X (0 .. len) : b[1] <= b[2]}

EachOf(f, bounds, m) ==
  [i \in 1 .. bounds[2] - bounds[1] |-> Element(f, bounds[1] + i - 1, m)]

Run(name, f, calls) ==
  /\ mutator' = name /\ field' = f /\ todo' = calls
  /\ UNCHANGED <<input, serialized, chunks, outcome, rounds>>

Ready == outcome = "ok" /\ mutator = "none" /\ rounds < MaxRounds

(* random_range(0, fields.len() - 1) without fields                         *)
Underflow(name) ==
  /\ FieldsOf(input) = << >>
  /\ outcome' = "underflow" /\ mutator' = name /\ field' = << >>
  /\ UNCHANGED <<input, todo, serialized, chunks, rounds>>

(* AutarkieRandomMutator: skipped for an iterable of less than three.       *)
Random ==
  /\ Ready
  /\ \/ Underflow("random")
     \/ \E f \in ToSet(FieldsOf(input)) :
          IF IsIterable(f)
          THEN /\ Last(f).node.len >= 3
               /\ \E b \in Subslices(Last(f).node.len) :
                    Run("random", f, EachOf(f, b, GenerateReplace))
          ELSE Run("random", f, <<Here(f, GenerateReplace)>>)

(* AutarkieSpliceMutator: skipped without a chunk of the type.              *)
SpliceOne(f) ==
  /\ ~ IsIterable(f) /\ Last(f).ty \in chunks
  /\ Run("splice", f, <<Here(f, Splice(Chunk(Last(f).ty)))>>)

SpliceSubslice(f) ==
  /\ IsIterable(f) /\ Last(f).node.len > 3 /\ Last(f).node.elem \in chunks
  /\ \E b \in Subslices(Last(f).node.len) :
       Run("splice", f, EachOf(f, b, Splice(Chunk(Last(f).node.elem))))

(* Mutant: one chunk too few behind the length                              *)
SpliceShort(f) ==
  /\ IsIterable(f) /\ Last(f).node.elem \in chunks
  /\ LET n == Last(f).node
     IN  Run("splice", f, <<Here(f, Splice(Chunks(n.elem, IF n.len > 0 THEN n.len - 1 ELSE 0, n.fixed)))>>)

(* "unfortunately we need to replace the exact amount."                     *)
SpliceFull(f) ==
  /\ IsIterable(f) /\ Last(f).node.elem \in chunks
  /\ LET n == Last(f).node
     IN  Run("splice", f, <<Here(f, Splice(Chunks(n.elem, n.len, n.fixed)))>>)

SpliceInput ==
  /\ Ready
  /\ \/ Underflow("splice")
     \/ \E f \in ToSet(FieldsOf(input)) : SpliceOne(f) \/ SpliceSubslice(f) \/ SpliceFull(f)

(* AutarkieSpliceAppendMutator                                              *)
SpliceAppendInput ==
  /\ Ready
  /\ \E f \in ToSet(FieldsOf(input)) :
       /\ Growable(f) /\ Last(f).node.elem \in chunks
       /\ Run("append", f, <<Here(f, SpliceAppend(Chunk(Last(f).node.elem)))>>)

(* AutarkieGenerateAppendMutator                                            *)
GenerateAppendInput ==
  /\ Ready
  /\ \E f \in ToSet(FieldsOf(input)), n \in 1 .. IterateDepth :
       Growable(f) /\ Run("append", f, Times(n, Here(f, GenerateAppend)))

(* AutarkieIterablePopMutator                                               *)
PopInput ==
  /\ Ready
  /\ \/ Underflow("pop")
     \/ \E f \in ToSet(FieldsOf(input)) :
          /\ Growable(f)
          /\ \E i \in 0 .. Last(f).node.len - 1 : Run("pop", f, <<Here(f, IterablePop(i))>>)

(* One comparison of AutarkieCmpLogStage: the leaves that match, in order,  *)
(* each replaced by the other side, the input not reset in between.  It is  *)
(* evaluated after each of them; a splice leaves nothing pending to store.  *)
CmpCall(leaf) == Call(Splice(Chunk(Last(leaf).ty)), PathOf(Front(leaf)), leaf)

CmplogInput ==
  /\ Ready
  /\ \E leaves \in CmpsOf(input) :
       /\ leaves # << >>
       /\ Run("cmplog", << >>, [i \in 1 .. Len(leaves) |-> CmpCall(leaves[i])])

----------------------------------------------------------------------------
(* input.__autarkie_mutate(.., path)                                        *)
Apply ==
  /\ outcome = "ok" /\ todo # << >>
  /\ \E r \in Mutate(input, Head(todo).m, Head(todo).path) :
       IF r.out = "ok"
       THEN /\ input' = r.val
            /\ serialized' = serialized \cup r.pending
            /\ todo' = Tail(todo)
            /\ UNCHANGED <<mutator, field, chunks, outcome, rounds>>
       ELSE outcome' = r.out /\ UNCHANGED <<input, mutator, field, todo, serialized, chunks, rounds>>

(* The mutated input is run: if it is added, register_input stores what is  *)
(* pending; then the stage drains it.                                       *)
Evaluate ==
  /\ outcome = "ok" /\ mutator # "none" /\ todo = << >>
  /\ chunks' \in {chunks, chunks \cup serialized}
  /\ serialized' = {}
  /\ mutator' = "none" /\ field' = << >>
  /\ rounds' = rounds + 1
  /\ UNCHANGED <<input, todo, outcome>>

MutInit ==
  /\ mutator = "none" /\ field = << >> /\ todo = << >>
  /\ outcome = "ok"
  /\ rounds = 0

MutNext ==
  \/ Random \/ SpliceInput \/ SpliceAppendInput \/ GenerateAppendInput \/ PopInput \/ CmplogInput
  \/ Apply \/ Evaluate

MutSpec == MutInit /\ [][MutNext]_mutVars

----------------------------------------------------------------------------
(* What a mutator calls mutate with, by what the call does to the fields    *)
ReplaceCalls(f) == {Here(f, GenerateReplace), Here(f, Splice(Chunk(Last(f).ty)))}
ElementCalls(f) ==
  {Element(f, i, m) : i \in 0 .. Last(f).node.len - 1,
                      m \in {GenerateReplace, Splice(Chunk(Last(f).node.elem))}}
FullCall(f) ==
  LET n == Last(f).node IN Here(f, Splice(Chunks(n.elem, n.len, n.fixed)))
AppendCalls(f) == {Here(f, GenerateAppend), Here(f, SpliceAppend(Chunk(Last(f).node.elem)))}

(* The next call is one of these.                                           *)
Calls(S) == todo # << >> /\ \E c \in S : c.m = Head(todo).m /\ c.path = Head(todo).path
Called == Mutate(input, Head(todo).m, Head(todo).path)

(* The iterable stays where it was found, with one of these lengths.        *)
Keeps(f, r, lens) == \E g \in ToSet(FieldsOf(r.val)), n \in lens : Resized(f, g, n)

(* The path a walk collects leads mutate to a node of the type the walk     *)
(* found there, for every field and every leaf, unless there is a Result or *)
(* a map: what every impl of Node pushes is what the next one pops.  A node *)
(* is replaced by one of its type; what is done to the elements of an       *)
(* iterable leaves it, and a leaf the other leaves, where a walk finds them.*)
FieldsLead ==
  \A f \in {s \in ToSet(FieldsOf(input)) : Straight(s)} :
    LET len == Last(f).node.len IN
    /\ ~ IsIterable(f) /\ Calls(ReplaceCalls(f)) => \A r \in Called : r.out = "ok"
    /\ IsIterable(f) /\ Calls(ElementCalls(f) \cup {FullCall(f)}) =>
         \A r \in Called : r.out = "ok" /\ Keeps(f, r, {len})
    /\ Growable(f) /\ Calls(AppendCalls(f)) =>
         \A r \in Called : r.out = "ok" /\ Keeps(f, r, {len, len + 1})

LeavesLead ==
  mutator = "cmplog" /\ todo # << >> =>
    LET leaf == Head(todo).below IN
    \A r \in Called :
      /\ leaf \in CmpLeaves(input) /\ ~ Crooked(leaf) => r.out = "ok"
      /\ r.out = "ok" => \A l \in CmpLeaves(input) : Crooked(l) \/ l \in CmpLeaves(r.val)

PathsLead == PopsShorten /\ FieldsLead /\ LeavesLead

(* A mutator panics only for an input without fields, or at a map or below  *)
(* a map or a Result.                                                       *)
PanicsAreKnown ==
  outcome # "ok" /\ mutator # "none" =>
    \/ FieldsOf(input) = << >> /\ todo = << >>
    \/ todo # << >> /\ ~ Straight(Head(todo).below)

(* Splice and GenerateReplace leave a list at the length it had when its    *)
(* subslice was drawn, so that no index drawn with it is past the end.      *)
LengthsKept ==
  (mutator \in {"random", "splice"} /\ outcome = "ok" /\ IsIterable(field))
    => \/ ~ Straight(field)
       \/ \E g \in ToSet(FieldsOf(input)) :
            PathOf(g) = PathOf(field) /\ Last(g).node.len = Last(field).node.len
=============================================================================
