---------------------------- MODULE Minimization ----------------------------
(***************************************************************************)
(* The stages that make the scheduled testcase smaller, on values.          *)
(* MinimizationStage and NoveltyMinimizationStage drop elements of          *)
(* iterables one by one, RecursiveMinimizationStage replaces recursive      *)
(* nodes by generated ones.  Both walk a list of fields that was collected  *)
(* before, and collect it again whenever the smaller input covers as much;  *)
(* whether it does is the target's choice.                                  *)
(***************************************************************************)
EXTENDS NodeInput

VARIABLES pass,      \* "iterables" or "recursive"
          over,      \* the stage is through
          fields,    \* the fields that have not been looked at
          shuffled,  \* the fields were shuffled: any of them may be the last
          cursor,    \* the iterable whose elements are tried
          skip, cur_iter,
          found,     \* some smaller input covered as much
          refused    \* history: what was tried in vain since the input changed

minOnly == <<pass, over, fields, shuffled, cursor, skip, cur_iter, found, refused>>
minVars == <<inputOnly, minOnly>>

NoList == [field |-> << >>, len |-> 0, counter |-> 0]

Going(which) == pass = which /\ ~ over /\ outcome = "ok"
Tries(f, i) == <<PathOf(f), i>>

(* let field = fields.pop(): the last one, or any while they are shuffled   *)
Popped(f) ==
  \E i \in IF shuffled THEN 1 .. Len(fields) ELSE {Len(fields)} :
    i > 0 /\ f = fields[i] /\ fields' = RemoveAt(fields, i)

----------------------------------------------------------------------------
(* The elements but the last of an iterable that can lose some              *)
Trying == cursor.field # << >>
MoreToTry == cursor.len # 0 /\ cursor.counter < cursor.len

NextList(f) ==
  /\ Going("iterables") /\ ~ Trying
  /\ Popped(f)
  /\ cursor' = IF Growable(f) /\ Last(f).node.len > 0
               THEN [field |-> f, len |-> Last(f).node.len - 1, counter |-> 0]
               ELSE NoList
  /\ UNCHANGED <<input, serialized, chunks, outcome,
                 pass, over, shuffled, skip, cur_iter, found, refused>>

Panic(why) ==
  /\ outcome' = why
  /\ UNCHANGED <<input, serialized, chunks, minOnly>>

(* Mutant: the fields of the bigger input go on being used.                 *)
AcceptStale(x) ==
  /\ input' = x
  /\ found' = TRUE
  /\ refused' = {}
  /\ UNCHANGED <<fields, shuffled>>

(* The smaller input is kept, and its fields are collected.                 *)
Accept(x) ==
  /\ input' = x
  /\ fields' = FieldsOf(x)
  /\ shuffled' = FALSE
  /\ found' = TRUE
  /\ refused' = {}

(* Mutant: the fields are collected whether or not the input is kept.       *)
RefuseAndCollect(try) ==
  /\ fields' = FieldsOf(input) /\ shuffled' = FALSE
  /\ refused' = refused \cup {try}
  /\ UNCHANGED <<input, found>>

Refuse(try) ==
  /\ refused' = refused \cup {try}
  /\ UNCHANGED <<input, fields, shuffled, found>>

(* Mutant: the bound of the loop stays where it was.                        *)
ShorterKept == [cursor EXCEPT !.counter = @ + 1]

Shorter == [cursor EXCEPT !.len = @ - 1, !.counter = @ + 1]
Longer  == [cursor EXCEPT !.counter = @ + 1]

(* Element `counter` of the clone is popped, and the clone is run.          *)
PopElement ==
  /\ Going("iterables") /\ Trying /\ MoreToTry
  /\ \E r \in Mutate(input, IterablePop(cursor.counter), PathOf(cursor.field)) :
       IF r.out # "ok" THEN Panic(r.out)
       ELSE /\ \/ Accept(r.val) /\ cursor' = Shorter
               \/ Refuse(Tries(cursor.field, cursor.counter)) /\ cursor' = Longer
            /\ UNCHANGED <<serialized, chunks, outcome, pass, over, skip, cur_iter>>

LeaveList ==
  /\ Going("iterables") /\ Trying /\ ~ MoreToTry
  /\ cursor' = NoList
  /\ UNCHANGED <<input, serialized, chunks, outcome,
                 pass, over, fields, shuffled, skip, cur_iter, found, refused>>

----------------------------------------------------------------------------
(* Not a recursive node, or one of the first `skip` of them                 *)
PassOver ==
  /\ Going("recursive") /\ fields # << >>
  /\ ~ IsRecursive(Last(fields)) \/ cur_iter < skip
  /\ cur_iter' = IF IsRecursive(Last(fields)) THEN cur_iter + 1 ELSE cur_iter
  /\ fields' = Front(fields)
  /\ UNCHANGED <<input, serialized, chunks, outcome,
                 pass, over, shuffled, cursor, skip, found, refused>>

(* Running it may add it to the corpus, with what was generated for it.     *)
Evaluated(pending) ==
  \/ serialized' = serialized \cup pending /\ UNCHANGED chunks
  \/ serialized' = {} /\ chunks' = chunks \cup serialized \cup pending

(* Mutant: only a replacement that is kept counts as an iteration.          *)
CountIterationKept(kept) == cur_iter' = IF kept THEN 1 ELSE cur_iter

CountIteration(kept) == cur_iter' = IF kept THEN 1 ELSE cur_iter + 1

ReplaceRecursive ==
  /\ Going("recursive") /\ fields # << >>
  /\ IsRecursive(Last(fields)) /\ cur_iter >= skip
  /\ \E r \in Mutate(input, RecursiveReplace, PathOf(Last(fields))) :
       IF r.out # "ok" THEN Panic(r.out)
       ELSE /\ Evaluated(r.pending)
            /\ \/ Accept(r.val) /\ CountIteration(TRUE) /\ UNCHANGED skip
               \/ /\ refused' = refused \cup {Tries(Last(fields), 0)}
                  /\ fields' = Front(fields)
                  /\ skip' = skip + 1 /\ CountIteration(FALSE)
                  /\ UNCHANGED <<input, shuffled, found>>
            /\ UNCHANGED <<outcome, pass, over, cursor>>

(* set_input(current), or add_input where novelty is kept                   *)
FinishPass ==
  /\ Going(pass) /\ fields = << >> /\ ~ Trying
  /\ over' = TRUE
  /\ UNCHANGED <<input, serialized, chunks, outcome,
                 pass, fields, shuffled, cursor, skip, cur_iter, found, refused>>

(* MinimizationStage shuffles the fields.  NoveltyMinimizationStage does    *)
(* not: its order is one of those.                                          *)
MinInit ==
  /\ outcome = "ok"
  /\ pass \in {"iterables", "recursive"} /\ over = FALSE
  /\ fields = FieldsOf(input)
  /\ shuffled = (pass = "iterables")
  /\ cursor = NoList
  /\ skip = 0 /\ cur_iter = 0
  /\ found = FALSE
  /\ refused = {}

MinNext ==
  \/ \E f \in ToSet(fields) : NextList(f)
  \/ PopElement \/ LeaveList \/ PassOver \/ ReplaceRecursive \/ FinishPass

MinSpec == MinInit /\ [][MinNext]_minVars

----------------------------------------------------------------------------
(* Although `counter` moves on after an element was dropped and the next    *)
(* one has taken its place: when the stage is through, every element but    *)
(* the last of every iterable has been tried, and refused, in the very      *)
(* input that is kept.                                                      *)
LocallyMinimal ==
  pass = "iterables" /\ over =>
    \A f \in ToSet(FieldsOf(input)) :
      Growable(f) => \A i \in 0 .. Last(f).node.len - 2 : Tries(f, i) \in refused

(* `counter` stays within the shorter list: no pop is past the end, unless  *)
(* a Result or a map is above the iterable.                                 *)
PopsInRange == pass = "iterables" /\ outcome # "ok" => Crooked(cursor.field)

(* When nothing could be replaced, `skip` and `cur_iter` have left no       *)
(* recursive node untried.                                                  *)
RecursiveTriesAll ==
  pass = "recursive" /\ over /\ ~ found =>
    \A f \in ToSet(FieldsOf(input)) : IsRecursive(f) => Tries(f, 0) \in refused

(* However often the fields are collected again, minimizing iterables ends. *)
MinimizationEnds == pass = "iterables" ~> over \/ outcome # "ok"
=============================================================================
