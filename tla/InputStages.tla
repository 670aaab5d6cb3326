---------------------------- MODULE InputStages ----------------------------
(***************************************************************************)
(* What the stages of a client do to the scheduled testcase: one of the     *)
(* minimization stages, the bytes of the cmplog stage, or its values and    *)
(* the mutators.  A stage gets a clone of the testcase's input, so each of  *)
(* them is started with every input.                                        *)
(***************************************************************************)
EXTENDS NodeValue, Mutators, Minimization, CmpBytes

CONSTANTS MutRoots,  \* the fuzzed types considered
          Imported   \* values loaded from a corpus directory

ASSUME MutRootsAssumption == MutRoots \subseteq Types
ASSUME ImportedAssumption == \A x \in Imported : x.ty \in MutRoots

VARIABLE stage

inputVars == <<stage, mutVars, minOnly, bytesVars>>

(* What a stage that does not run is left at                                *)
BytesIdle ==
  /\ size = 0 /\ original = << >> /\ bytes = << >>
  /\ width = 1 /\ chunk = [j \in {0} |-> CHOOSE b \in Byte : TRUE]
  /\ start = 0 /\ search = "over"

MinIdle ==
  /\ pass = "none" /\ over = TRUE
  /\ fields = << >> /\ shuffled = FALSE /\ cursor = NoList
  /\ skip = 0 /\ cur_iter = 0 /\ found = FALSE /\ refused = {}

(* The corpus holds the input, its fragments are stored.                    *)
Inputs == UNION {Values(t) : t \in MutRoots} \cup Imported
Scheduled == input \in Inputs /\ chunks = Written(input) /\ serialized = {}

Init ==
  /\ Scheduled
  /\ stage \in {"minimize", "bytes", "mutate"}
  /\ IF stage = "minimize" THEN MutInit /\ MinInit /\ BytesIdle
     ELSE IF stage = "bytes" THEN MutInit /\ input \in Imported /\ MinIdle /\ BytesInit
     ELSE MutInit /\ MinIdle /\ BytesIdle

Minimize == stage = "minimize" /\ MinNext /\ UNCHANGED <<stage, mutOnly, bytesVars>>
CmplogBytes == stage = "bytes" /\ BytesNext /\ UNCHANGED <<stage, mutVars, minOnly>>
MutateInput == stage = "mutate" /\ MutNext /\ UNCHANGED <<stage, minOnly, bytesVars>>

Next == Minimize \/ CmplogBytes \/ MutateInput

(* Each stage is a loop of one thread that runs until it returns.  Nothing  *)
(* is asked of the mutators, which are run a number of times.               *)
InputSpec ==
  /\ Init /\ [][Next]_inputVars
  /\ WF_inputVars(Minimize) /\ WF_inputVars(CmplogBytes)

----------------------------------------------------------------------------
RECURSIVE WellFormed(_)
(* A value is one its type can have: a variant of it, with a value of each  *)
(* of the variant's field types, an array with all its elements.            *)
WellFormed(x) ==
  /\ IF Kind[x.ty] \in Lists
     THEN /\ \A k \in ToSet(x.kids) : k.ty = Elem(x.ty)
          /\ IsArray(x.ty) => Len(x.kids) = ArrayLen[x.ty]
     ELSE IF IsMap(x.ty)
     THEN \A e \in ToSet(x.kids) : <<e.kids[1].ty, e.kids[2].ty>> = Entries[x.ty]
     ELSE /\ x.var \in Variants(x.ty)
          /\ [i \in 1 .. Len(x.kids) |-> x.kids[i].ty] = Fields[x.ty][x.var]
  /\ \A k \in ToSet(x.kids) :
       IF IsMap(x.ty) THEN \A y \in ToSet(k.kids) : WellFormed(y) ELSE WellFormed(k)

(* Whatever the stages do to it, the input stays a value of the fuzzed      *)
(* type, to the last field, and fields can be collected from it.            *)
InputTypeOK ==
  /\ input.ty \in MutRoots /\ WellFormed(input) /\ FieldsTyped
  /\ serialized \subseteq Types /\ chunks \subseteq Types
  /\ rounds \in 0 .. MaxRounds
=============================================================================
