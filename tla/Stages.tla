------------------------------- MODULE Stages -------------------------------
(***************************************************************************)
(* The stages of one fuzzing client and what they share: the Visitor's     *)
(* `serialized` (fragments generated since it was last drained), Context's *)
(* `mutations` and `input_cause`, and the chunks mutators splice.  An      *)
(* input is the set of its fragments, those that hold others included: a   *)
(* change to one changes all that hold it, so which input comes of a       *)
(* mutation is left open.  Whether the target's run of an input makes it   *)
(* interesting is the environment's choice.                                *)
(***************************************************************************)
EXTENDS Integers

CONSTANTS Fragments,   \* what inputs are made of
          Tracked,     \* the MutationMetadata that are followed
          StackSize,   \* inputs mutated per stage: mutation_stack_size
          Builds       \* the feature sets considered

Kinds == {"Splice", "SpliceAppend", "Random", "IterablePop", "Cmplog", "CmplogBytes", "I2S"}

ASSUME TrackedAssumption == Tracked \subseteq Kinds
ASSUME StackAssumption == StackSize \in Nat \ {0}
ASSUME BuildsAssumption == Builds \subseteq {"afl", "libfuzzer"}

VARIABLES build,        \* "afl": a forkserver, "libfuzzer": in-process
          stage,        \* where run_client is
          testcase,     \* the input of the scheduled testcase
          input,        \* the stage's working copy of it
          iteration,    \* inputs this stage has mutated
          serialized,   \* Visitor.serialized
          mutations,    \* Context.mutations
          input_cause,  \* Context.input_cause
          chunks,       \* the fragments in type_input_map
          fresh,        \* the stage has added no input since it began
          tried,        \* the mutations recorded since testcase was scheduled
          replaced,     \* what its recursive minimization has generated
          added         \* the set of inputs the last step added, at most one

stageVars == <<build, stage, testcase, input, iteration, serialized, mutations,
               input_cause, chunks, fresh, tried, replaced, added>>

----------------------------------------------------------------------------
Inputs == (SUBSET Fragments) \ {{}}

StageNames == {"load", "generate", "schedule", "novelty", "minimize", "recursive", "trace",
               "bytes", "cmplog", "mutate", "i2s", "sync"}

Record(m) == mutations \cup ({m} \cap Tracked)
Tried(m)  == tried' = tried \cup ({m} \cap Tracked) /\ UNCHANGED replaced
History   == <<tried, replaced>>

----------------------------------------------------------------------------
(* An interesting input or a solution: append_metadata calls register_input,*)
(* which takes the pending fragments, those made for this input among them, *)
(* and, for InputCause::Generated, all of the input's, and resets           *)
(* input_cause; then clear_mutations.                                       *)
Add(i, recorded, cause, made) ==
  LET fragments == serialized \cup made \cup (IF cause = "Generated" THEN i ELSE {})
  IN  /\ chunks' = chunks \cup fragments
      /\ added' = {[stage |-> stage, iteration |-> iteration, first |-> fresh, input |-> i,
                    made |-> made, mutations |-> recorded, fragments |-> fragments]}
      /\ serialized' = {}
      /\ mutations' = {}
      /\ input_cause' = "Default"

Discard(recorded, cause, pending) ==
  /\ serialized' = pending
  /\ mutations' = recorded
  /\ input_cause' = cause
  /\ added' = {}
  /\ UNCHANGED chunks

Quiet == added' = {} /\ UNCHANGED <<build, chunks>>
Shared == <<serialized, mutations, input_cause>>

GoTo(s) == stage' = s /\ iteration' = 0 /\ fresh' = TRUE
Stay    == UNCHANGED <<build, stage>> /\ fresh' = (fresh /\ added' = {})

----------------------------------------------------------------------------
(* Before the fuzz loop: load_initial_inputs, then the generated inputs.    *)
FinishLoading ==
  /\ stage = "load"
  /\ GoTo("generate")
  /\ Quiet
  /\ UNCHANGED <<testcase, input, History, Shared>>

(* Mutant: generated_input() is not called again for each generated input.  *)
GenerateInitialOnce(i) ==
  /\ stage = "generate"
  /\ Add(i, mutations, input_cause, {}) \/ Discard(mutations, "Generated", serialized)
  /\ Stay /\ UNCHANGED <<testcase, input, iteration, History>>

GenerateInitial(i) ==
  /\ stage = "generate"
  /\ Add(i, mutations, "Generated", {}) \/ Discard(mutations, "Generated", serialized)
  /\ Stay /\ UNCHANGED <<testcase, input, iteration, History>>

FinishGenerating ==
  /\ stage = "generate"
  /\ GoTo("schedule")
  /\ input_cause' = "Default"
  /\ Quiet
  /\ UNCHANGED <<testcase, input, History, serialized, mutations>>

(* An input from disk, from another client or from another fuzzer           *)
Import(i) ==
  /\ stage \in {"load", "schedule", "sync"}
  /\ Add(i, mutations, input_cause, {}) \/ Discard(mutations, input_cause, serialized)
  /\ Stay /\ UNCHANGED <<testcase, input, iteration, History>>

(* The minimization stages run for a testcase scheduled the first time, the *)
(* first of them unless it is disabled.                                     *)
Schedule(i, first) ==
  /\ stage = "schedule"
  /\ first \in {"novelty", "minimize", "trace"}
  /\ testcase' = i /\ input' = i
  /\ tried' = {} /\ replaced' = {}
  /\ GoTo(first)
  /\ Quiet
  /\ UNCHANGED Shared

(* NoveltyMinimizationStage, MinimizationStage: a smaller input is kept if  *)
(* it covers the same, be it interesting or not.                            *)
Minimize(i) ==
  /\ stage \in {"novelty", "minimize"}
  /\ Add(i, mutations, input_cause, {}) \/ Discard(mutations, input_cause, serialized)
  /\ input' \in {input, i}
  /\ Stay /\ UNCHANGED <<testcase, iteration, History>>

(* The minimized input is added to the corpus, if there is one ...          *)
FinishNovelty ==
  /\ stage = "novelty"
  /\ \/ Add(input, mutations, input_cause, {})
     \/ input = testcase /\ Discard(mutations, input_cause, serialized)
  /\ input' = testcase
  /\ GoTo("minimize")
  /\ UNCHANGED <<build, testcase, History>>

(* ... or replaces the testcase's.                                          *)
FinishMinimize ==
  /\ stage = "minimize"
  /\ testcase' = input
  /\ GoTo("recursive")
  /\ Quiet
  /\ UNCHANGED <<input, History, Shared>>

(* RecursiveMinimizationStage: a recursive node is replaced by a generated  *)
(* one; it and its parts stay in `serialized` if the input is not added.    *)
MinimizeRecursive(made, i) ==
  /\ stage = "recursive"
  /\ made # {} /\ made \subseteq i
  /\ \/ Add(i, mutations, input_cause, made)
     \/ Discard(mutations, input_cause, serialized \cup made)
  /\ input' \in {input, i}
  /\ replaced' = replaced \cup made
  /\ Stay /\ UNCHANGED <<testcase, iteration, tried>>

(* The generation failed or the node is not recursive: nothing is replaced. *)
MinimizeInVain ==
  /\ stage = "recursive"
  /\ Add(input, mutations, input_cause, {}) \/ Discard(mutations, input_cause, serialized)
  /\ Stay /\ UNCHANGED <<testcase, input, iteration, History>>

FinishRecursive ==
  /\ stage = "recursive"
  /\ testcase' = input
  /\ GoTo("trace")
  /\ Quiet
  /\ UNCHANGED <<input, History, Shared>>

(* The tracing stage; AFL's is wrapped in a MutatingStageWrapper.           *)
Trace ==
  /\ stage = "trace"
  /\ IF build = "afl" THEN mutations' = {} /\ serialized' = {}
     ELSE UNCHANGED <<mutations, serialized>>
  /\ input' = testcase
  /\ GoTo("bytes")
  /\ Quiet
  /\ UNCHANGED <<testcase, History, input_cause>>

----------------------------------------------------------------------------
(* AutarkieCmpLogStage: compared bytes that occur in the serialized input   *)
(* are written back: the first occurrence where it is, a later one at an    *)
(* offset counted from the one before.  So any input may come of it.        *)
CmpBytes(i) ==
  /\ stage = "bytes"
  /\ \/ Add(i, Record("CmplogBytes"), "Generated", {})
     \/ Discard(Record("CmplogBytes"), "Default", serialized)
  /\ Tried("CmplogBytes")
  /\ Stay /\ UNCHANGED <<testcase, input, iteration>>

FinishBytes ==
  /\ stage = "bytes"
  /\ GoTo("cmplog")
  /\ Quiet
  /\ UNCHANGED <<testcase, input, History, Shared>>

(* A compared value is spliced in; the input is not reset afterwards.       *)
CmpSplice(i) ==
  /\ stage = "cmplog"
  /\ \/ Add(i, Record("Cmplog"), input_cause, {})
     \/ Discard(Record("Cmplog"), input_cause, serialized)
  /\ Tried("Cmplog")
  /\ input' = i
  /\ Stay /\ UNCHANGED <<testcase, iteration>>

FinishCmplog ==
  /\ stage = "cmplog"
  /\ input' = testcase
  /\ GoTo("mutate")
  /\ Quiet
  /\ UNCHANGED <<testcase, History, Shared>>

----------------------------------------------------------------------------
(* Mutant: one iteration too many                                           *)
IterateOneMore(bound) == iteration <= bound /\ iteration' = iteration + 1

(* for i in 0..self.stack                                                   *)
Iterate(bound) == iteration < bound /\ iteration' = iteration + 1

(* Mutant: `serialized` is not drained after an iteration.                  *)
EvaluateNoDrain(i, m, made) ==
  /\ \/ Add(i, Record(m), input_cause, made)
     \/ Discard(Record(m), input_cause, serialized \cup made)
  /\ Tried(m)
  /\ input' = i
  /\ Stay /\ UNCHANGED testcase

(* AutarkieMutationalStage: each iteration ends by draining `serialized`.   *)
Evaluate(i, m, made) ==
  /\ \/ Add(i, Record(m), input_cause, made)
     \/ Discard(Record(m), input_cause, {})
  /\ Tried(m)
  /\ input' = i
  /\ Stay /\ UNCHANGED testcase

(* Splice and SpliceAppend read chunks; nothing becomes pending.  A chunk   *)
(* need not be part of the result: an empty list takes none, and a map      *)
(* reads its entries from the bytes of other maps.                          *)
MutateSplice(i, m) ==
  /\ stage = "mutate" /\ Iterate(StackSize)
  /\ chunks # {}
  /\ m \in {"Splice", "SpliceAppend"}
  /\ Evaluate(i, m, {})

(* GenerateReplace on a node, or on each element of a subslice: what is made*)
(* becomes pending.  On a map an element is removed before another is       *)
(* generated, and the map records itself and all entries after each: what   *)
(* one call made the next may remove or overwrite, and no input need hold   *)
(* the map between two calls.  Where no generation succeeds nothing is made.*)
MutateRandom(made, i) ==
  /\ stage = "mutate" /\ Iterate(StackSize)
  /\ Evaluate(i, "Random", made)

(* IterablePop returns Skipped: the input is changed but not evaluated.     *)
MutatePop(i) ==
  /\ stage = "mutate" /\ Iterate(StackSize)
  /\ Discard(Record("IterablePop"), input_cause, {})
  /\ Tried("IterablePop")
  /\ input' = i
  /\ Stay /\ UNCHANGED testcase

(* A mutator that finds nothing to do                                       *)
MutateSkipped ==
  /\ stage = "mutate" /\ Iterate(StackSize)
  /\ Discard(mutations, input_cause, {})
  /\ Stay /\ UNCHANGED <<testcase, input, History>>

(* generated_input() is the first thing the I2S stage does.                 *)
FinishMutate ==
  /\ stage = "mutate" /\ iteration = StackSize
  /\ IF build = "afl" THEN GoTo("sync") /\ UNCHANGED input_cause
     ELSE GoTo("i2s") /\ input_cause' = "Generated"
  /\ Quiet
  /\ UNCHANGED <<testcase, input, History, serialized, mutations>>

----------------------------------------------------------------------------
(* AutarkieBinaryMutatorStage in a MutatingStageWrapper                     *)
I2SMutate(i) ==
  /\ stage = "i2s" /\ Iterate(StackSize)
  /\ \/ Add(i, Record("I2S"), input_cause, {})
     \/ Discard(Record("I2S"), input_cause, serialized)
  /\ Tried("I2S")
  /\ Stay /\ UNCHANGED <<testcase, input>>

(* Mutant: the wrapper does not clear the mutations.                        *)
FinishI2SUncleared ==
  /\ stage = "i2s"
  /\ input_cause' = IF iteration = StackSize THEN "Default" ELSE input_cause
  /\ serialized' = {}
  /\ GoTo("sync")
  /\ Quiet
  /\ UNCHANGED <<testcase, input, History, mutations>>

(* The stage returns early when the bytes do not deserialize, and then      *)
(* without default_input(); the wrapper clears up in either case.           *)
FinishI2S ==
  /\ stage = "i2s"
  /\ input_cause' = IF iteration = StackSize THEN "Default" ELSE input_cause
  /\ mutations' = {} /\ serialized' = {}
  /\ GoTo("sync")
  /\ Quiet
  /\ UNCHANGED <<testcase, input, History>>

(* The stats and the sync stage, the end of fuzz_one                        *)
FinishSync ==
  /\ stage = "sync"
  /\ GoTo("schedule")
  /\ Quiet
  /\ UNCHANGED <<testcase, input, History, Shared>>

(* The client is respawned: a new Visitor, a new Context with the chunks on *)
(* disk; the stage it was in is performed again.                            *)
Restart ==
  /\ serialized' = {}
  /\ mutations' = {}
  /\ input_cause' = IF stage = "i2s" THEN "Generated" ELSE "Default"
  /\ input' = testcase
  /\ iteration' = 0 /\ fresh' = TRUE
  /\ stage' \in {stage} \cup (IF stage \in {"load", "generate"} THEN {"schedule"} ELSE {})
  /\ Quiet
  /\ UNCHANGED <<testcase, History>>

----------------------------------------------------------------------------
Prepare ==
  FinishLoading \/ FinishGenerating \/ \E i \in Inputs : GenerateInitial(i) \/ Import(i)

Minimizing ==
  \/ \E i \in Inputs : Minimize(i) \/ \E made \in SUBSET Fragments : MinimizeRecursive(made, i)
  \/ MinimizeInVain
  \/ FinishNovelty \/ FinishMinimize \/ FinishRecursive \/ Trace

Cmplogging ==
  \/ \E i \in Inputs : CmpBytes(i) \/ CmpSplice(i)
  \/ FinishBytes \/ FinishCmplog

Mutating ==
  \/ \E i \in Inputs :
       \/ \E made \in SUBSET Fragments : MutateRandom(made, i)
       \/ \E m \in Kinds : MutateSplice(i, m)
       \/ MutatePop(i) \/ I2SMutate(i)
  \/ MutateSkipped \/ FinishMutate \/ FinishI2S

StagesNext ==
  \/ Prepare
  \/ \E i \in Inputs, first \in StageNames : Schedule(i, first)
  \/ Minimizing \/ Cmplogging \/ Mutating \/ FinishSync \/ Restart

StagesInit ==
  /\ build \in Builds
  /\ stage = "load"
  /\ testcase = {} /\ input = {}
  /\ iteration = 0
  /\ serialized = {} /\ mutations = {} /\ input_cause = "Default"
  /\ chunks \in SUBSET Fragments
  /\ fresh = TRUE
  /\ tried = {} /\ replaced = {}
  /\ added = {}

StagesSpec == StagesInit /\ [][StagesNext]_stageVars

----------------------------------------------------------------------------
(* The stages' state is what the code's types say it is.                    *)
StagesTypeOK ==
  /\ build \in Builds /\ stage \in StageNames
  /\ {testcase, input} \subseteq SUBSET Fragments
  /\ iteration \in 0 .. StackSize
  /\ serialized \subseteq Fragments /\ chunks \subseteq Fragments
  /\ mutations \subseteq Tracked /\ tried \subseteq Tracked
  /\ fresh \in BOOLEAN /\ replaced \subseteq Fragments
  /\ input_cause \in {"Default", "Generated"}
  /\ stage \notin {"load", "generate", "schedule"} => {testcase, input} \subseteq Inputs

(* Of an added input that was generated, or whose bytes the compared values *)
(* replaced, every fragment can be spliced, although each addition resets   *)
(* InputCause::Generated behind the back of the stage that set it.  The I2S *)
(* stage sets it once for all its inputs: it holds for the first it adds,   *)
(* and the chunks of the others are not learnt.                             *)
NewInputsAreLearnt ==
  \A a \in added :
    a.stage \in {"generate", "bytes"} \/ (a.stage = "i2s" /\ a.first) => a.input \subseteq chunks

(* What is learnt from an added input is part of it or was made for it, not *)
(* for an input that was discarded; what the recursive minimization of the  *)
(* same testcase generated in vain is excepted.  That is learnt in its own  *)
(* stage or, in the in-process build, from the first addition of a stage    *)
(* before the mutational stage has drained it.                              *)
LearntFromTheInput ==
  \A a \in added :
    LET stale == a.fragments \ (a.input \cup a.made)
    IN  stale # {} =>
          /\ stale \subseteq replaced
          /\ \/ a.stage = "recursive"
             \/ /\ build = "libfuzzer" /\ a.first
                /\ a.stage \in {"bytes", "cmplog"} \/ (a.stage = "mutate" /\ a.iteration = 0)

(* Nothing that was generated for one testcase is pending when the next one *)
(* is scheduled, whichever stages ran and wherever the client restarted.    *)
NothingPendingBetween == stage = "schedule" => serialized = {}

(* "Track why a testcase was added to the corpus" (context.rs): mutations   *)
(* counted for an added input were made to the testcase being fuzzed.       *)
MadeToThisTestcase ==
  \A a \in added :
    a.mutations \subseteq IF a.stage \in {"load", "generate", "schedule", "sync"} THEN {} ELSE tried

(* In the in-process build, whose last mutating stage is wrapped, it is so. *)
InProcessAttribution == build = "libfuzzer" => MadeToThisTestcase
=============================================================================
