---------------------------- MODULE StagesProofs ----------------------------
(***************************************************************************)
(* What the stages keep to for any fragments, any stack size and both       *)
(* builds.  The argument is about what is left over: `serialized` never     *)
(* holds anything but what the recursive minimization of the testcase       *)
(* generated, and that no longer than until a stage adds an input or the    *)
(* tracing or the mutational stage drains it; in the in-process build       *)
(* `mutations` only ever holds mutations tried on the testcase; and the I2S *)
(* stage keeps InputCause::Generated until it adds an input.                *)
(***************************************************************************)
EXTENDS Stages, TLAPS

(* The stages in which no testcase is worked on                             *)
Outside == {"load", "generate", "schedule", "sync"}

Drained ==
  /\ serialized \subseteq replaced
  /\ serialized # {} =>
       \/ stage \in {"recursive", "trace"}
       \/ /\ build = "libfuzzer" /\ fresh
          /\ stage \in {"bytes", "cmplog"} \/ (stage = "mutate" /\ iteration = 0)

Caused == fresh \in BOOLEAN /\ (stage = "i2s" /\ fresh => input_cause = "Generated")

Attributed ==
  build = "libfuzzer" => mutations \subseteq tried /\ (stage \in Outside => mutations = {})

StagesInv ==
  /\ StagesTypeOK /\ Drained /\ Caused /\ Attributed
  /\ NewInputsAreLearnt /\ LearntFromTheInput /\ InProcessAttribution

LEMMA StagesInitially == StagesInit => StagesInv
  <1> SUFFICES ASSUME StagesInit PROVE StagesInv
    OBVIOUS
  <1>1. StagesTypeOK
    BY StackAssumption DEF StagesInit, StagesTypeOK, StageNames
  <1>2. Drained /\ Caused /\ Attributed
    BY DEF StagesInit, Drained, Caused, Attributed, Outside
  <1>3. NewInputsAreLearnt /\ LearntFromTheInput /\ InProcessAttribution
    BY
    DEF StagesInit, NewInputsAreLearnt, LearntFromTheInput, InProcessAttribution, MadeToThisTestcase
  <1> QED
    BY <1>1, <1>2, <1>3 DEF StagesInv

(* A step that stays in its stage: it is fresh until it adds an input.      *)
LEMMA StaysFresh ==
  ASSUME Stay, fresh \in BOOLEAN
  PROVE  /\ fresh' \in BOOLEAN /\ UNCHANGED <<build, stage>>
         /\ fresh' => fresh /\ added' = {}
         /\ fresh /\ added' = {} => fresh'
  BY DEF Stay

LEMMA Recorded ==
  ASSUME StagesTypeOK, NEW m, Tried(m)
  PROVE  /\ Record(m) \subseteq Tracked
         /\ tried' \subseteq Tracked
         /\ mutations \subseteq tried => Record(m) \subseteq tried'
  <1>1. mutations \subseteq Tracked /\ tried \subseteq Tracked
    BY DEF StagesTypeOK
  <1>2. tried' = tried \cup ({m} \cap Tracked)
    BY DEF Tried
  <1> QED
    BY <1>1, <1>2 DEF Record

(* The part of the invariant that an evaluated input touches: what is added *)
(* of it, and what is left of what was shared.                              *)
AddedOK == NewInputsAreLearnt /\ LearntFromTheInput /\ InProcessAttribution

SharedOK ==
  /\ serialized \subseteq Fragments /\ chunks \subseteq Fragments
  /\ mutations \subseteq Tracked /\ input_cause \in {"Default", "Generated"}

LEMMA AddKeeps ==
  ASSUME StagesInv, NEW i \in Inputs, NEW recorded \in SUBSET Tracked,
         NEW cause \in {"Default", "Generated"}, NEW made \in SUBSET Fragments,
         Add(i, recorded, cause, made),
         stage # "trace",
         stage \in {"generate", "bytes"} \/ (stage = "i2s" /\ fresh) => cause = "Generated",
         build' = build, replaced \subseteq replaced',
         build = "libfuzzer" =>
           recorded \subseteq IF stage \in Outside THEN {} ELSE tried'
  PROVE  SharedOK' /\ AddedOK' /\ serialized' = {} /\ mutations' = {} /\ added' # {}
  <1> DEFINE fragments == serialized \cup made \cup (IF cause = "Generated" THEN i ELSE {})
             new == [stage |-> stage, iteration |-> iteration, first |-> fresh, input |-> i,
                     made |-> made, mutations |-> recorded, fragments |-> fragments]
  <1>0. /\ chunks' = chunks \cup fragments /\ added' = {new}
        /\ serialized' = {} /\ mutations' = {} /\ input_cause' = "Default"
    BY DEF Add
  <1>1. SharedOK'
    BY <1>0 DEF StagesInv, StagesTypeOK, SharedOK, Inputs
  <1>2. NewInputsAreLearnt'
    <2>1. SUFFICES stage \in {"generate", "bytes"} \/ (stage = "i2s" /\ fresh) => i \subseteq chunks'
      BY <1>0 DEF NewInputsAreLearnt
    <2> QED
      BY <1>0
  <1>3. LearntFromTheInput'
    <2> DEFINE stale == fragments \ (i \cup made)
    <2>1. stale \subseteq serialized
      OBVIOUS
    <2>2. serialized \subseteq replaced'
      BY DEF StagesInv, Drained
    <2>3. serialized # {} =>
            \/ stage = "recursive"
            \/ /\ build' = "libfuzzer" /\ fresh
               /\ stage \in {"bytes", "cmplog"} \/ (stage = "mutate" /\ iteration = 0)
      BY DEF StagesInv, Drained
    <2>4. stale # {} =>
            /\ stale \subseteq replaced'
            /\ \/ stage = "recursive"
               \/ /\ build' = "libfuzzer" /\ fresh
                  /\ stage \in {"bytes", "cmplog"} \/ (stage = "mutate" /\ iteration = 0)
      BY <2>1, <2>2, <2>3
    <2> QED
      BY <1>0, <2>4 DEF LearntFromTheInput
  <1>4. InProcessAttribution'
    BY <1>0 DEF InProcessAttribution, MadeToThisTestcase, Outside
  <1> QED
    BY <1>0, <1>1, <1>2, <1>3, <1>4 DEF AddedOK

LEMMA NothingAdded == added' = {} => AddedOK'
  BY DEF AddedOK, NewInputsAreLearnt, LearntFromTheInput, InProcessAttribution, MadeToThisTestcase

LEMMA DiscardKeeps ==
  ASSUME StagesInv, NEW recorded \in SUBSET Tracked,
         NEW cause \in {"Default", "Generated"}, NEW pending \in SUBSET Fragments,
         Discard(recorded, cause, pending)
  PROVE  /\ SharedOK' /\ AddedOK' /\ serialized' = pending /\ mutations' = recorded
         /\ input_cause' = cause /\ added' = {}
  <1>1. SharedOK'
    BY DEF Discard, StagesInv, StagesTypeOK, SharedOK
  <1> QED
    BY <1>1, NothingAdded DEF Discard

LEMMA QuietKeeps ==
  ASSUME StagesInv, Quiet
  PROVE  AddedOK' /\ UNCHANGED <<build, chunks>>
  BY NothingAdded DEF Quiet

----------------------------------------------------------------------------
(* What every step must re-establish: where the client is, what is shared,  *)
(* what was added, and what is left over.                                   *)
PlaceOK ==
  /\ build \in Builds /\ stage \in StageNames
  /\ testcase \in SUBSET Fragments /\ input \in SUBSET Fragments
  /\ iteration \in 0 .. StackSize
  /\ tried \subseteq Tracked /\ replaced \subseteq Fragments
  /\ stage \notin {"load", "generate", "schedule"} => testcase \in Inputs /\ input \in Inputs

LEMMA Parts ==
  ASSUME StagesInv PROVE PlaceOK /\ SharedOK /\ Drained /\ Caused /\ Attributed
  BY DEF StagesInv, StagesTypeOK, PlaceOK, SharedOK

LEMMA Rejoined ==
  ASSUME PlaceOK', SharedOK', AddedOK', Drained', Caused', Attributed' PROVE StagesInv'
  <1>1. StagesTypeOK'
    BY DEF StagesTypeOK, PlaceOK, SharedOK, Caused
  <1> QED
    BY <1>1 DEF StagesInv, AddedOK

(* Steps that stay where they are and evaluate an input made without a      *)
(* mutation that is recorded: generated, imported, or in a minimization.    *)
LEMMA UnrecordedKeeps ==
  ASSUME StagesInv, NEW i \in Inputs, NEW made \in SUBSET Fragments,
         NEW pending, pending = serialized \cup made,
         NEW cause \in {"Default", "Generated"}, NEW later \in {"Default", "Generated"},
         \/ Add(i, mutations, cause, made)
         \/ Discard(mutations, later, pending),
         stage \in {"load", "generate", "schedule", "sync", "novelty", "minimize", "recursive"},
         stage = "generate" => cause = "Generated",
         replaced' = replaced \cup made,
         UNCHANGED <<build, tried>>
  PROVE  /\ SharedOK' /\ AddedOK' /\ mutations' \in {{}, mutations}
         /\ serialized' \in {{}, pending} /\ serialized' \subseteq replaced'
  <1>1. mutations \in SUBSET Tracked /\ pending \in SUBSET Fragments
    BY DEF StagesInv, StagesTypeOK
  <1>2. pending \subseteq replaced' /\ replaced \subseteq replaced'
    BY DEF StagesInv, Drained
  <1>3. CASE Add(i, mutations, cause, made)
    <2>1. build = "libfuzzer" => mutations \subseteq IF stage \in Outside THEN {} ELSE tried'
      BY DEF StagesInv, Attributed
    <2> QED
      BY <1>1, <1>2, <1>3, <2>1, AddKeeps
  <1>4. CASE Discard(mutations, later, pending)
    BY <1>1, <1>2, <1>4, DiscardKeeps
  <1> QED
    BY <1>3, <1>4

(* Where the evaluation generates nothing                                   *)
LEMMA EvaluatedKeeps ==
  ASSUME StagesInv, NEW i \in Inputs,
         NEW cause \in {"Default", "Generated"}, NEW later \in {"Default", "Generated"},
         \/ Add(i, mutations, cause, {})
         \/ Discard(mutations, later, serialized),
         stage \in {"load", "generate", "schedule", "sync", "novelty", "minimize", "recursive"},
         stage = "generate" => cause = "Generated",
         UNCHANGED <<build, replaced, tried>>
  PROVE  /\ SharedOK' /\ AddedOK' /\ mutations' \in {{}, mutations}
         /\ serialized' \in {{}, serialized} /\ serialized' \subseteq replaced'
  <1>1. serialized = serialized \cup {} /\ replaced' = replaced \cup {}
    OBVIOUS
  <1> QED
    BY <1>1, UnrecordedKeeps

(* The same for the stages that record the mutation they made.              *)
LEMMA RecordedKeeps ==
  ASSUME StagesInv, NEW i \in Inputs, NEW m, Tried(m),
         NEW made \in SUBSET Fragments, NEW left \in SUBSET Fragments,
         NEW cause \in {"Default", "Generated"}, NEW later \in {"Default", "Generated"},
         \/ Add(i, Record(m), cause, made)
         \/ Discard(Record(m), later, left),
         stage \in {"bytes", "cmplog", "mutate", "i2s"},
         stage = "bytes" => cause = "Generated",
         stage = "i2s" => cause = input_cause,
         UNCHANGED build
  PROVE  /\ SharedOK' /\ AddedOK' /\ tried' \subseteq Tracked /\ UNCHANGED replaced
         /\ \/ serialized' = {} /\ added' # {}
            \/ serialized' = left /\ added' = {} /\ input_cause' = later
         /\ build = "libfuzzer" => mutations' \subseteq tried'
  <1>1. Record(m) \in SUBSET Tracked /\ tried' \subseteq Tracked
    BY Recorded DEF StagesInv
  <1>2. build = "libfuzzer" => Record(m) \subseteq tried'
    BY Recorded DEF StagesInv, Attributed
  <1>3. stage \notin Outside /\ stage # "generate" /\ stage # "trace"
    BY DEF Outside
  <1>4. UNCHANGED replaced
    BY DEF Tried
  <1>5. CASE Add(i, Record(m), cause, made)
    <2>1. stage = "i2s" /\ fresh => cause = "Generated"
      BY DEF StagesInv, Caused
    <2> QED
      BY <1>1, <1>2, <1>3, <1>4, <1>5, <2>1, AddKeeps
  <1>6. CASE Discard(Record(m), later, left)
    BY <1>1, <1>2, <1>4, <1>6, DiscardKeeps
  <1> QED
    BY <1>5, <1>6

(* Where the mutation generates nothing and the cause is left as it was     *)
LEMMA SplicedKeeps ==
  ASSUME StagesInv, NEW i \in Inputs, NEW m, Tried(m),
         \/ Add(i, Record(m), input_cause, {})
         \/ Discard(Record(m), input_cause, serialized),
         stage \in {"cmplog", "i2s"}, UNCHANGED build
  PROVE  /\ SharedOK' /\ AddedOK' /\ tried' \subseteq Tracked /\ UNCHANGED replaced
         /\ \/ serialized' = {} /\ added' # {}
            \/ serialized' = serialized /\ added' = {} /\ input_cause' = input_cause
         /\ build = "libfuzzer" => mutations' \subseteq tried'
  <1>1. /\ input_cause \in {"Default", "Generated"} /\ serialized \in SUBSET Fragments
        /\ {} \in SUBSET Fragments
    BY DEF StagesInv, StagesTypeOK
  <1>2. CASE Add(i, Record(m), input_cause, {})
    BY <1>1, <1>2, RecordedKeeps
  <1>3. CASE Discard(Record(m), input_cause, serialized)
    BY <1>1, <1>3, RecordedKeeps
  <1> QED
    BY <1>2, <1>3

(* What is left over where a step stays in its stage: nothing that was not  *)
(* left over before, but for what the recursive minimization generates.     *)
LEMMA StaysUnrecorded ==
  ASSUME StagesInv, Stay,
         stage \in {"load", "generate", "schedule", "sync", "novelty", "minimize", "recursive"},
         serialized' \subseteq replaced',
         stage # "recursive" => serialized' \in {{}, serialized}
  PROVE  Drained' /\ Caused'
  <1>1. UNCHANGED <<build, stage>>
    BY DEF Stay
  <1>2. stage # "recursive" => serialized' = {}
    BY DEF StagesInv, Drained
  <1>3. fresh' \in BOOLEAN
    BY StaysFresh DEF StagesInv, Caused
  <1>4. Drained'
    BY <1>1, <1>2 DEF Drained
  <1>5. stage' # "i2s"
    BY <1>1
  <1>6. Caused'
    BY <1>3, <1>5 DEF Caused
  <1> QED
    BY <1>4, <1>6

LEMMA StaysRecorded ==
  ASSUME StagesInv, Stay, stage \in {"bytes", "cmplog", "mutate", "i2s"},
         UNCHANGED replaced,
         serialized' = {} \/ (stage # "mutate" /\ serialized' = serialized /\ added' = {}),
         stage = "i2s" => added' # {} \/ input_cause' = input_cause
  PROVE  Drained' /\ Caused'
  <1>1. /\ fresh' \in BOOLEAN /\ UNCHANGED <<build, stage>>
        /\ fresh' => fresh /\ added' = {}
        /\ fresh /\ added' = {} => fresh'
    BY StaysFresh DEF StagesInv, Caused
  <1>2. Drained'
    <2>1. CASE serialized' = {}
      BY <2>1 DEF Drained
    <2>2. CASE stage # "mutate" /\ serialized' = serialized /\ added' = {}
      <3>1. serialized' \subseteq replaced'
        BY <2>2 DEF StagesInv, Drained
      <3>2. serialized # {} => build = "libfuzzer" /\ fresh /\ stage \in {"bytes", "cmplog"}
        BY <2>2 DEF StagesInv, Drained
      <3>3. serialized' # {} => build' = "libfuzzer" /\ stage' \in {"bytes", "cmplog"}
        BY <1>1, <2>2, <3>2
      <3>4. serialized' # {} => fresh'
        BY <1>1, <2>2, <3>2, Zenon
      <3> QED
        BY <3>1, <3>3, <3>4 DEF Drained
    <2> QED
      BY <2>1, <2>2
  <1>3. stage' = "i2s" /\ fresh' => input_cause' = "Generated"
    <2>1. stage = "i2s" /\ fresh => input_cause = "Generated"
      BY DEF StagesInv, Caused
    <2> QED
      BY <1>1, <2>1, Zenon
  <1> QED
    BY <1>1, <1>2, <1>3 DEF Caused

(* Where a stage begins                                                     *)
LEMMA MovesOn ==
  ASSUME StagesInv, NEW s \in StageNames, GoTo(s),
         serialized' \subseteq replaced',
         serialized' # {} =>
           \/ s \in {"recursive", "trace"}
           \/ build' = "libfuzzer" /\ s \in {"bytes", "cmplog", "mutate"},
         s = "i2s" => input_cause' = "Generated"
  PROVE  Drained' /\ Caused'
  <1>1. stage' = s /\ iteration' = 0 /\ fresh' = TRUE
    BY DEF GoTo
  <1>2. Drained'
    BY <1>1 DEF Drained
  <1>3. Caused'
    BY <1>1 DEF Caused
  <1> QED
    BY <1>2, <1>3

----------------------------------------------------------------------------
LEMMA PrepareKeeps ==
  ASSUME StagesInv, Prepare PROVE StagesInv'
  <1> USE DEF History
  <1>0. PlaceOK /\ SharedOK /\ Drained /\ Caused /\ Attributed
    BY Parts
  <1>1. CASE FinishLoading
    <2>1. AddedOK' /\ SharedOK'
      BY <1>0, <1>1, QuietKeeps DEF FinishLoading, Shared, SharedOK
    <2>2. PlaceOK' /\ Drained' /\ Caused' /\ Attributed'
      <3>1. PlaceOK'
        BY <1>0, <1>1, StackAssumption DEF FinishLoading, GoTo, Quiet, Shared, PlaceOK, StageNames
      <3>2. Drained' /\ Caused'
        BY <1>0, <1>1, StackAssumption
        DEF FinishLoading, GoTo, Quiet, Shared, Drained, Caused, Outside
      <3>3. Attributed'
        BY <1>0, <1>1, StackAssumption DEF FinishLoading, GoTo, Quiet, Shared, Attributed, Outside
      <3> QED
        BY <3>1, <3>2, <3>3
    <2> QED
      BY <2>1, <2>2, Rejoined
  <1>2. CASE FinishGenerating
    <2>1. AddedOK' /\ SharedOK'
      BY <1>0, <1>2, QuietKeeps DEF FinishGenerating, SharedOK
    <2>2. PlaceOK' /\ Drained' /\ Caused' /\ Attributed'
      <3>1. PlaceOK'
        BY <1>0, <1>2, StackAssumption DEF FinishGenerating, GoTo, Quiet, PlaceOK, StageNames
      <3>2. Drained' /\ Caused'
        BY <1>0, <1>2, StackAssumption DEF FinishGenerating, GoTo, Quiet, Drained, Caused, Outside
      <3>3. Attributed'
        BY <1>0, <1>2, StackAssumption DEF FinishGenerating, GoTo, Quiet, Attributed, Outside
      <3> QED
        BY <3>1, <3>2, <3>3
    <2> QED
      BY <2>1, <2>2, Rejoined
  <1>3. ASSUME NEW i \in Inputs, GenerateInitial(i) PROVE StagesInv'
    <2>1. serialized = {} /\ stage = "generate"
      BY <1>0, <1>3 DEF Drained, Outside, GenerateInitial
    <2>2. SharedOK' /\ AddedOK' /\ serialized' = {} /\ mutations' \in {{}, mutations}
      BY <1>3, <2>1, EvaluatedKeeps DEF GenerateInitial, Stay
    <2>3. PlaceOK' /\ Drained' /\ Caused' /\ Attributed'
      <3>1. PlaceOK'
        BY <1>0, <1>3, <2>2 DEF Stay, GenerateInitial, PlaceOK
      <3>2. Drained' /\ Caused'
        BY <1>0, <1>3, <2>2, StaysUnrecorded DEF GenerateInitial
      <3>3. Attributed'
        BY <1>0, <1>3, <2>2 DEF GenerateInitial, Stay, Attributed, Outside
      <3> QED
        BY <3>1, <3>2, <3>3
    <2> QED
      BY <2>2, <2>3, Rejoined
  <1>4. ASSUME NEW i \in Inputs, Import(i) PROVE StagesInv'
    <2>1. serialized = {} /\ stage \in {"load", "schedule", "sync"}
      BY <1>0, <1>4 DEF Drained, Outside, Import
    <2>2. input_cause \in {"Default", "Generated"}
      BY <1>0 DEF SharedOK
    <2>3. SharedOK' /\ AddedOK' /\ serialized' = {} /\ mutations' \in {{}, mutations}
      BY <1>4, <2>1, <2>2, EvaluatedKeeps DEF Import, Stay
    <2>4. PlaceOK' /\ Drained' /\ Caused' /\ Attributed'
      <3>1. PlaceOK'
        BY <1>0, <1>4, <2>3 DEF Stay, Import, PlaceOK
      <3>2. Drained' /\ Caused'
        BY <1>0, <1>4, <2>3, StaysUnrecorded DEF Import
      <3>3. Attributed'
        BY <1>0, <1>4, <2>3 DEF Import, Stay, Attributed, Outside
      <3> QED
        BY <3>1, <3>2, <3>3
    <2> QED
      BY <2>3, <2>4, Rejoined
  <1> QED
    BY <1>1, <1>2, <1>3, <1>4 DEF Prepare

LEMMA ScheduleKeeps ==
  ASSUME StagesInv, NEW i \in Inputs, NEW first \in StageNames, Schedule(i, first)
  PROVE  StagesInv'
  <1> USE DEF History
  <1>1. PlaceOK /\ SharedOK /\ Drained /\ Caused /\ Attributed
    BY Parts
  <1>2. AddedOK' /\ SharedOK'
    BY <1>1, QuietKeeps DEF Schedule, Shared, SharedOK
  <1>3. PlaceOK' /\ Drained' /\ Caused' /\ Attributed'
    <2>1. PlaceOK'
      BY <1>1, StackAssumption DEF Schedule, GoTo, Quiet, Shared, PlaceOK, StageNames, Inputs
    <2>2. Drained' /\ Caused'
      BY <1>1, StackAssumption DEF Schedule, GoTo, Quiet, Shared, Drained, Caused, Outside
    <2>3. Attributed'
      BY <1>1, StackAssumption DEF Schedule, GoTo, Quiet, Shared, Attributed, Outside
    <2> QED
      BY <2>1, <2>2, <2>3
  <1> QED
    BY <1>2, <1>3, Rejoined

LEMMA MinimizingKeeps ==
  ASSUME StagesInv, Minimizing PROVE StagesInv'
  <1> USE DEF History
  <1>0. PlaceOK /\ SharedOK /\ Drained /\ Caused /\ Attributed
    BY Parts
  <1>s. serialized \in SUBSET Fragments /\ input_cause \in {"Default", "Generated"}
    BY <1>0 DEF SharedOK
  <1>1. ASSUME NEW i \in Inputs, Minimize(i) PROVE StagesInv'
    <2>1. /\ SharedOK' /\ AddedOK' /\ mutations' \in {{}, mutations}
          /\ serialized' \in {{}, serialized} /\ serialized' \subseteq replaced'
      BY <1>1, <1>s, EvaluatedKeeps DEF Minimize, Stay, Outside
    <2>2. PlaceOK' /\ Drained' /\ Caused' /\ Attributed'
      <3>1. PlaceOK'
        BY <1>0, <1>1, <2>1 DEF Stay, Minimize, PlaceOK, Inputs
      <3>2. Drained' /\ Caused'
        BY <1>0, <1>1, <2>1, StaysUnrecorded DEF Minimize
      <3>3. Attributed'
        BY <1>0, <1>1, <2>1 DEF Minimize, Stay, Attributed, Outside
      <3> QED
        BY <3>1, <3>2, <3>3
    <2> QED
      BY <2>1, <2>2, Rejoined
  <1>2. ASSUME NEW i \in Inputs, NEW made \in SUBSET Fragments, MinimizeRecursive(made, i)
        PROVE  StagesInv'
    <2>1. /\ SharedOK' /\ AddedOK' /\ mutations' \in {{}, mutations}
          /\ serialized' \subseteq replaced'
      BY <1>2, <1>s, UnrecordedKeeps DEF MinimizeRecursive, Stay
    <2>2. PlaceOK' /\ Drained' /\ Caused' /\ Attributed'
      <3>1. PlaceOK'
        BY <1>0, <1>2, <2>1 DEF Stay, MinimizeRecursive, PlaceOK, Inputs
      <3>2. Drained' /\ Caused'
        BY <1>0, <1>2, <2>1, StaysUnrecorded DEF MinimizeRecursive
      <3>3. Attributed'
        BY <1>0, <1>2, <2>1 DEF MinimizeRecursive, Stay, Attributed, Outside
      <3> QED
        BY <3>1, <3>2, <3>3
    <2> QED
      BY <2>1, <2>2, Rejoined
  <1>3. CASE MinimizeInVain
    <2>1. input \in Inputs
      BY <1>0, <1>3 DEF Stay, MinimizeInVain, PlaceOK
    <2>2. /\ SharedOK' /\ AddedOK' /\ mutations' \in {{}, mutations}
          /\ serialized' \in {{}, serialized} /\ serialized' \subseteq replaced'
      BY <1>3, <1>s, <2>1, EvaluatedKeeps DEF MinimizeInVain, Stay, Outside
    <2>3. PlaceOK' /\ Drained' /\ Caused' /\ Attributed'
      <3>1. PlaceOK'
        BY <1>0, <1>3, <2>2 DEF Stay, MinimizeInVain, PlaceOK
      <3>2. Drained' /\ Caused'
        BY <1>0, <1>3, <2>2, StaysUnrecorded DEF MinimizeInVain
      <3>3. Attributed'
        BY <1>0, <1>3, <2>2 DEF MinimizeInVain, Stay, Attributed, Outside
      <3> QED
        BY <3>1, <3>2, <3>3
    <2> QED
      BY <2>2, <2>3, Rejoined
  <1>4. CASE FinishNovelty
    <2>1. input \in Inputs
      BY <1>0, <1>4 DEF FinishNovelty, PlaceOK
    <2>2. /\ SharedOK' /\ AddedOK' /\ mutations' \in {{}, mutations}
          /\ serialized' \in {{}, serialized} /\ serialized' \subseteq replaced'
      BY <1>4, <1>s, <2>1, EvaluatedKeeps DEF FinishNovelty, Outside
    <2>3. PlaceOK' /\ Drained' /\ Caused' /\ Attributed'
      <3>1. PlaceOK'
        BY <1>0, <1>4, <2>2, StackAssumption DEF FinishNovelty, GoTo, PlaceOK, StageNames
      <3>2. Drained' /\ Caused'
        <4>1. serialized' = {}
          BY <1>0, <1>4, <2>2 DEF FinishNovelty, Drained
        <4> QED
          BY <1>4, <4>1, MovesOn DEF FinishNovelty, StageNames
      <3>3. Attributed'
        BY <1>0, <1>4, <2>2, StackAssumption DEF FinishNovelty, GoTo, Attributed, Outside
      <3> QED
        BY <3>1, <3>2, <3>3
    <2> QED
      BY <2>2, <2>3, Rejoined
  <1>5. ASSUME FinishMinimize \/ FinishRecursive PROVE StagesInv'
    <2>1. AddedOK' /\ SharedOK'
      BY <1>0, <1>5, QuietKeeps DEF FinishMinimize, FinishRecursive, Shared, SharedOK
    <2>2. PlaceOK' /\ Drained' /\ Caused' /\ Attributed'
      <3>1. PlaceOK'
        BY <1>0, <1>5, StackAssumption
        DEF FinishMinimize, FinishRecursive, GoTo, Quiet, Shared, PlaceOK, StageNames
      <3>2. Drained' /\ Caused'
        BY <1>0, <1>5, StackAssumption
        DEF FinishMinimize, FinishRecursive, GoTo, Quiet, Shared, Drained, Caused, Outside
      <3>3. Attributed'
        BY <1>0, <1>5, StackAssumption
        DEF FinishMinimize, FinishRecursive, GoTo, Quiet, Shared, Attributed, Outside
      <3> QED
        BY <3>1, <3>2, <3>3
    <2> QED
      BY <2>1, <2>2, Rejoined
  <1>6. CASE Trace
    <2>1. AddedOK' /\ UNCHANGED <<build, chunks>>
      BY <1>6, QuietKeeps DEF Trace
    <2>2. SharedOK'
      BY <1>0, <1>6, <2>1 DEF Trace, SharedOK
    <2>3. PlaceOK' /\ Drained' /\ Caused' /\ Attributed'
      <3>1. PlaceOK'
        BY <1>0, <1>6, StackAssumption DEF Trace, GoTo, Quiet, PlaceOK, StageNames
      <3>2. Drained' /\ Caused'
        <4>1. build \in {"afl", "libfuzzer"}
          BY <1>0, BuildsAssumption DEF PlaceOK
        <4>2. /\ serialized' \subseteq serialized /\ UNCHANGED <<build, replaced>>
              /\ serialized' # {} => build = "libfuzzer"
          BY <1>6, <4>1 DEF Trace, Quiet
        <4>3. serialized' \subseteq replaced'
          BY <1>0, <4>2 DEF Drained
        <4> QED
          BY <1>6, <4>2, <4>3, MovesOn DEF Trace, StageNames
      <3>3. Attributed'
        BY <1>0, <1>6, StackAssumption DEF Trace, GoTo, Quiet, Attributed, Outside
      <3> QED
        BY <3>1, <3>2, <3>3
    <2> QED
      BY <2>1, <2>2, <2>3, Rejoined
  <1> QED
    BY <1>1, <1>2, <1>3, <1>4, <1>5, <1>6 DEF Minimizing

LEMMA CmploggingKeeps ==
  ASSUME StagesInv, Cmplogging PROVE StagesInv'
  <1> USE DEF History
  <1>0. PlaceOK /\ SharedOK /\ Drained /\ Caused /\ Attributed
    BY Parts
  <1>s. serialized \in SUBSET Fragments /\ input_cause \in {"Default", "Generated"}
    BY <1>0 DEF SharedOK
  <1>1. ASSUME NEW i \in Inputs, CmpBytes(i) PROVE StagesInv'
    <2>1. /\ SharedOK' /\ AddedOK' /\ tried' \subseteq Tracked /\ UNCHANGED replaced
          /\ \/ serialized' = {} /\ added' # {}
             \/ serialized' = serialized /\ added' = {}
          /\ (build = "libfuzzer" => mutations' \subseteq tried')
      BY <1>1, <1>s, RecordedKeeps DEF CmpBytes, Stay
    <2>2. PlaceOK' /\ Drained' /\ Caused' /\ Attributed'
      <3>1. PlaceOK'
        BY <1>0, <1>1, <2>1 DEF Stay, CmpBytes, PlaceOK
      <3>2. Drained' /\ Caused'
        BY <1>0, <1>1, <2>1, StaysRecorded DEF CmpBytes, Tried
      <3>3. Attributed'
        BY <1>0, <1>1, <2>1 DEF CmpBytes, Stay, Attributed, Outside
      <3> QED
        BY <3>1, <3>2, <3>3
    <2> QED
      BY <2>1, <2>2, Rejoined
  <1>2. ASSUME NEW i \in Inputs, CmpSplice(i) PROVE StagesInv'
    <2>1. /\ SharedOK' /\ AddedOK' /\ tried' \subseteq Tracked /\ UNCHANGED replaced
          /\ \/ serialized' = {} /\ added' # {}
             \/ serialized' = serialized /\ added' = {}
          /\ (build = "libfuzzer" => mutations' \subseteq tried')
      BY <1>2, SplicedKeeps DEF CmpSplice, Stay
    <2>2. PlaceOK' /\ Drained' /\ Caused' /\ Attributed'
      <3>1. PlaceOK'
        BY <1>0, <1>2, <2>1 DEF Stay, CmpSplice, PlaceOK, Inputs
      <3>2. Drained' /\ Caused'
        BY <1>0, <1>2, <2>1, StaysRecorded DEF CmpSplice, Tried
      <3>3. Attributed'
        BY <1>0, <1>2, <2>1 DEF CmpSplice, Stay, Attributed, Outside
      <3> QED
        BY <3>1, <3>2, <3>3
    <2> QED
      BY <2>1, <2>2, Rejoined
  <1>3. ASSUME FinishBytes \/ FinishCmplog PROVE StagesInv'
    <2>1. AddedOK' /\ SharedOK'
      BY <1>0, <1>3, QuietKeeps DEF FinishBytes, FinishCmplog, Shared, SharedOK
    <2>2. PlaceOK' /\ Drained' /\ Caused' /\ Attributed'
      <3>1. PlaceOK'
        BY <1>0, <1>3, StackAssumption
        DEF FinishBytes, FinishCmplog, GoTo, Quiet, Shared, PlaceOK, StageNames
      <3>2. Drained' /\ Caused'
        BY <1>0, <1>3, StackAssumption
        DEF FinishBytes, FinishCmplog, GoTo, Quiet, Shared, Drained, Caused, Outside
      <3>3. Attributed'
        BY <1>0, <1>3, StackAssumption
        DEF FinishBytes, FinishCmplog, GoTo, Quiet, Shared, Attributed, Outside
      <3> QED
        BY <3>1, <3>2, <3>3
    <2> QED
      BY <2>1, <2>2, Rejoined
  <1> QED
    BY <1>1, <1>2, <1>3 DEF Cmplogging

(* Each iteration of AutarkieMutationalStage leaves nothing pending, be its *)
(* input added or not.                                                      *)
LEMMA EvaluateKeeps ==
  ASSUME StagesInv, NEW i \in Inputs, NEW m, NEW made \in SUBSET Fragments,
         stage = "mutate", Iterate(StackSize),
         Evaluate(i, m, made)
  PROVE  StagesInv'
  <1> USE DEF History
  <1>1. PlaceOK /\ SharedOK /\ Drained /\ Caused /\ Attributed
    BY Parts
  <1>2. /\ SharedOK' /\ AddedOK' /\ tried' \subseteq Tracked /\ UNCHANGED replaced
        /\ serialized' = {} /\ (build = "libfuzzer" => mutations' \subseteq tried')
    <2>1. input_cause \in {"Default", "Generated"}
      BY <1>1 DEF SharedOK
    <2> QED
      BY <2>1, RecordedKeeps DEF Evaluate, Stay
  <1>3. PlaceOK' /\ Drained' /\ Caused' /\ Attributed'
    <2>1. PlaceOK'
      BY <1>1, <1>2, StackAssumption DEF Stay, Evaluate, Iterate, PlaceOK, Inputs
    <2>2. Drained' /\ Caused'
      BY <1>1, <1>2, StaysRecorded DEF Evaluate, Tried
    <2>3. Attributed'
      BY <1>1, <1>2, StackAssumption DEF Evaluate, Iterate, Stay, Attributed, Outside
    <2> QED
      BY <2>1, <2>2, <2>3
  <1> QED
    BY <1>2, <1>3, Rejoined

LEMMA MutatingKeeps ==
  ASSUME StagesInv, Mutating PROVE StagesInv'
  <1> USE DEF History
  <1>0. PlaceOK /\ SharedOK /\ Drained /\ Caused /\ Attributed
    BY Parts
  <1>s. serialized \in SUBSET Fragments /\ input_cause \in {"Default", "Generated"}
    BY <1>0 DEF SharedOK
  <1>1. ASSUME NEW i \in Inputs, NEW made \in SUBSET Fragments, MutateRandom(made, i)
        PROVE  StagesInv'
    BY <1>1, EvaluateKeeps DEF MutateRandom
  <1>2. ASSUME NEW i \in Inputs, NEW m \in Kinds, MutateSplice(i, m) PROVE StagesInv'
    BY <1>2, EvaluateKeeps DEF MutateSplice
  <1>3. ASSUME NEW i \in Inputs, MutatePop(i) PROVE StagesInv'
    <2>1. /\ SharedOK' /\ AddedOK' /\ tried' \subseteq Tracked /\ UNCHANGED replaced
          /\ serialized' = {} /\ (build = "libfuzzer" => mutations' \subseteq tried')
      BY <1>3, <1>s, RecordedKeeps DEF MutatePop, Stay
    <2>2. PlaceOK' /\ Drained' /\ Caused' /\ Attributed'
      <3>1. PlaceOK'
        BY <1>0, <1>3, <2>1, StackAssumption DEF Stay, MutatePop, Iterate, PlaceOK, Inputs
      <3>2. Drained' /\ Caused'
        BY <1>0, <1>3, <2>1, StaysRecorded DEF MutatePop, Tried
      <3>3. Attributed'
        BY <1>0, <1>3, <2>1, StackAssumption DEF MutatePop, Iterate, Stay, Attributed, Outside
      <3> QED
        BY <3>1, <3>2, <3>3
    <2> QED
      BY <2>1, <2>2, Rejoined
  <1>4. CASE MutateSkipped
    <2>1. SharedOK' /\ AddedOK' /\ serialized' = {} /\ mutations' = mutations
      <3>1. mutations \in SUBSET Tracked
        BY <1>0 DEF SharedOK
      <3> QED
        BY <1>4, <1>s, <3>1, DiscardKeeps DEF MutateSkipped
    <2>2. PlaceOK' /\ Drained' /\ Caused' /\ Attributed'
      <3>1. PlaceOK'
        BY <1>0, <1>4, <2>1, StackAssumption DEF Stay, MutateSkipped, Iterate, PlaceOK
      <3>2. Drained' /\ Caused'
        BY <1>0, <1>4, <2>1, StaysRecorded DEF MutateSkipped, Tried
      <3>3. Attributed'
        BY <1>0, <1>4, <2>1, StackAssumption DEF MutateSkipped, Iterate, Stay, Attributed, Outside
      <3> QED
        BY <3>1, <3>2, <3>3
    <2> QED
      BY <2>1, <2>2, Rejoined
  <1>5. CASE FinishMutate
    <2>1. AddedOK' /\ UNCHANGED <<build, chunks>>
      BY <1>5, QuietKeeps DEF FinishMutate
    <2>2. SharedOK'
      BY <1>0, <1>5, <2>1 DEF FinishMutate, SharedOK
    <2>3. iteration > 0 /\ serialized = {}
      BY <1>0, <1>5, StackAssumption DEF FinishMutate, Drained
    <2>4. PlaceOK' /\ Drained' /\ Caused' /\ Attributed'
      <3>1. PlaceOK'
        BY <1>0, <1>5, <2>1, <2>3, StackAssumption DEF FinishMutate, GoTo, PlaceOK, StageNames
      <3>2. Drained' /\ Caused'
        BY <1>0, <1>5, <2>1, <2>3, StackAssumption DEF FinishMutate, GoTo, Drained, Caused, Outside
      <3>3. Attributed'
        BY <1>0, <1>5, <2>1, <2>3, StackAssumption DEF FinishMutate, GoTo, Attributed, Outside
      <3> QED
        BY <3>1, <3>2, <3>3
    <2> QED
      BY <2>1, <2>2, <2>4, Rejoined
  <1>6. ASSUME NEW i \in Inputs, I2SMutate(i) PROVE StagesInv'
    <2>1. /\ SharedOK' /\ AddedOK' /\ tried' \subseteq Tracked /\ UNCHANGED replaced
          /\ (build = "libfuzzer" => mutations' \subseteq tried')
          /\ \/ serialized' = {} /\ added' # {}
             \/ serialized' = serialized /\ added' = {} /\ input_cause' = input_cause
      BY <1>6, SplicedKeeps DEF I2SMutate, Stay
    <2>2. PlaceOK' /\ Drained' /\ Caused' /\ Attributed'
      <3>1. PlaceOK'
        BY <1>0, <1>6, <2>1, StackAssumption DEF Stay, I2SMutate, Iterate, PlaceOK
      <3>2. Drained' /\ Caused'
        BY <1>0, <1>6, <2>1, StaysRecorded DEF I2SMutate
      <3>3. Attributed'
        BY <1>0, <1>6, <2>1, StackAssumption DEF I2SMutate, Iterate, Stay, Attributed, Outside
      <3> QED
        BY <3>1, <3>2, <3>3
    <2> QED
      BY <2>1, <2>2, Rejoined
  <1>7. CASE FinishI2S
    <2>1. AddedOK' /\ UNCHANGED <<build, chunks>>
      BY <1>7, QuietKeeps DEF FinishI2S
    <2>2. SharedOK'
      BY <1>0, <1>7, <2>1 DEF FinishI2S, SharedOK
    <2>3. PlaceOK' /\ Drained' /\ Caused' /\ Attributed'
      <3>1. PlaceOK'
        BY <1>0, <1>7, <2>1, StackAssumption DEF FinishI2S, GoTo, PlaceOK, StageNames
      <3>2. Drained' /\ Caused'
        BY <1>0, <1>7, <2>1, StackAssumption DEF FinishI2S, GoTo, Drained, Caused, Outside
      <3>3. Attributed'
        BY <1>0, <1>7, <2>1, StackAssumption DEF FinishI2S, GoTo, Attributed, Outside
      <3> QED
        BY <3>1, <3>2, <3>3
    <2> QED
      BY <2>1, <2>2, <2>3, Rejoined
  <1> QED
    BY <1>1, <1>2, <1>3, <1>4, <1>5, <1>6, <1>7 DEF Mutating

LEMMA FinishSyncKeeps ==
  ASSUME StagesInv, FinishSync PROVE StagesInv'
  <1> USE DEF History
  <1>1. PlaceOK /\ SharedOK /\ Drained /\ Caused /\ Attributed
    BY Parts
  <1>2. AddedOK' /\ SharedOK'
    BY <1>1, QuietKeeps DEF FinishSync, Shared, SharedOK
  <1>3. PlaceOK' /\ Drained' /\ Caused' /\ Attributed'
    <2>1. PlaceOK'
      BY <1>1, StackAssumption DEF FinishSync, GoTo, Quiet, Shared, PlaceOK, StageNames
    <2>2. Drained' /\ Caused'
      BY <1>1, StackAssumption DEF FinishSync, GoTo, Quiet, Shared, Drained, Caused, Outside
    <2>3. Attributed'
      BY <1>1, StackAssumption DEF FinishSync, GoTo, Quiet, Shared, Attributed, Outside
    <2> QED
      BY <2>1, <2>2, <2>3
  <1> QED
    BY <1>2, <1>3, Rejoined

LEMMA RestartKeeps ==
  ASSUME StagesInv, Restart PROVE StagesInv'
  <1> USE DEF History
  <1>1. PlaceOK /\ SharedOK /\ Drained /\ Caused /\ Attributed
    BY Parts
  <1>2. AddedOK' /\ UNCHANGED <<build, chunks>>
    BY QuietKeeps DEF Restart
  <1>3. SharedOK'
    BY <1>1, <1>2 DEF Restart, SharedOK
  <1>4. PlaceOK' /\ Drained' /\ Caused' /\ Attributed'
    <2>1. PlaceOK'
      BY <1>1, <1>2, StackAssumption DEF Restart, PlaceOK, StageNames
    <2>2. Drained' /\ Caused'
      BY <1>1, <1>2, StackAssumption DEF Restart, Drained, Caused, Outside
    <2>3. Attributed'
      BY <1>1, <1>2, StackAssumption DEF Restart, Attributed, Outside
    <2> QED
      BY <2>1, <2>2, <2>3
  <1> QED
    BY <1>2, <1>3, <1>4, Rejoined

LEMMA StutterKeeps ==
  ASSUME StagesInv, UNCHANGED stageVars PROVE StagesInv'
  <1>1. PlaceOK /\ SharedOK /\ Drained /\ Caused /\ Attributed
    BY Parts
  <1>2. PlaceOK' /\ SharedOK' /\ Drained' /\ Caused' /\ Attributed'
    BY <1>1 DEF stageVars, PlaceOK, SharedOK, Drained, Caused, Attributed
  <1>3. AddedOK'
    BY DEF stageVars, StagesInv, AddedOK, NewInputsAreLearnt, LearntFromTheInput,
           InProcessAttribution, MadeToThisTestcase
  <1> QED
    BY <1>2, <1>3, Rejoined

----------------------------------------------------------------------------
LEMMA StagesInvariant == StagesSpec => []StagesInv
  <1>1. StagesInv /\ [StagesNext]_stageVars => StagesInv'
    <2> SUFFICES ASSUME StagesInv, [StagesNext]_stageVars PROVE StagesInv'
      OBVIOUS
    <2> QED
      BY PrepareKeeps, ScheduleKeeps, MinimizingKeeps, CmploggingKeeps, MutatingKeeps,
         FinishSyncKeeps, RestartKeeps, StutterKeeps DEF StagesNext
  <1> QED
    BY <1>1, StagesInitially, PTL DEF StagesSpec

(* Whatever inputs are made of and however many a stage mutates, the state  *)
(* the stages share is what the code's types say it is.                     *)
THEOREM StagesTypeCorrect == StagesSpec => []StagesTypeOK
BY StagesInvariant, PTL DEF StagesInv

(* Of an added input that was generated, or made by replacing its bytes     *)
(* with compared ones, and of the first input the I2S stage adds, every     *)
(* fragment becomes a chunk, for any number of fragments and any            *)
(* interleaving of the stages with restarts.                                *)
THEOREM NewInputsLearnt == StagesSpec => []NewInputsAreLearnt
BY StagesInvariant, PTL DEF StagesInv

(* Whatever is learnt from an added input is part of it or was made for it, *)
(* but for what the recursive minimization of the same testcase left, which *)
(* no stage after the mutational stage's first drain learns, for any stack  *)
(* size and any number of fragments generated for one input.                *)
THEOREM LearnsFromTheInput == StagesSpec => []LearntFromTheInput
BY StagesInvariant, PTL DEF StagesInv

(* Fragments generated for one testcase never survive until the next is     *)
(* scheduled: each way back to the scheduler drains them.                   *)
THEOREM NothingStaysPending == StagesSpec => []NothingPendingBetween
  <1>1. StagesInv => NothingPendingBetween
    BY DEF StagesInv, Drained, Outside, NothingPendingBetween
  <1> QED
    BY <1>1, StagesInvariant, PTL

(* In the in-process build no mutation of an earlier testcase is counted    *)
(* for an input that is added, for any set of mutations that is followed.   *)
THEOREM AttributesInProcess == StagesSpec => []InProcessAttribution
BY StagesInvariant, PTL DEF StagesInv
=============================================================================
