# autarkie in TLA+

autarkie is a grammar fuzzer: `#[derive(Grammar)]` turns Rust types into a
grammar, values of the fuzzed type are generated and mutated at run time, and
LibAFL runs the target on them. This directory models the parts of autarkie that
carry its own logic, checks them with TLC on small instances, and proves the
results that matter most with TLAPS for every instance.

Paths below are relative to `src/autarkie/src` unless they start with `src/`.

## The system

| component | state | operations | interacts with |
|---|---|---|---|
| type grammar (`tree.rs`, derive) | none: the types, their variants and fields | per `impl Node`: generate, register, fields, cmps, serialized, mutate | calls the same functions of the types inside it and the `Visitor` |
| registration (`Visitor::register_ty`, `pop_ty`) | `ty_map`, `ty_map_stack`, `ty_done` | `__autarkie_register` of every type, once per client | fills `ty_map` |
| cycle search (`graph.rs`) | `visited`, `stack`, `cycles`, `done` | `find_cycles`, `dfs_cycle` | called by the recursion analysis |
| recursion analysis (`Visitor::calculate_recursion`) | `ty_generate_map` | once, after registration | reads `ty_map`, writes what generation chooses from |
| generation (`Visitor::generate`, `__autarkie_generate`) | the Rust call stack | one generation at a time, from the first inputs or from a mutation | reads `ty_generate_map` |
| fields and paths (`__autarkie_fields`, `__autarkie_cmps`, `__autarkie_mutate`) | `fields`, `field_stack`, `matching_cmps` | walks of a value, mutation along a path | mutators, minimization, cmplog |
| string pool (`StringPool`) | `strings` | `get_string`, `register_string`, `add_strings` | leaves of type String |
| chunk store (`fuzzer/context.rs`, `feedback/register.rs`) | `type_input_map`, the files in `chunks/` | `register_input`, `add_existing_chunk` | outlives the process; splices read it |
| stages and mutators (`fuzzer/stages`, `fuzzer/mutators`) | `Visitor.serialized`, `Context.mutations`, `Context.input_cause` | minimize, trace, cmplog, mutate, I2S, sync | one after the other per testcase, all on the shared state |
| file cache (`mutators/commons.rs`) | `data`, `queue`, `size` | `read_cached` | splice mutators |
| sharing (`hooks/rare_share.rs`) | `skipped` | `pre_receive` | testcases of other clients |

A client is single-threaded; several clients share nothing but LibAFL's
messages and imported inputs, so what makes the code hard is not threads. It is

* recursion: functions of many `impl Node` that keep one shared stack, map or
  depth consistent although none sees the whole;
* state that a stage leaves behind for whatever runs next (pending fragments,
  mutations, the cause of an input), with early returns, failed generations and
  restarts in between;
* a directory that outlives the process, which can stop between any two writes;
* walks and mutations written impl by impl, which agree on a path only if what
  one impl pushes is what another one pops;
* loops that change what they iterate over: a list of fields that is collected
  again, a subslice whose elements are replaced, bytes that are searched while
  they are rewritten;
* arithmetic on depths, lengths and offsets at their limits.

What makes each part correct: registration leaves exactly the type graph and
ends; the search misses no edge of a cycle and reports only cycles; a mark is
only put on what recurses, and the depth limit bounds the stack; the chunk list
is the directory and what it lists can be deserialized; what is learnt from an
added input is that input's, and what is counted for it was done to it; a path
leads to the node it was collected for; a mutated input is still a value of its
type; what minimization leaves cannot be made smaller by what it tries, and its
loops end; the file cache answers what is on disk.
`PROJECT.json` lists the hazards line by line with the property that covers each.

## Modules

| module | models | abstraction |
|---|---|---|
| `Grammar` | types, kinds, variants, fields | a type is its id; kinds are grouped by what their impl does |
| `Generation` | `__autarkie_generate` and `Visitor::generate` | `calls` is the Rust stack, a frame per active call; values are left out |
| `Registration` | `__autarkie_register`, `register_ty`, `pop_ty`, `is_recursive` | `agenda` is what the active calls have left to do |
| `CycleSearch` | `find_cycles`, `dfs_cycle` | the recursion is the path, with the neighbour each node looks at next |
| `Recursion` | `calculate_recursion` | EXTENDS `CycleSearch`; the graph is built from `ty_map` |
| `TypeMap`, `GenerateMap` | `Visitor.ty_map`, `Visitor.ty_generate_map` | one variable each, in a module of its own since two of the above share it |
| `GrammarVisitor` | a client's `Visitor` from `run_client`'s point of view | EXTENDS `Registration`, `Recursion` and `Generation`, whose steps are its own |
| `ChunkPool` | what the fuzzer expects of its fragments: learnt, offered, at most one spoilt by a stop | abstract: no listings, no half-written files, no caches |
| `ChunkStore` | `register_input`, the reload in `run_client`, a splice's read | a file is absent, torn or whole; `fs::write` is two steps |
| `FileCache` | `read_cached` and what a splice does with it | EXTENDS `ChunkStore`, whose `Splice` it replaces by a read through the cache; a step per eviction |
| `Stages` | the stage tuple of both builds and the mutators | an input is the set of its fragments, those that hold others included; which input comes of a mutation and what the target makes of it is free |
| `NodeInput` | the trait `Node`, from a stage's point of view | `FieldsOf`, `CmpsOf` and `Mutate` are constants, as `I: Node` is a type parameter; the input, and what a mutation leaves in `Visitor.serialized` |
| `NodeValue` | `generate`, `fields`, `cmps`, `serialized` and `mutate` of every impl of `Node` | a value is a tree of nodes; a leaf has no content; operators that give every possible result. The run gives `WalkFields`, `WalkCmps` and `MutateNode` to `NodeInput` |
| `Mutators` | the mutators and the values of the cmplog stage | EXTENDS `NodeInput` only: a mutator draws a field and leaves calls of mutate to be made one by one |
| `Minimization` | the three minimization stages | EXTENDS `NodeInput` only: the list of fields and its cursor; whether a smaller input is kept is the target's choice |
| `CmpBytes` | the byte loop of `AutarkieCmpLogStage` | bytes and positions; whether the result deserializes is left open |
| `InputStages` | one stage at work on one input | composes the three above over `NodeValue` |
| `*Proofs` | theorems about the module they extend | |
| `MC*` | an instance for TLC | |

How the code maps to actions:

* `Generation`: `Start` is a call of the outermost generate; `Descend` a call
  for the next field; `Fail` the `?` that passes None to the first caller;
  `Crash` the failing `expect` of `Visitor::generate`; `RunOut` a full stack;
  `Return` the end of a call. `Bodies` holds the choices of each kind: variant,
  coin, number of elements.
* `Registration`: a job is a field to visit, a `register` to call, the stand-in
  for no field, the variants of a type from one on, or a `pop_ty` to come. A type
  not known is registered (`VisitNew`, `RegisterType`, for Box and Vec
  `RegisterInner`; `RegisterVariant` goes through its variants), a known one only
  recorded (`VisitKnown`).
* `CycleSearch`: one action per branch of `dfs_cycle`'s loop, one for a root,
  one for the return.
* `Recursion`: `BuildGraph`, the search, `Calculate` (marks and split).
* `ChunkStore`: `register_input` hands over the files to write; each is skipped
  (`SkipKnown`) or created and filled (`CreateFile`, `FillFile`); `Stop` can
  come between any two steps; `Restart` lists the directory; `Splice`
  deserializes a listed chunk.
* `Stages`: an action per evaluation and one for the end of each stage.
  `Add` is what `RegisterFeedback::append_metadata` does, whether the input is
  interesting or a solution; `Discard` an evaluation that adds nothing. What a
  mutator generates becomes pending as a set of its own (`made`): `MutateRandom` is a
  whole iteration, with a call of mutate for each element of a subslice, and a
  map records itself and its entries after each, so that part of `made` need not be
  in the input that is run. No input is derived from another, since a fragment is
  held by others, which change with it: any input may come of a mutation, and
  the properties depend on what becomes pending and what is taken. `fresh`, `tried` and
  `replaced` are histories: that the stage has added nothing yet, the mutations
  recorded and what the recursive minimization generated since the testcase was scheduled.
* `FileCache`: `Read` draws a chunk and looks it up (`Lookup`, `Load`), `Evict` is
  one turn of the loop, `Answer` deserializes. `CachePanic` is one of the three
  expectations failing, a stop of the process like any other. `Register`,
  `Interrupt` and `StartAgain` are the store's steps; a new client has an empty
  cache. The mutators are not at work while an input is registered (`~ Reading`).
* `NodeValue`: `Walk` collects the field stacks of `__autarkie_fields` or, with
  `mode = "cmps"`, of `__autarkie_cmps`; a path is the first element of each entry
  (`PathOf`). `MutateNode` is `__autarkie_mutate`: the set of its results, each the new
  value, the types added to `Visitor.serialized`, or the panic. There is one
  operator per impl (`WalkOption`, `MutateOption`, ...).
* `Mutators`: one action per mutator, which draws a field and fills `todo`; `Apply`
  makes one call; `Evaluate` runs the input. `CmplogInput` draws the leaves one comparison
  matches (`CmpsOf` is the set of all such lists) and splices each. Two mutators may follow each other
  on the same input.
* `Minimization`: `NextList`, `PopElement`, `LeaveList` are the loops over iterables
  (of MinimizationStage and, whose order of fields is one of the shuffled ones,
  of NoveltyMinimizationStage, which adds the result instead of setting it);
  `PassOver` and `ReplaceRecursive` the loop over recursive nodes.
* `CmpBytes`: `Substitute` is one turn of the loop, `NothingFound` its end.

The chunk store has three levels. `PoolSpec` is what the rest of the fuzzer may
expect: fragments are learnt, each once and for good, and all of them are offered
while a client runs. `ChunkStore` implements it (`ImplementsPool`, by the mapping
`Pool`): a file counts as stored once it is filled, as spoilt if a stop left it
half-written, and as neither while it is being written; what is offered is what
`type_input_map` lists. `FillFile` is then `Learn`, a stop `Halt` or, between the
creation and the filling of a file, `HaltLearning`, a restart `Resume`; a splice
of a spoilt fragment is a `Halt`, everything else a stutter. `StoreSpec` reads a chunk from disk when it is
spliced; `ReaderSpec` reads it once, keeps it, and forgets it at its own time.
That `ReaderSpec` implements `StoreSpec` is a property of the run `chunk_store`
and a theorem. The refinement mapping is the identity on the store's variables,
since `FileCache` extends `ChunkStore`: an answer from the cache is a splice from
disk, a lookup or an eviction is a stutter.

Besides the properties, the modules hold reference definitions they are compared
with: `TypeGraph` (the type graph computed from the grammar), `VariantGraphIs` (the
analysis's graph, from `ty_map`), `ReachableFrom` and `IsCycle`, `Below`, `HasUnlimitedCycle` (told from the types alone).

Definitions named as an action with a suffix and commented `Mutant:` are
plausible bugs of that action. They are not part of the specification: replacing
the action by one of them makes the property it is listed with in
`PROJECT.json` fail, which shows that the property depends on the code.

## Runs

| run | properties | bounds, and why they are enough |
|---|---|---|
| `generation` | `TypeOK`, `DepthBounded`, `NoStackOverflow` | 6 types with direct, mutual and list recursion, one of them unknown to the visitor, all 8 markings, depth limit and elements per list 2: a level can be entered, exceeded and left twice. The stack is exactly as large as the theorem says |
| `registration` | `RegTypeOK`, `PopsMatch`, `WalkedOnce`, `MapsTheGrammar`, `RegistrationEnds` | 1568 grammars of an enum with two variants, a type of each kind, a struct, a leaf and a unit struct, from two roots: self recursion, mutual recursion, a type met again while and after it is walked |
| `cycle_search` | `SearchTypeOK`, `CyclesAreReal`, `EveryCyclicEdgeFound`, `SearchEnds` | every graph of 3 nodes and every one of 4 without self-loops, which holds nested, crossing and disjoint cycles. The neighbours come in ascending order; all node labellings are among the graphs, so the other orders occur as relabelled graphs |
| `recursion` | `RecTypeOK`, `MarksAreRecursive`, `UnmarkedCyclesAreEven` | three types of one or two variants over each other and a leaf: cycles within a type, between types of different and equal numbers of variants, and through three |
| `visitor` | `OverflowNeedsUnlimitedCycle`, `PanicNeedsOpaqueType`, `GenerationTypeOK` | 140 grammars with every kind but leaves recursive, a stack of 15 calls, one for each of the grammar's 5 types on each of (2 + 1) levels, as the theorem asks for |
| `chunk_store` | `StoreTypeOK`, `ListedExactlyOnce`, `ImplementsPool`, `CacheAccounted`, `OnlyLargeFilesFail`, `StoreSpec` | 3 chunks, 2 rendered inputs, up to 2 fragments per input (also the same one twice), 2 stops: a stop during a write, and one after the restart that follows. The chunks are of 1, 2 and 3 units, the cache of 2: the first leaves room, the second fills it, the third does not fit |
| `stages` | `StagesTypeOK`, `NewInputsAreLearnt`, `LearntFromTheInput`, `NothingPendingBetween`, `InProcessAttribution` | 3 symmetric fragments (one of the input, one left over, one of neither), any set of them generated in an iteration, both builds, two iterations per stage, two kinds of mutation followed, restarts anywhere |
| `input_stages` | `InputTypeOK`, `PathsLead`, `PanicsAreKnown`, `LengthsKept`; `LocallyMinimal`, `PopsInRange`, `RecursiveTriesAll`, `MinimizationEnds`; `BytesTypeOK`, `OverOnlyWithoutRepeat`, `EndsWithoutRepeat` | 29 types with every impl of `Node`, 11 of them fuzzed, with the same marks whichever it is; all values generated with one level of recursion and lists of one element, and imported ones with lists of four, maps of three entries and a recursive node below another; two mutators in a row, subslices of two. For the byte search every input of up to 6 bytes over two symbols and every compared chunk of 1 or 2: a chunk can occur three times, overlap itself, or be made by what is written |

Four runs look for what a document or a message of the code promises, and find
the code doing otherwise:

| run | promise | what happens |
|---|---|---|
| `visitor_overflow` | `visitor.rs:362`: the depth is there "so self referencing types do not result in a stack overflow" | `struct A { f: Vec<B> }`, `struct B { f: Vec<A> }`: as many variants in A as in B, so no mark and no limit |
| `visitor_unknown` | `src/README.md:18`: "every necessary type is included" | a struct without fields is in no map, its generation panics. Also a type behind `Cow<T>`, by the property of `visitor` |
| `torn_chunk` | `tree.rs:1103`: "we must always be able to deserialize" | a stop between creating and filling a chunk leaves a file that is listed, never rewritten, and spliced |
| `attribution` | `context.rs:142`: "Track why a testcase was added" | in the forkserver build nothing clears the mutations of inputs that were not added |

`OverflowNeedsUnlimitedCycle`, `PanicNeedsOpaqueType` and `InProcessAttribution`
say where these promises are kept.

Bounds that cap something the code does not: `StackLimit` (the thread's stack),
`IterateDepth` 2 for the default 5, `MaxRank` (see below), `MaxFields` and
`MaxStops` in `ChunkStore`, `StackSize` (`mutation_stack_size`, and for I2S the
constant 7) in `Stages`, `MaxRounds` in `Mutators`, `MaxSize` and `MaxWidth` in
`CmpBytes`, the length of generated lists (`IterateDepth`), `Tracked` in `Stages` (the kinds of mutation followed;
they do not influence each other).

### What holds only with an exception

Some properties name the place where the code does not keep what one would
expect of it. They say that it happens there and nowhere else.

* `PathsLead`, `PanicsAreKnown`, `PopsInRange` except what is below a `Result` or a
  `BTreeMap` (`Crooked`). A Result pushes the index its caller passed, which is 0
  for a struct's field and the field's number in an enum, while mutate takes it
  for the variant: a field below an Err, or below an Ok that is an enum's second
  field, leads to `unreachable!` (`tree.rs:715`). A map's walk leaves key or value
  to the impl it calls, of which only some push an element, while mutate pops
  one: the path is one element short or long, goes to the wrong side or fails.
* `PanicsAreKnown` names two more: a mutator underflows on an input without fields
  (`random.rs:33`, the same in splice and iterable pop), and a map that gets a
  chunk of itself for an entry, or has to generate an entry of a type that is not
  registered, because a map registers neither K nor V.
* `OverOnlyWithoutRepeat`: the byte search ends only for bytes that do not occur a
  second time, without overlap, in the input. `find_subsequence` counts from
  `start`, the loop takes the index to be absolute, so the search goes back and
  finds the same occurrence for ever. Compared bytes are taken not to be empty.
* `OnlyLargeFilesFail`: a chunk larger than the cache (256 MiB) evicts itself, and
  the `unwrap` of `read_cached` panics. No other file makes it do so.
* `NewInputsAreLearnt`: the I2S stage sets `InputCause::Generated` once for all of its
  inputs (`binary_mutator.rs:63`), and the first it adds resets it (`context.rs:86`).
  All fragments of that first one are learnt, of those that follow none are.
* `LearntFromTheInput`: a replacement the recursive minimization generated stays
  pending when its input is not added. It is learnt with a later input of the same
  stage or, where nothing clears it before (the in-process build), with the first
  addition of the cmplog stages or of the mutational stage's first iteration. And
  what random mutation made on a map is learnt with the added input although a later
  call of the same iteration may have removed it again (`tree.rs:881`).
* `RecursiveTriesAll` is about a stage that replaced nothing. After a replacement
  `skip` goes on counting nodes of the old list, and a node may be left untried.
* `LocallyMinimal` leaves out the last element of a list, which the stages never
  try to drop, and lists that are not a field of their own (nested ones).

Deadlock checking is off where the modelled call comes to its end: registration,
search and analysis finish, stages return, and a visitor or a client that
panicked stops.

## Fairness

`RegSpec`, `SearchSpec` and `VisitorSpec` assume weak fairness of their next-state
relation: registration and the cycle search are single calls on one thread, which
runs on until they return, and so they take a step whenever one is possible.
`RegistrationEnds` and `SearchEnds` use it. `InputSpec` assumes weak fairness of
`Minimize` and of `CmplogBytes` for the same reason: each is the loop of one stage,
and evaluating an input returns, at the latest with a timeout of the executor.
`MinimizationEnds` and `EndsWithoutRepeat` use it, and no choice of the target is
assumed to come out in any way: minimization of iterables ends whatever it keeps.
No fairness is assumed of the mutators, and none in the other specifications;
no liveness is claimed of them. Whether a generation succeeds is a matter of
chance. Nor is it claimed that `RecursiveMinimizationStage` ends: what it
generates in place of a recursive node is generated from depth 0
(`autarkie_derive/src/lib.rs:416`) and may be recursive again, although the comment
at `recursive_minimization.rs:109` expects a non-recursive variant, and each
success starts over.

## Proofs

The proofs hold for every value of the constants under the modules' assumptions,
which TLC evaluates on every run whose module extends theirs:

* of a grammar: types are numbers other than the root's id, finitely many, each
  with finitely many variants; every field is a type; the variants of an enum are
  numbered from 0 without gaps, an Option or Result has two, every other kind has
  the one variant 0; a leaf holds nothing, a box or list one type, and boxes and
  lists nest finitely (`NestingAssumption`), as in every Rust type; the stand-in for no field (`PhantomData<bool>`), if it is
  a type of the grammar at all, is a leaf;
* of the recursion analysis: a `ty_map` is a finite map of finite maps of finite
  sets (of `BTreeMap`s and a `BTreeSet`), ids are integers, and the nodes of the
  graph are pairs of an id and a variant or -1. In `GrammarVisitor` this is proved
  of what registration leaves, and `Node` only has to hold a node for every type
  and every variant;
* of a generation: a map in `GenerateMaps` splits the variants of each type (in
  `GrammarVisitor`: proved of what the analysis leaves);
* of the store and the cache: a chunk is no rendered input, a file and the cache
  have a size;
* bounds are natural numbers.

Module by module:

* `GenerationProofs`. `TypeCorrect` is an induction over the actions with two
  lemmas: what `Bodies` yields is a frame, and what is under the next call is a
  stack of frames. `DepthLimited` and `StackSuffices` need more than the property:
  `IInv` adds that every active call stands at most `Level(max, depth) + max -
  rank + 1` calls up the stack, for every `max` and every rank that each step not going
  one level deeper lowers, and that what a frame has left to do is deeper or of
  lower rank. The rank need not be one of all types: it says something of a call
  as soon as it is a rank of the types of the calls up to it (`Within`).
  `StackSuffices` assumes `StackLimit >= (GenerateDepth + 1) *
  (MaxRank + 1)` and concludes that only a grammar without such a rank can
  overflow. `MaxRank` is arbitrary in the theorem; with as many ranks as types
  every grammar whose unmarked steps have no cycle has one.
* `RegistrationProofs`. `RegInv` adds to the properties that the jobs are well
  formed and that a `register` to come is the next job, for a type that was not
  known when it was asked for (`HeadIsNew`): the only steps that push a type push that one (`PushesNew`), whence
  `WalkedOnce`, which speaks of types being walked and of those walked before.
  For `PopsMatch` every step takes the first job off and puts others in its place:
  `PopsShifted` says where the pops are then; a step that adds none keeps them in
  their order (`PopsMoved`), one that pushes a type adds its pop before all others
  (`TypePushed`), and the pop that comes first is that of the innermost type
  (`TypePopped`).
  `LeavesTheTypeGraph` says what is left in the end. Of a walk that skips what it
  knows, possibly while it is still being walked, it must be told why nothing is
  lost: `NothingMissing` says that a type is recorded under a variant or promised
  by a job to come exactly when it is owed, that is when the variant is one of a
  known type and holds it. A step that records takes the promise off, a step that
  makes a type known promises all of its variants. `KnownReached` adds that only
  types reachable from the fuzzed one are known, `NoneEmpty` that no entry is
  empty. With no job left, recorded is owed: the known types are closed, hence
  all that are reachable, and `ty_map` is `TypeGraph`. `StripFollows` and
  `ClosureIsLeast` prove of the two recursive functions of the reference that they
  satisfy their equations, the second because there are finitely many types.
* `CycleSearchProofs`. `ReportsCycles`: that the path is a walk along edges and
  repeats no node is the strengthening (`PathInv`); it needs that the nodes of
  the path are visited. What is reported is the part of the path from the
  neighbour found on it, hence a cycle.
  `FindsEveryCycle` is the converse, and the reason why the analysis may rely on a
  search that never enters a node twice per root: every edge back to a root from
  what it reaches is reported. `CoverInv` holds while a root is searched: of every
  visited node, the neighbours passed so far (all of them once it has left the
  path) are visited, and those that are the root have been reported as the end of
  a cycle. When the path is empty the visited nodes are closed under edges, so
  they contain what the root reaches (`DoneInv`); each node is a root once.
* `RecursionProofs`. EXTENDS `CycleSearchProofs` and takes from it that all and only
  cycles are found. `RecInv` adds that the graph's edges are the steps type ->
  variant -> type of `ty_map` (`VariantGraphIs`, which needs that `Ascending` lists a
  finite set: `AscendingLists`). A cycle of the graph alternates between types
  and variants (`CycleShape`), so what `Mark` takes from it is a variant that leads
  back to its type: `OnlyRecursiveMarked`. For `UnmarkedLoopsEven`, an edge that
  closes a loop is the last of a reported cycle (`ClosingEdgeFound`), and were it
  unmarked the type it comes from would not have more variants than the one it
  leads to (`UnmarkedStep`); along a loop of unmarked variants the number of
  variants never falls, and so is the same everywhere (`UnmarkedLoop`).
* `FileCacheProofs`, first part: the chunk store by itself. `StoreInv` is `StoreTypeOK`, `ListedExactlyOnce` and the
  states of a file that is being written: it is torn, and the first of `todo`.
  `StoreImplementsPool` is the refinement of `ChunkPool`, one lemma per kind of step.
  It needs `ListedExactlyOnce` in every step that changes a file or the listing:
  `FillLearns` that the new chunk was not listed yet, `RestartResumes` that the
  directory holds what is stored or spoilt and nothing besides, `StopHalts` that
  the only half-written file a stop adds is the one at the head of `todo`.
  `NothingForgotten` is drawn from the refinement alone: a file that is whole
  stays whole, which the pool's `Learn` and `UNCHANGED stored` say at a glance and
  the store's steps do not. `ReaderImplementsPool` composes the two refinements.
* `FileCacheProofs`, second part. `ReaderImplementsStore` is the refinement: each step of
  `ReaderSpec` is one of `StoreSpec` or leaves the store alone. `Answer` is the step
  that needs an invariant (`CacheFresh`): what is cached is listed and is what its
  file holds, because a listed file is on disk, is not being written, and is
  never written again, torn or not. Through the refinement the theorems of the
  store hold of the reader; `ReaderListsTheDisk` is one of them.
  `CacheAlwaysAccounted` is about the running size: the sum over the queue is a
  sequence of running totals (`TakesInAll`), to which a load adds an element
  (`LoadAccounted`) and from which an eviction drops the first, lowering the others
  (`EvictAccounted`). `CacheInv` adds that the cache is not over its size between
  reads, and that during one the wanted file is cached and, as long as the cache
  is over its size, the last of the queue: an eviction that reaches it found
  nothing else to evict, so the file alone is larger than the cache. This is
  `OnlyLargeFilesEverFail`.
* `GrammarVisitorProofs`. The three parts composed, for every grammar: no part's
  proof is repeated, each is taken over with the map the part before it leaves in
  place of the maps it could be given. `RegistrationLeavesATyMap` and
  `AnalysisLeavesAGenerateMap` are the two hand-overs; they hold because an entry
  of `ty_map` is always one that is owed (`EntriesAreOwed`), and because the graph
  was built from the `ty_map` registration left. `VisitorInv` adds to the parts'
  invariants what holds of them while they wait for their turn, and of a
  generation `CallsMet`: every call is for a type `Met` from the fuzzed one, and
  what it has left to do too. A type a generation meets is one registration made known
  (`MetIsMapped`), unless some type on the way is opaque (a Cow, a struct without
  fields, an enum without variants): `OnlyOpaqueTypesPanic`. That a derived type's
  variants are never missing, hence that `Visitor::generate` has variants to choose
  from, is `GeneratesFromTheAnalysis`.
  `OnlyUnlimitedCyclesOverflow` puts the four parts together. A step of a generation
  that does not go one level deeper is, without the boxes and vectors, a step of
  the type graph, and if it lies on a cycle of the graph it is one that is not
  bound to be limited (`ShallowStep`: the search reports the cycle's last edge, so
  the analysis would have marked it, `UnmarkedStep`). So a type below itself along
  such steps gives an unlimited cycle of the graph (`NoShallowLoop`; boxes alone do
  not, since they nest finitely), and without one the number of types below a type
  is a rank (`LoopFreeIsRanked`), at most the number of types of the grammar less
  one. With `StackLimit` of that many calls per level the stack cannot run out.
* `InputLoopsProofs`, the minimization loops. They are written over `NodeInput`, so
  nothing is said of how fields are collected or values mutated but what the
  theorems name as hypotheses: `FieldsTyped` (fields are stacks of nodes, none of
  them empty; a part of `InputTypeOK`), and for `NoPopPastTheEnd` also `PopsShorten`
  (popping an element along the path of an iterable succeeds and leaves the
  iterable at its path, one shorter; a part of `PathsLead`). Both are invariants
  TLC checks of every impl of `Node` in the run `input_stages`.
  `EndsLocallyMinimal` rests on `EveryListAccounted`: every iterable of the present
  input is still in the list of fields, or was refused all elements but the last,
  or is under the cursor without a success since it was popped. A success in the
  middle of the inner loop leaves the cursor at a list of the old input, which is
  harmless because all the new fields are to be looked at again (`AcceptInv`).
  `NoRecursiveNodeSkipped` rests on `cur_iter = skip` as long as nothing was
  replaced (`EveryNodeAccounted`). `NoPopPastTheEnd` rests on `PopInv`: the list
  under the cursor is a field of the present input with `cursor.len + 1` elements,
  so the loop's bound and the list get shorter together.
* `InputLoopsProofs`, the mutators, also over `NodeInput` only. What is assumed of the impls of
  `Node` is `FieldsTyped` and the contract `PathsLead`: of the one call of mutate that
  comes next (`Called`), that it succeeds where the path is `Straight` and that the
  iterable, or the other leaves of the comparison, are then where they were. It
  says nothing of a call that is not the next one, nor of indices past the end of a list. That
  the calls a mutator makes later still meet the contract is what is proved: `MutInv`
  says that a mutator at work has calls of one kind left (`Fits`), all for the
  field it drew, that this field is still a field of the present input at the same
  path with the length that was drawn, or grown by appending, and that every
  index left is below that length; for cmplog, that the leaves left are leaves of
  the present input. Each kind of call has its lemma (`FitsField`, `FitsLeaves`,
  `ListKept`). `OnlyKnownPanics` and `DrawnLengthsKept` follow.
* `InputLoopsProofs`, the byte loop. `RunsOnForRepeats` says of any input and any compared bytes that
  repeat without overlap that the loop is never over. The invariant (`LoopInv`)
  follows the code: the first turn finds the first occurrence and writes over it
  what is there already; from then on `start` is at least the chunk's width, so a
  search that finds an occurrence goes on from a place not behind it, and what
  it writes ends before it. That occurrence is left to be found again, and
  `NothingFound` is never possible. `OneRoundWithoutRepeat` is the converse as far as
  safety goes: for bytes that do not repeat, at most one turn finds anything
  (`FoundOnce`), so that the next turn is the last; that it is taken is left to TLC
  (`EndsWithoutRepeat`).
* `StagesProofs`. `StagesInv` adds to the properties what is left over where:
  `Drained` (whatever is pending was generated by the recursive minimization of this
  testcase, and nothing is behind the tracing stage or, in the in-process build,
  once a stage behind it adds an input or the mutational stage ends an iteration),
  `Caused` (the I2S stage finds the cause it set until it adds an input) and
  `Attributed` (in the in-process build what is recorded was tried on this testcase,
  and nothing is recorded between two). `AddKeeps` and `DiscardKeeps` say once what an
  evaluation does to it, `UnrecordedKeeps`, `RecordedKeeps`, `EvaluatedKeeps` and
  `SplicedKeeps` what the stages' ways of evaluating do, `StaysUnrecorded` and
  `StaysRecorded` apply them to a step that stays in its stage, `MovesOn` is the end of
  a stage; then there is one lemma per group of actions.

Where a proof needs induction over numbers, it takes the least counterexample
(the library's `WFMin`, with `NatLessThanWellFounded`), and reachability is "in
every set that holds these and is closed" (`ReachableFrom`, `Below`, `Reached`), so
that what is reachable is proved by giving a closed set.

Only model-checked, and why:

* How the impls of `Node` collect fields and mutate: `InputTypeOK` and `PathsLead`. The
  impls call each other along the value, so `NodeValue` declares RECURSIVE
  operators, and what they do to every value is an induction over values. These
  two are the contract the theorems on mutators and minimization start from; the
  run checks it for every impl, at every call that is made.
* The liveness properties (`RegistrationEnds`, `SearchEnds`, `MinimizationEnds`,
  `EndsWithoutRepeat`): fairness is out of the prover's reach.

## Not modelled

* The field attributes of the derive (`autarkie_literal`, `autarkie_min_length`,
  `autarkie_range`, which draws up to `end + 1`); the content of leaves, and with it
  the string pool: its one hazard is `strings.len() - 1` for an empty pool.
* Of a `BTreeMap` the order of its keys: an inserted entry goes anywhere, or
  replaces one with a key that looks the same. In `Generation` and `Registration` it is
  a leaf, which is what its generate (an empty map) and its default register are.
* Conditions that the code does not evaluate: the depth argument of generate,
  which no impl uses, and `matches!(&NodeType::Iterable(..), last)` in splice append and
  generate append, whose pattern matches anything.
* The corpus, the scheduler, the executors and the messages between clients:
  LibAFL's. An imported input is an input from nowhere; that `RareShare` drops all
  but every n-th changes only how many there are.
* Recursive minimization's end (see Fairness), and which nodes it leaves untried
  after a success.
* Statistics, rendering's format, the serialization formats, the derive macro's
  parsing, the command line and the launcher, the cargo-fuzz runtime, and the
  stages and the mutator that no stage list uses: what they are is pure output,
  compile-time work, process set-up, or dead code.

## Plan

What could still be said: the field attributes in `Generation`; that
`PathsLead` holds of values of every depth, once induction over values can be
checked by machine.
