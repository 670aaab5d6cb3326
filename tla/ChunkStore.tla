----------------------------- MODULE ChunkStore -----------------------------
(***************************************************************************)
(* Context: the fragments ("chunks") of interesting inputs that splices    *)
(* draw from.  register_input writes each fragment of an added input to a  *)
(* file of its own unless there is one already, lists a new file in        *)
(* type_input_map and writes the rendered input.  Files outlive the        *)
(* process; type_input_map is read back from them when the client starts.  *)
(* The process can be stopped between any two steps.                       *)
(***************************************************************************)
EXTENDS Integers, Sequences

CONSTANTS Chunks,     \* <out_dir>/chunks/<type>/<hash of the data>
          Rendered,   \* <out_dir>/rendered_corpus or rendered_crashes/<hash>
          MaxFields,  \* fragments of one input considered
          MaxStops    \* stops of the process considered

ASSUME FilesAssumption == Chunks \cap Rendered = {}
ASSUME StoreBounds == MaxFields \in Nat /\ MaxStops \in Nat

VARIABLES files,           \* what each path holds on disk
          type_input_map,  \* how often each chunk's path is listed
          todo,            \* the files register_input has yet to see to
          writing,         \* fs::write has created the file, not yet filled it
          alive,           \* the client process runs
          stops,           \* how often it was stopped
          panicked         \* a splice could not deserialize its chunk

storeVars == <<files, type_input_map, todo, writing, alive, stops, panicked>>

----------------------------------------------------------------------------
Paths == Chunks \cup Rendered
Contents == {"absent", "torn", "whole"}
Unlisted == [c \in Chunks |-> 0]

(* The fragments visitor.serialized() handed over, any number of times each *)
Fields == UNION {[1 .. n -> Chunks] : n \in 0 .. MaxFields}

(* RegisterFeedback::append_metadata of an added input or a solution        *)
register_input(fields, rendered) ==
  /\ alive /\ todo = << >>
  /\ todo' = Append(fields, rendered)
  /\ UNCHANGED <<files, type_input_map, writing, alive, stops, panicked>>

(* if !std::fs::exists(&path)                                               *)
SkipKnown ==
  /\ alive /\ todo # << >> /\ ~ writing
  /\ files[Head(todo)] # "absent"
  /\ todo' = Tail(todo)
  /\ UNCHANGED <<files, type_input_map, writing, alive, stops, panicked>>

(* Mutant: the file is written whether it exists or not.                    *)
CreateFileAlways ==
  /\ alive /\ todo # << >> /\ ~ writing
  /\ files' = [files EXCEPT ![Head(todo)] = "torn"]
  /\ writing' = TRUE
  /\ UNCHANGED <<type_input_map, todo, alive, stops, panicked>>

(* std::fs::write creates the file ...                                      *)
CreateFile ==
  /\ alive /\ todo # << >> /\ ~ writing
  /\ files[Head(todo)] = "absent"
  /\ files' = [files EXCEPT ![Head(todo)] = "torn"]
  /\ writing' = TRUE
  /\ UNCHANGED <<type_input_map, todo, alive, stops, panicked>>

(* Mutant: the file written is not done with.                               *)
FillFileStillWriting ==
  /\ alive /\ writing
  /\ files' = [files EXCEPT ![Head(todo)] = "whole"]
  /\ todo' = Tail(todo)
  /\ UNCHANGED <<type_input_map, writing, alive, stops, panicked>>

(* ... and fills it; a new chunk is listed under its type.                  *)
FillFile ==
  /\ alive /\ writing
  /\ files' = [files EXCEPT ![Head(todo)] = "whole"]
  /\ type_input_map' = [c \in Chunks |->
       IF c = Head(todo) THEN type_input_map[c] + 1 ELSE type_input_map[c]]
  /\ todo' = Tail(todo)
  /\ writing' = FALSE
  /\ UNCHANGED <<alive, stops, panicked>>

(* A mutator splices a listed chunk; deserialize expects to succeed.        *)
Splice(c) ==
  /\ alive /\ todo = << >>
  /\ type_input_map[c] > 0
  /\ panicked' = (panicked \/ files[c] = "torn")
  /\ alive' = (files[c] # "torn")
  /\ UNCHANGED <<files, type_input_map, todo, writing, stops>>

(* The user or the operating system ends the process.                       *)
Stop ==
  /\ alive /\ stops < MaxStops
  /\ alive' = FALSE
  /\ stops' = stops + 1
  /\ UNCHANGED <<files, type_input_map, todo, writing, panicked>>

(* Mutant: the chunks are reloaded into the Context of the stopped process. *)
RestartTwice ==
  /\ ~ alive
  /\ type_input_map' = [c \in Chunks |->
       IF files[c] = "absent" THEN 0 ELSE type_input_map[c] + 1]
  /\ todo' = << >>
  /\ writing' = FALSE
  /\ alive' = TRUE
  /\ UNCHANGED <<files, stops, panicked>>

(* run_client: a new Context, add_existing_chunk for every file in chunks/  *)
Restart ==
  /\ ~ alive
  /\ type_input_map' = [c \in Chunks |-> IF files[c] = "absent" THEN 0 ELSE 1]
  /\ todo' = << >>
  /\ writing' = FALSE
  /\ alive' = TRUE
  /\ UNCHANGED <<files, stops, panicked>>

StoreNext ==
  \/ \E fields \in Fields, rendered \in Rendered : register_input(fields, rendered)
  \/ SkipKnown \/ CreateFile \/ FillFile
  \/ \E c \in Chunks : Splice(c)
  \/ Stop \/ Restart

(* The first start, in an empty directory                                   *)
StoreInit ==
  /\ files = [f \in Paths |-> "absent"]
  /\ type_input_map = Unlisted
  /\ todo = << >>
  /\ writing = FALSE
  /\ alive = TRUE
  /\ stops = 0
  /\ panicked = FALSE

(* What register_input, the splices and the restarts amount to: files are   *)
(* only added, and a chunk is spliced as it is on disk at that moment.      *)
StoreSpec == StoreInit /\ [][StoreNext]_storeVars

----------------------------------------------------------------------------
(* The state of the store is what the code's types say it is.               *)
StoreTypeOK ==
  /\ files \in [Paths -> Contents]
  /\ type_input_map \in [Chunks -> Nat]
  /\ todo \in Seq(Paths)
  /\ writing \in BOOLEAN /\ alive \in BOOLEAN /\ panicked \in BOOLEAN
  /\ stops \in 0 .. MaxStops
  /\ writing => todo # << >>

(* While the client runs, type_input_map lists the chunk files on disk,     *)
(* each exactly once, however often a fragment was met and however often    *)
(* the process was stopped: nothing learnt is lost ("Corpus is re-usable",  *)
(* README.md), every listed path can be read, and no chunk is drawn more    *)
(* often than another.                                                      *)
ListedExactlyOnce ==
  alive =>
    \A c \in Chunks :
      type_input_map[c] =
        IF files[c] = "absent" \/ (writing /\ c = Head(todo)) THEN 0 ELSE 1

(* The fragments the store promises, as ChunkPool states it: a file that is *)
(* being written is not yet on disk, and only a running client offers any.  *)
Pool == INSTANCE ChunkPool WITH
  stored <- {p \in Paths : files[p] = "whole"},
  spoilt <- {p \in Paths : files[p] = "torn" /\ ~ (alive /\ writing /\ p = Head(todo))},
  offered <- IF alive THEN {c \in Chunks : type_input_map[c] > 0} ELSE {},
  running <- alive

(* What is learnt is stored once, stays complete whatever is registered     *)
(* later and however often the process is stopped, and is offered to every  *)
(* later splice; a stop spoils at most the one file being written.          *)
ImplementsPool == Pool!PoolSpec

(* "invariant; we must always be able to deserialize" (tree.rs): every      *)
(* chunk a mutator splices holds what was serialized.                       *)
AlwaysDeserializable == ~ panicked
=============================================================================
