--------------------------- MODULE FileCacheProofs ---------------------------
(***************************************************************************)
(* That what is on disk and what type_input_map lists agree, for any       *)
(* number of chunks, of fragments per input and of stops, and that the      *)
(* store so keeps the promise ChunkPool states.                             *)
(* That splicing from the cache is splicing from the disk, whatever the     *)
(* sizes of the chunks and of the cache: a client that reads its chunks     *)
(* through FileCache behaves as ChunkStore, where they are read when they   *)
(* are spliced, says.                                                       *)
(* And that the cache's books balance: size is what the queued files take,  *)
(* so that only a file larger than the cache can make read_cached panic.    *)
(***************************************************************************)
EXTENDS FileCache, TLAPS, WellFoundedInduction

(* What the steps preserve: the two together, for a step reads the head of  *)
(* `todo` whenever `writing` holds.                                         *)
StoreInv == StoreTypeOK /\ ListedExactlyOnce

(* The first start has nothing on disk and nothing listed.                  *)
LEMMA StoreInitially == StoreInit => StoreInv
  <1> SUFFICES ASSUME StoreInit PROVE StoreInv
    OBVIOUS
  <1>1. files \in [Paths -> Contents] /\ type_input_map \in [Chunks -> Nat]
    BY DEF StoreInit, Contents, Unlisted
  <1>2. todo \in Seq(Paths) /\ stops \in 0 .. MaxStops
    BY StoreBounds DEF StoreInit
  <1>3. StoreTypeOK
    BY <1>1, <1>2 DEF StoreInit, StoreTypeOK
  <1>4. ListedExactlyOnce
    BY DEF StoreInit, ListedExactlyOnce, Unlisted, Paths
  <1> QED
    BY <1>3, <1>4 DEF StoreInv

(* A sequence that is not empty has a head and a tail.                      *)
LEMMA HeadAndTail ==
  ASSUME NEW S, NEW s \in Seq(S), s # << >>
  PROVE  Head(s) \in S /\ Tail(s) \in Seq(S)
  OBVIOUS

(* A sequence something was appended to is not empty.                       *)
LEMMA AppendOne ==
  ASSUME NEW S, NEW s \in Seq(S), NEW x \in S
  PROVE  Append(s, x) \in Seq(S) /\ Append(s, x) # << >>
  <1>1. Append(s, x) \in Seq(S) /\ Len(Append(s, x)) = Len(s) + 1 /\ Len(s) \in Nat
    OBVIOUS
  <1>2. Len(Append(s, x)) # 0
    BY <1>1
  <1> QED
    BY <1>1, <1>2

(* Adding fields and a rendered input to what is to be written              *)
LEMMA TodoOfFields ==
  ASSUME NEW fields \in Fields, NEW r \in Rendered
  PROVE  Append(fields, r) \in Seq(Paths) /\ Append(fields, r) # << >>
  <1>1. PICK n \in 0 .. MaxFields : fields \in [1 .. n -> Chunks]
    BY DEF Fields
  <1>2. n \in Nat
    BY StoreBounds
  <1>3. fields \in Seq(Paths) /\ r \in Paths
    BY <1>1, <1>2 DEF Paths
  <1> QED
    BY <1>3, AppendOne

(* Each step of register_input, of a splice and of a restart keeps the disk *)
(* and the listing in agreement.                                            *)
LEMMA StoreStep == StoreInv /\ [StoreNext]_storeVars => StoreInv'
  <1> SUFFICES ASSUME StoreInv, [StoreNext]_storeVars PROVE StoreInv'
    OBVIOUS
  <1> USE DEF StoreInv, StoreTypeOK
  <1>1. ASSUME NEW fields \in Fields, NEW r \in Rendered, register_input(fields, r)
        PROVE  StoreInv'
    BY <1>1, TodoOfFields DEF register_input, ListedExactlyOnce
  <1>2. CASE SkipKnown
    <2>1. Tail(todo) \in Seq(Paths)
      BY <1>2, HeadAndTail DEF SkipKnown
    <2> QED
      BY <1>2, <2>1 DEF SkipKnown, ListedExactlyOnce
  <1>3. CASE CreateFile
    <2>1. Head(todo) \in Paths
      BY <1>3, HeadAndTail DEF CreateFile
    <2>2. files' \in [Paths -> Contents]
      BY <1>3, <2>1 DEF CreateFile, Contents
    <2>3. StoreTypeOK'
      BY <1>3, <2>2 DEF CreateFile
    <2>4. \A c \in Chunks : c \in Paths
      BY DEF Paths
    <2>5. ListedExactlyOnce'
      BY <1>3, <2>1, <2>4 DEF CreateFile, ListedExactlyOnce
    <2> QED
      BY <2>3, <2>5
  <1>4. CASE FillFile
    <2>1. Head(todo) \in Paths /\ Tail(todo) \in Seq(Paths)
      BY <1>4, HeadAndTail DEF FillFile
    <2>2. files' \in [Paths -> Contents]
      BY <1>4, <2>1 DEF FillFile, Contents
    <2>3. type_input_map' \in [Chunks -> Nat]
      BY <1>4 DEF FillFile
    <2>4. StoreTypeOK'
      BY <1>4, <2>1, <2>2, <2>3 DEF FillFile
    <2>5. \A c \in Chunks : c \in Paths
      BY DEF Paths
    <2>6. ListedExactlyOnce'
      BY <1>4, <2>1, <2>5 DEF FillFile, ListedExactlyOnce
    <2> QED
      BY <2>4, <2>6
  <1>5. ASSUME NEW c \in Chunks, Splice(c) PROVE StoreInv'
    BY <1>5 DEF Splice, ListedExactlyOnce
  <1>6. CASE Stop
    <2>1. stops' \in 0 .. MaxStops
      BY <1>6, StoreBounds DEF Stop
    <2>2. StoreTypeOK'
      BY <1>6, <2>1 DEF Stop
    <2>3. ListedExactlyOnce'
      BY <1>6 DEF Stop, ListedExactlyOnce
    <2> QED
      BY <2>2, <2>3
  <1>7. CASE Restart
    <2>1. type_input_map' \in [Chunks -> Nat]
      BY <1>7 DEF Restart
    <2>2. todo' \in Seq(Paths)
      BY <1>7 DEF Restart
    <2>3. StoreTypeOK'
      BY <1>7, <2>1, <2>2 DEF Restart
    <2>4. ListedExactlyOnce'
      BY <1>7 DEF Restart, ListedExactlyOnce
    <2> QED
      BY <2>3, <2>4
  <1>8. CASE UNCHANGED storeVars
    BY <1>8 DEF storeVars, ListedExactlyOnce
  <1> QED
    BY <1>1, <1>2, <1>3, <1>4, <1>5, <1>6, <1>7, <1>8 DEF StoreNext

(* The store's state is what the code's types say it is.                    *)
THEOREM StoreTypeCorrect == StoreSpec => []StoreTypeOK
  <1> QED
    BY StoreInitially, StoreStep, PTL DEF StoreSpec, StoreInv

(* However often fragments recur and the process is stopped, type_input_map *)
(* lists each chunk file on disk exactly once while the client runs.        *)
THEOREM ListsTheDisk == StoreSpec => []ListedExactlyOnce
  <1> QED
    BY StoreInitially, StoreStep, PTL DEF StoreSpec, StoreInv

(* What the mapping to ChunkPool needs besides: a file is created only      *)
(* where there was none, so what is being written is torn and nothing else. *)
WritesTorn == writing => files[Head(todo)] = "torn"

LEMMA WritesTornStep ==
  StoreInv /\ WritesTorn /\ [StoreNext]_storeVars => WritesTorn'
  <1> SUFFICES ASSUME StoreInv, WritesTorn, [StoreNext]_storeVars PROVE WritesTorn'
    OBVIOUS
  <1>1. files \in [Paths -> Contents] /\ todo \in Seq(Paths) /\ (writing => todo # << >>)
    BY DEF StoreInv, StoreTypeOK
  <1>2. CASE CreateFile
    <2>1. Head(todo) \in Paths
      BY <1>1, <1>2, HeadAndTail DEF CreateFile
    <2> QED
      BY <1>1, <1>2, <2>1 DEF CreateFile, WritesTorn
  <1>3. ASSUME NEW fields \in Fields, NEW r \in Rendered, register_input(fields, r)
        PROVE  WritesTorn'
    BY <1>1, <1>3 DEF register_input, WritesTorn
  <1>4. CASE SkipKnown \/ FillFile \/ Restart
    BY <1>4 DEF SkipKnown, FillFile, Restart, WritesTorn
  <1>5. CASE Stop \/ (\E c \in Chunks : Splice(c)) \/ UNCHANGED storeVars
    BY <1>5 DEF Stop, Splice, storeVars, WritesTorn
  <1> QED
    BY <1>2, <1>3, <1>4, <1>5 DEF StoreNext

(* What the pool's variables stand for, each under a name of its own.       *)
Whole == {p \in Paths : files[p] = "whole"}
Torn == {p \in Paths : files[p] = "torn" /\ ~ (alive /\ writing /\ p = Head(todo))}
Listed == IF alive THEN {c \in Chunks : type_input_map[c] > 0} ELSE {}

(* The empty directory of the first start is the empty pool.                *)
LEMMA PoolInitially == StoreInit => Pool!PoolInit /\ WritesTorn
  <1> SUFFICES ASSUME StoreInit PROVE Pool!PoolInit /\ WritesTorn
    OBVIOUS
  <1>1. Whole = {} /\ Torn = {} /\ Listed = {} /\ alive = TRUE
    BY DEF StoreInit, Whole, Torn, Listed, Unlisted
  <1> QED
    BY <1>1 DEF StoreInit, WritesTorn, Whole, Torn, Listed, Pool!PoolInit

(* Filling a new file is learning it.                                       *)
LEMMA FillLearns ==
  ASSUME StoreInv, WritesTorn, FillFile PROVE \E p \in Paths : Pool!Learn(p)
  <1>1. /\ files \in [Paths -> Contents] /\ type_input_map \in [Chunks -> Nat]
        /\ alive /\ writing /\ Head(todo) \in Paths /\ files[Head(todo)] = "torn"
    BY HeadAndTail DEF StoreInv, StoreTypeOK, WritesTorn, FillFile
  <1>2. PICK p \in Paths : p = Head(todo)
    BY <1>1
  <1>3. p \notin Whole \cup Torn
    BY <1>1, <1>2 DEF Whole, Torn
  <1>4. Whole' = Whole \cup {p}
    BY <1>1, <1>2 DEF Whole, FillFile
  <1>5. Torn' = Torn
    BY <1>1 DEF Torn, FillFile
  <1>6. ASSUME NEW c \in Chunks
        PROVE  type_input_map'[c] > 0 <=> (type_input_map[c] > 0 \/ c = p)
    BY <1>1, <1>2 DEF FillFile
  <1>7. Listed' = Listed \cup ({p} \cap Chunks)
    BY <1>1, <1>6 DEF Listed, FillFile
  <1>8. Pool!Learn(p)
    BY <1>1, <1>3, <1>4, <1>5, <1>7
    DEF FillFile, Pool!Learn, Pool!OnDisk, Whole, Torn, Listed
  <1> QED
    BY <1>8

(* A stop ends the client; the file being written, if any, is spoilt.       *)
LEMMA StopHalts ==
  ASSUME StoreInv, WritesTorn, Stop
  PROVE  Pool!Halt \/ \E p \in Paths : Pool!HaltLearning(p)
  <1>1. alive /\ alive' = FALSE /\ Whole' = Whole /\ Listed' = {}
    BY DEF Stop, Whole, Listed
  <1>2. CASE ~ writing
    <2>1. Torn' = Torn
      BY <1>2 DEF Stop, Torn
    <2> QED
      BY <1>1, <2>1 DEF Pool!Halt, Whole, Torn, Listed
  <1>3. CASE writing
    <2>1. PICK p \in Paths : p = Head(todo) /\ files[p] = "torn"
      BY <1>3, HeadAndTail DEF StoreInv, StoreTypeOK, WritesTorn
    <2>2. Torn' = Torn \cup {p}
      BY <1>1, <1>3, <2>1 DEF Stop, Torn
    <2>3. p \notin Whole \cup Torn
      BY <1>1, <1>3, <2>1 DEF Whole, Torn
    <2>4. Pool!HaltLearning(p)
      BY <1>1, <2>2, <2>3 DEF Pool!HaltLearning, Pool!OnDisk, Whole, Torn, Listed
    <2> QED
      BY <2>4
  <1> QED
    BY <1>2, <1>3 DEF StoreInv, StoreTypeOK

(* A restart offers every file there is, the torn ones with the others.     *)
LEMMA RestartResumes == ASSUME StoreInv, Restart PROVE Pool!Resume
  <1>1. files \in [Paths -> Contents] /\ \A c \in Chunks : c \in Paths
    BY DEF StoreInv, StoreTypeOK, Paths
  <1>2. ~ alive /\ alive' = TRUE /\ Whole' = Whole /\ Torn' = Torn
    BY DEF Restart, Whole, Torn
  <1>3. Torn = {p \in Paths : files[p] = "torn"}
    BY <1>2 DEF Torn
  <1>4. ASSUME NEW c \in Chunks
        PROVE  type_input_map'[c] > 0 <=> c \in Whole \cup Torn
    BY <1>1, <1>3 DEF Restart, Whole, Contents
  <1>5. Listed' = (Whole \cup Torn) \cap Chunks
    BY <1>2, <1>4 DEF Listed
  <1> QED
    BY <1>2, <1>5 DEF Pool!Resume, Pool!OnDisk, Whole, Torn, Listed

(* What is left alone by the three sets leaves the pool alone.              *)
LEMMA PoolStutters ==
  ASSUME Whole' = Whole, Torn' = Torn, Listed' = Listed, alive' = alive
  PROVE  UNCHANGED Pool!poolVars
  BY DEF Pool!poolVars, Whole, Torn, Listed

(* Every step of the store is a step of the pool or leaves it as it is.     *)
LEMMA StoreImplementsPoolStep ==
  StoreInv /\ WritesTorn /\ [StoreNext]_storeVars => [Pool!PoolNext]_(Pool!poolVars)
  <1> SUFFICES ASSUME StoreInv, WritesTorn, [StoreNext]_storeVars
               PROVE  [Pool!PoolNext]_(Pool!poolVars)
    OBVIOUS
  <1>1. files \in [Paths -> Contents] /\ todo \in Seq(Paths) /\ (writing => todo # << >>)
    BY DEF StoreInv, StoreTypeOK
  <1>2. ASSUME NEW fields \in Fields, NEW r \in Rendered, register_input(fields, r)
        PROVE  UNCHANGED Pool!poolVars
    <2>1. ~ writing /\ ~ writing' /\ UNCHANGED <<files, type_input_map, alive>>
      BY <1>1, <1>2 DEF register_input
    <2> QED
      BY <2>1, PoolStutters DEF Whole, Torn, Listed
  <1>3. CASE SkipKnown
    <2>1. ~ writing /\ ~ writing' /\ UNCHANGED <<files, type_input_map, alive>>
      BY <1>3 DEF SkipKnown
    <2> QED
      BY <2>1, PoolStutters DEF Whole, Torn, Listed
  <1>4. CASE CreateFile
    <2>1. Whole' = Whole /\ Torn' = Torn
      BY <1>1, <1>4 DEF CreateFile, Whole, Torn
    <2>2. Listed' = Listed /\ alive' = alive
      BY <1>4 DEF CreateFile, Listed
    <2> QED
      BY <2>1, <2>2, PoolStutters
  <1>5. CASE FillFile
    BY <1>5, FillLearns DEF Pool!PoolNext, Paths
  <1>6. ASSUME NEW c \in Chunks, Splice(c) PROVE [Pool!PoolNext]_(Pool!poolVars)
    <2>1. alive /\ ~ writing /\ UNCHANGED <<files, type_input_map, todo, writing>>
      BY <1>1, <1>6 DEF Splice
    <2>2. Whole' = Whole /\ Torn' = Torn
      BY <2>1 DEF Whole, Torn
    <2>3. CASE files[c] = "torn"
      <3>1. alive' = FALSE /\ Listed' = {}
        BY <1>6, <2>3 DEF Splice, Listed
      <3>2. Pool!Halt
        BY <2>1, <2>2, <3>1 DEF Pool!Halt, Whole, Torn, Listed
      <3> QED
        BY <3>2 DEF Pool!PoolNext
    <2>4. CASE files[c] # "torn"
      <3>1. alive' = TRUE /\ alive' = alive /\ Listed' = Listed
        BY <1>6, <2>1, <2>4 DEF Splice, Listed, StoreInv, StoreTypeOK
      <3> QED
        BY <2>2, <3>1, PoolStutters
    <2> QED
      BY <2>3, <2>4
  <1>7. CASE Stop
    BY <1>7, StopHalts DEF Pool!PoolNext, Paths
  <1>8. CASE Restart
    BY <1>8, RestartResumes DEF Pool!PoolNext
  <1>9. CASE UNCHANGED storeVars
    <2>1. Whole' = Whole /\ Torn' = Torn /\ Listed' = Listed /\ alive' = alive
      BY <1>9 DEF storeVars, Whole, Torn, Listed
    <2> QED
      BY <2>1, PoolStutters
  <1> QED
    BY <1>2, <1>3, <1>4, <1>5, <1>6, <1>7, <1>8, <1>9 DEF StoreNext

(* The store keeps its promise: nothing learnt is forgotten or overwritten, *)
(* a stop spoils at most the file being written, and a client that starts   *)
(* again offers all there is.                                               *)
THEOREM StoreImplementsPool == StoreSpec => ImplementsPool
  <1>1. StoreInit => StoreInv /\ WritesTorn /\ Pool!PoolInit
    BY StoreInitially, PoolInitially
  <1>2. StoreInv /\ WritesTorn /\ [StoreNext]_storeVars
          => (StoreInv /\ WritesTorn)' /\ [Pool!PoolNext]_(Pool!poolVars)
    BY StoreStep, WritesTornStep, StoreImplementsPoolStep
  <1> QED
    BY <1>1, <1>2, PTL DEF StoreSpec, ImplementsPool, Pool!PoolSpec

(* What the pool promises first of all: whatever is registered and whenever *)
(* the process is stopped, what was completely written stays so.            *)
THEOREM NothingForgotten == ImplementsPool => [][Whole \subseteq Whole']_storeVars
  <1>1. [Pool!PoolNext]_(Pool!poolVars) => [Whole \subseteq Whole']_storeVars
    <2>1. ASSUME [Pool!PoolNext]_(Pool!poolVars) PROVE Whole \subseteq Whole'
      BY <2>1 DEF Pool!PoolNext, Pool!poolVars, Pool!Learn, Pool!HaltLearning, Pool!Halt,
                  Pool!Resume, Whole
    <2> QED
      BY <2>1
  <1> QED
    BY <1>1, PTL DEF ImplementsPool, Pool!PoolSpec

----------------------------------------------------------------------------
(* What is cached is listed, so it is on disk and not being written; so     *)
(* nothing writes it again.                                                 *)
CacheFresh ==
  alive => \A c \in DOMAIN data : c \in Chunks /\ type_input_map[c] > 0 /\ data[c] = files[c]

(* Between the look-up and the answer the client does nothing else.         *)
Waiting ==
  alive /\ Reading => wanted \in Chunks /\ todo = << >> /\ type_input_map[wanted] > 0

ReaderInv == StoreInv /\ CacheFresh /\ Waiting

LEMMA ReaderInitially == ReaderInit => StoreInit /\ ReaderInv
  <1> SUFFICES ASSUME ReaderInit PROVE StoreInit /\ ReaderInv
    OBVIOUS
  <1>1. StoreInv
    BY StoreInitially DEF ReaderInit
  <1>2. CacheFresh /\ Waiting
    BY DEF ReaderInit, NoData, CacheFresh, Waiting, Reading
  <1> QED
    BY <1>1, <1>2 DEF ReaderInit, ReaderInv

(* Reading and evicting are invisible on disk, an answer is a splice, and   *)
(* a panic of the cache ends the process as a stop does.                    *)
LEMMA ReaderImplementsStep ==
  ReaderInv /\ [ReaderNext]_readerVars => [StoreNext]_storeVars
  <1> SUFFICES ASSUME ReaderInv, [ReaderNext]_readerVars PROVE [StoreNext]_storeVars
    OBVIOUS
  <1>1. CASE Register
    BY <1>1 DEF Register, StoreNext
  <1>2. ASSUME NEW c \in Chunks, Read(c) PROVE UNCHANGED storeVars
    BY <1>2 DEF Read
  <1>3. CASE Evict
    BY <1>3 DEF Evict
  <1>4. CASE Answer
    <2>1. data[wanted] = files[wanted] /\ wanted \in Chunks
      BY <1>4 DEF Answer, ReaderInv, CacheFresh
    <2>2. todo = << >> /\ type_input_map[wanted] > 0
      BY <1>4 DEF Answer, ReaderInv, Waiting
    <2>3. Splice(wanted)
      BY <1>4, <2>1, <2>2 DEF Answer, Splice
    <2> QED
      BY <2>1, <2>3 DEF StoreNext
  <1>5. CASE CachePanic \/ Interrupt
    BY <1>5 DEF CachePanic, Interrupt, StoreNext
  <1>6. CASE StartAgain
    BY <1>6 DEF StartAgain, StoreNext
  <1>7. CASE UNCHANGED readerVars
    BY <1>7 DEF readerVars
  <1> QED
    BY <1>1, <1>2, <1>3, <1>4, <1>5, <1>6, <1>7 DEF ReaderNext

(* Writing goes on only at paths that are not listed.                       *)
LEMMA RegisterKeepsFresh ==
  ReaderInv /\ Register => CacheFresh' /\ Waiting'
  <1> SUFFICES ASSUME ReaderInv, Register PROVE CacheFresh' /\ Waiting'
    OBVIOUS
  <1>1. alive /\ alive' /\ ~ Reading /\ ~ Reading' /\ data' = data
    BY DEF Register, register_input, SkipKnown, CreateFile, FillFile, cacheVars, Reading
  <1>2. \A c \in DOMAIN data :
          /\ c \in Chunks /\ c \in Paths /\ type_input_map[c] > 0 /\ data[c] = files[c]
          /\ files[c] # "absent" /\ ~ (writing /\ c = Head(todo))
    BY <1>1 DEF ReaderInv, StoreInv, StoreTypeOK, CacheFresh, ListedExactlyOnce, Paths
  <1>3. files \in [Paths -> Contents] /\ type_input_map \in [Chunks -> Nat]
    BY DEF ReaderInv, StoreInv, StoreTypeOK
  <1>4. ASSUME NEW c \in DOMAIN data
        PROVE  type_input_map'[c] > 0 /\ files'[c] = files[c]
    <2>1. CASE \E fields \in Fields, rendered \in Rendered : register_input(fields, rendered)
      BY <1>2, <2>1 DEF register_input
    <2>2. CASE SkipKnown
      BY <1>2, <2>2 DEF SkipKnown
    <2>3. CASE CreateFile
      BY <1>2, <1>3, <2>3 DEF CreateFile
    <2>4. CASE FillFile
      BY <1>2, <1>3, <2>4 DEF FillFile
    <2> QED
      BY <2>1, <2>2, <2>3, <2>4 DEF Register
  <1> QED
    BY <1>1, <1>2, <1>4 DEF CacheFresh, Waiting

LEMMA ReaderStep == ReaderInv /\ [ReaderNext]_readerVars => ReaderInv'
  <1> SUFFICES ASSUME ReaderInv, [ReaderNext]_readerVars PROVE ReaderInv'
    OBVIOUS
  <1>1. StoreInv'
    BY ReaderImplementsStep, StoreStep DEF ReaderInv
  <1>2. CASE Register
    BY <1>1, <1>2, RegisterKeepsFresh DEF ReaderInv
  <1>3. ASSUME NEW c \in Chunks, Read(c) PROVE CacheFresh' /\ Waiting'
    <2>1. UNCHANGED <<files, type_input_map, todo, alive>> /\ wanted' = c
      BY <1>3 DEF Read, storeVars
    <2>2. todo = << >> /\ type_input_map[c] > 0
      BY <1>3 DEF Read
    <2>3. CacheFresh'
      BY <1>3, <2>1, <2>2 DEF Read, Lookup, Load, ReaderInv, CacheFresh
    <2> QED
      BY <2>1, <2>2, <2>3 DEF Waiting
  <1>4. CASE Evict
    <2>1. UNCHANGED <<files, type_input_map, todo, alive, wanted>>
      BY <1>4 DEF Evict, storeVars
    <2>2. CacheFresh'
      BY <1>4, <2>1 DEF Evict, Remaining, ReaderInv, CacheFresh
    <2> QED
      BY <1>1, <2>1, <2>2 DEF ReaderInv, Waiting, Reading
  <1>5. CASE Answer
    <2>1. UNCHANGED <<files, type_input_map, data>> /\ wanted' = NoChunk /\ alive
      BY <1>5 DEF Answer
    <2> QED
      BY <1>1, <2>1 DEF ReaderInv, CacheFresh, Waiting, Reading
  <1>6. CASE CachePanic \/ Interrupt
    <2>1. ~ alive'
      BY <1>6 DEF CachePanic, Interrupt, Stop
    <2> QED
      BY <1>1, <2>1 DEF ReaderInv, CacheFresh, Waiting
  <1>7. CASE StartAgain
    <2>1. DOMAIN data' = {} /\ wanted' = NoChunk
      BY <1>7 DEF StartAgain, NoData
    <2> QED
      BY <1>1, <2>1 DEF ReaderInv, CacheFresh, Waiting, Reading
  <1>8. CASE UNCHANGED readerVars
    BY <1>1, <1>8 DEF readerVars, storeVars, cacheVars, ReaderInv, CacheFresh, Waiting, Reading
  <1> QED
    BY <1>1, <1>2, <1>3, <1>4, <1>5, <1>6, <1>7, <1>8 DEF ReaderNext, ReaderInv

(* A client that caches its chunks is one that reads each chunk from disk   *)
(* whenever it splices it: the cache never answers with anything else.      *)
THEOREM ReaderImplementsStore == ReaderSpec => StoreSpec
  <1> QED
    BY ReaderInitially, ReaderStep, ReaderImplementsStep, PTL DEF ReaderSpec, StoreSpec

(* So what holds of the store holds of it with the cache: while the client  *)
(* runs, type_input_map lists the chunk files on disk, each once.           *)
THEOREM ReaderListsTheDisk == ReaderSpec => []ListedExactlyOnce
  <1> QED
    BY ReaderImplementsStore, ListsTheDisk, PTL

(* ... and the reader keeps the store's promise, from the first start on.   *)
THEOREM ReaderImplementsPool == ReaderSpec => ImplementsPool
  <1> QED
    BY ReaderImplementsStore, StoreImplementsPool, PTL

----------------------------------------------------------------------------
(* The cache by itself.                                                     *)

(* A set of numbers that is not empty has a least one.                      *)
LEMMA LeastNumber ==
  ASSUME NEW T \in SUBSET Nat, T # {}
  PROVE  \E x \in T : \A y \in T : x <= y
  <1>1. PICK x \in T : \A y \in T : <<y, x>> \notin OpToRel(<, Nat)
    BY WFMin, NatLessThanWellFounded
  <1>2. ASSUME NEW y \in T PROVE x <= y
    <2>1. x \in Nat /\ y \in Nat
      OBVIOUS
    <2>2. ~ (y < x)
      BY <1>1, <2>1 DEF OpToRel
    <2> QED
      BY <2>1, <2>2
  <1> QED
    BY <1>2

(* Running totals of lengths do not fall.                                   *)
LEMMA TotalsRise ==
  ASSUME NEW n \in Nat, NEW total \in [0 .. n -> Nat],
         \A i \in 1 .. n : total[i - 1] <= total[i]
  PROVE  \A i \in 1 .. n : total[1] <= total[i]
  <1> DEFINE T == {i \in 1 .. n : ~ (total[1] <= total[i])}
  <1> SUFFICES ASSUME T # {} PROVE FALSE
    OBVIOUS
  <1>1. T \in SUBSET Nat
    OBVIOUS
  <1> HIDE DEF T
  <1>2. PICK x \in T : \A y \in T : x <= y
    BY <1>1, LeastNumber
  <1>3. x \in 1 .. n /\ ~ (total[1] <= total[x])
    BY <1>2 DEF T
  <1>4. 1 \in 0 .. n /\ x \in 0 .. n /\ x - 1 \in 0 .. n
    BY <1>3
  <1>5. total[1] \in Nat /\ total[x] \in Nat /\ total[x - 1] \in Nat
    BY <1>4
  <1>6. x # 1
    BY <1>3, <1>5
  <1>7. x - 1 \in 1 .. n /\ ~ (x <= x - 1)
    BY <1>3, <1>6
  <1>8. x - 1 \notin T
    BY <1>2, <1>7
  <1>9. total[1] <= total[x - 1]
    BY <1>7, <1>8 DEF T
  <1> QED
    BY <1>3, <1>5, <1>9

LEMMA LengthIsANumber ==
  ASSUME NEW c \in Chunks, NEW content
  PROVE  Length(c, content) \in Nat /\ Length(c, content) <= FileSize[c]
  <1>1. FileSize[c] \in Nat
    BY CacheAssumption
  <1> QED
    BY <1>1 DEF Length

(* A file read from disk is appended to the queue with what it takes.       *)
LEMMA LoadAccounted ==
  ASSUME CacheAccounted, NEW c \in Chunks, c \notin DOMAIN data, Load(c),
         wanted' \in Chunks \cup {NoChunk}
  PROVE  /\ CacheAccounted' /\ c \in DOMAIN data'
         /\ queue'[Len(queue')] = c
  <1> DEFINE n == Len(queue)
             l == Length(c, files[c])
  <1>1. /\ queue \in Seq(Chunks) /\ n \in Nat /\ DOMAIN data \subseteq Chunks
        /\ \A i \in 1 .. n : queue[i] \in DOMAIN data
        /\ \A i, j \in 1 .. n : queue[i] = queue[j] => i = j
        /\ \A d \in Chunks : d \in DOMAIN data <=> \E i \in 1 .. n : queue[i] = d
    BY DEF CacheAccounted, CacheTypeOK
  <1>2. /\ data' = [d \in DOMAIN data \cup {c} |-> IF d = c THEN files[c] ELSE data[d]]
        /\ queue' = Append(queue, c) /\ size' = size + l
    BY DEF Load
  <1>3. l \in Nat
    BY LengthIsANumber
  <1> HIDE DEF l, n
  <1>4. /\ queue' \in Seq(Chunks) /\ Len(queue') = n + 1
        /\ \A i \in 1 .. n : queue'[i] = queue[i]
        /\ queue'[n + 1] = c
    BY <1>1, <1>2 DEF n
  <1>5. /\ DOMAIN data' = DOMAIN data \cup {c}
        /\ data'[c] = files[c] /\ \A i \in 1 .. n : data'[queue[i]] = data[queue[i]]
    BY <1>1, <1>2
  <1>6. PICK total \in [0 .. n -> 0 .. size] :
          /\ total[0] = 0 /\ total[n] = size
          /\ \A i \in 1 .. n : total[i] = total[i - 1] + Length(queue[i], data[queue[i]])
    BY DEF CacheAccounted, TakesInAll, n
  <1>7. size \in Nat
    <2>1. n \in 0 .. n
      BY <1>1
    <2>2. total[n] \in 0 .. size
      BY <2>1
    <2> QED
      BY <1>6, <2>2
  <1> DEFINE m == n + 1
             more == [i \in 0 .. m |-> IF i = m THEN size' ELSE total[i]]
  <1>8. TakesInAll(size)'
    <2>1. size' \in Nat /\ size <= size'
      BY <1>2, <1>3, <1>7
    <2>2. \A i \in 0 .. n : total[i] \in 0 .. size'
      BY <1>7, <2>1
    <2>3. \A i \in 0 .. m : i = m \/ i \in 0 .. n
      BY <1>1
    <2>4. more \in [0 .. m -> 0 .. size']
      BY <2>1, <2>2, <2>3
    <2>5. more[0] = 0 /\ more[m] = size' /\ \A i \in 0 .. n : more[i] = total[i]
      BY <1>1, <1>6
    <2>6. ASSUME NEW i \in 1 .. m
          PROVE  more[i] = more[i - 1] + Length(queue'[i], data'[queue'[i]])
      <3>1. CASE i \in 1 .. n
        <4>1. i \in 0 .. n /\ i - 1 \in 0 .. n
          BY <1>1, <3>1
        <4>2. more[i] = total[i] /\ more[i - 1] = total[i - 1]
          BY <2>5, <4>1
        <4>3. queue'[i] = queue[i] /\ data'[queue'[i]] = data[queue[i]]
          BY <1>4, <1>5, <3>1
        <4>4. total[i] = total[i - 1] + Length(queue[i], data[queue[i]])
          BY <1>6, <3>1
        <4> QED
          BY <4>2, <4>3, <4>4
      <3>2. CASE i = m
        <4>1. i - 1 = n /\ n \in 0 .. n
          BY <1>1, <3>2
        <4>2. more[i] = size' /\ more[i - 1] = size
          BY <1>6, <2>5, <3>2, <4>1
        <4>3. Length(queue'[i], data'[queue'[i]]) = l
          BY <1>4, <1>5, <3>2 DEF l
        <4> QED
          BY <1>2, <4>2, <4>3
      <3>3. i \in 1 .. n \/ i = m
        BY <1>1
      <3> QED
        BY <3>1, <3>2, <3>3
    <2> HIDE DEF m, more
    <2>7. Len(queue') = m
      BY <1>4 DEF m
    <2> QED
      BY <2>4, <2>5, <2>6, <2>7 DEF TakesInAll
  <1>9. CacheTypeOK'
    BY <1>1, <1>2, <1>3, <1>4, <1>5, <1>7 DEF CacheTypeOK
  <1>10. \A d \in Chunks : d \in DOMAIN data' <=> \E i \in 1 .. Len(queue') : queue'[i] = d
    <2>1. \A i \in 1 .. Len(queue') : i \in 1 .. n \/ i = n + 1
      BY <1>1, <1>4
    <2>2. \A i \in 1 .. n : i \in 1 .. Len(queue')
      BY <1>1, <1>4
    <2>3. n + 1 \in 1 .. Len(queue')
      BY <1>1, <1>4
    <2> QED
      BY <1>1, <1>4, <1>5, <2>1, <2>2, <2>3
  <1>11. \A i, j \in 1 .. Len(queue') : queue'[i] = queue'[j] => i = j
    <2>1. \A i \in 1 .. Len(queue') : i \in 1 .. n \/ i = n + 1
      BY <1>1, <1>4
    <2>2. queue'[n + 1] = c /\ \A i \in 1 .. n : queue'[i] = queue[i] /\ queue'[i] # c
      BY <1>1, <1>4
    <2>3. SUFFICES ASSUME NEW i \in 1 .. Len(queue'), NEW j \in 1 .. Len(queue'),
                          queue'[i] = queue'[j]
                   PROVE  i = j
      OBVIOUS
    <2>4. CASE i \in 1 .. n /\ j \in 1 .. n
      <3>1. queue[i] = queue[j]
        BY <2>2, <2>3, <2>4
      <3> QED
        BY <1>1, <2>4, <3>1
    <2>5. CASE i \in 1 .. n /\ j = n + 1
      BY <2>2, <2>3, <2>5
    <2>6. CASE i = n + 1 /\ j \in 1 .. n
      BY <2>2, <2>3, <2>6
    <2> QED
      BY <2>1, <2>4, <2>5, <2>6
  <1> QED
    BY <1>4, <1>5, <1>8, <1>9, <1>10, <1>11 DEF CacheAccounted

(* The oldest file is forgotten, and what it takes with it.                 *)
LEMMA EvictAccounted ==
  ASSUME CacheAccounted, Evict
  PROVE  /\ CacheAccounted'
         /\ \A d \in DOMAIN data : d # Head(queue) => d \in DOMAIN data'
         /\ Len(queue) > 1 => Len(queue') > 0 /\ queue'[Len(queue')] = queue[Len(queue)]
         /\ Len(queue) = 1 => size <= FileSize[Head(queue)]
  <1> DEFINE n == Len(queue)
             h == Head(queue)
             l == Length(h, data[h])
  <1>1. /\ queue \in Seq(Chunks) /\ n \in Nat /\ n > 0 /\ DOMAIN data \subseteq Chunks
        /\ h = queue[1] /\ h \in Chunks
        /\ \A i \in 1 .. n : queue[i] \in DOMAIN data
        /\ \A i, j \in 1 .. n : queue[i] = queue[j] => i = j
        /\ \A d \in Chunks : d \in DOMAIN data <=> \E i \in 1 .. n : queue[i] = d
        /\ wanted \in Chunks \cup {NoChunk}
    BY DEF CacheAccounted, CacheTypeOK, Evict
  <1>2. /\ data' = [d \in DOMAIN data \ {h} |-> data[d]]
        /\ queue' = Tail(queue) /\ size' = size - l /\ wanted' = wanted
    BY DEF Evict, Remaining
  <1>3. l \in Nat /\ l <= FileSize[h]
    BY <1>1, LengthIsANumber
  <1>4. PICK total \in [0 .. n -> 0 .. size] :
          /\ total[0] = 0 /\ total[n] = size
          /\ \A i \in 1 .. n : total[i] = total[i - 1] + Length(queue[i], data[queue[i]])
    BY DEF CacheAccounted, TakesInAll
  <1>5. /\ queue' \in Seq(Chunks) /\ Len(queue') = n - 1
        /\ \A i \in 1 .. n - 1 : queue'[i] = queue[i + 1]
    BY <1>1, <1>2
  <1> HIDE DEF l, n, h
  <1>6. /\ n - 1 \in Nat /\ 1 \in 0 .. n /\ 1 \in 1 .. n /\ n \in 0 .. n /\ n \in 1 .. n
        /\ \A i \in 0 .. n - 1 : i + 1 \in 0 .. n /\ i + 1 \in 1 .. n
        /\ \A i \in 1 .. n - 1 : i + 1 \in 2 .. n /\ i - 1 \in 0 .. n - 1 /\ i \in 0 .. n - 1
    <2>1. n - 1 \in Nat /\ 1 \in 0 .. n /\ 1 \in 1 .. n /\ n \in 0 .. n /\ n \in 1 .. n
      BY <1>1
    <2>2. \A i \in 0 .. n - 1 : i + 1 \in 0 .. n /\ i + 1 \in 1 .. n
      BY <1>1
    <2>3. \A i \in 1 .. n - 1 : i + 1 \in 2 .. n /\ i - 1 \in 0 .. n - 1 /\ i \in 0 .. n - 1
      BY <1>1
    <2> QED
      BY <2>1, <2>2, <2>3
  <1>7. \A i \in 1 .. n - 1 :
          queue'[i] = queue[i + 1] /\ queue[i + 1] # h /\ data'[queue'[i]] = data[queue[i + 1]]
    <2>1. ASSUME NEW i \in 1 .. n - 1 PROVE queue[i + 1] # h /\ queue[i + 1] \in DOMAIN data
      <3>1. i + 1 \in 1 .. n /\ i + 1 # 1
        BY <1>6
      <3> QED
        BY <1>1, <1>6, <3>1
    <2> QED
      BY <1>2, <1>5, <2>1
  <1>8. total[1] = l
    <2>1. total[1] = total[1 - 1] + Length(queue[1], data[queue[1]])
      BY <1>4, <1>6
    <2> QED
      BY <1>1, <1>3, <1>4, <2>1 DEF l
  <1>9. /\ size \in Nat
        /\ \A i \in 0 .. n : total[i] \in Nat /\ total[i] <= size
    <2>1. total[n] \in 0 .. size
      BY <1>6
    <2> QED
      BY <1>4, <2>1
  <1>10. \A i \in 1 .. n : total[1] <= total[i]
    <2>1. total \in [0 .. n -> Nat]
      BY <1>9
    <2>2. ASSUME NEW i \in 1 .. n PROVE total[i - 1] <= total[i]
      <3>1. i \in 0 .. n /\ i - 1 \in 0 .. n
        BY <1>1
      <3>2. PICK x \in Nat : total[i] = total[i - 1] + x
        BY <1>1, <1>4, LengthIsANumber
      <3> QED
        BY <1>9, <3>1, <3>2
    <2> QED
      BY <1>1, <2>1, <2>2, TotalsRise
  <1> DEFINE m == n - 1
             less == [i \in 0 .. m |-> total[i + 1] - l]
  <1>11. TakesInAll(size)'
    <2>1. \A i \in 0 .. m : total[i + 1] - l \in 0 .. size'
      <3>1. ASSUME NEW i \in 0 .. m PROVE total[i + 1] - l \in 0 .. size'
        <4>1. total[i + 1] \in Nat /\ total[i + 1] <= size /\ l <= total[i + 1]
          BY <1>6, <1>8, <1>9, <1>10
        <4> QED
          BY <1>2, <1>3, <1>9, <4>1
      <3> QED
        BY <3>1
    <2>2. less \in [0 .. m -> 0 .. size']
      BY <2>1
    <2>3. less[0] = 0 /\ less[m] = size'
      <3>1. 0 \in 0 .. m /\ m \in 0 .. m /\ 0 + 1 = 1 /\ m + 1 = n
        BY <1>1, <1>6
      <3>2. less[0] = total[1] - l /\ less[m] = total[n] - l
        BY <3>1
      <3> QED
        BY <1>2, <1>3, <1>4, <1>8, <3>2
    <2>4. ASSUME NEW i \in 1 .. m
          PROVE  less[i] = less[i - 1] + Length(queue'[i], data'[queue'[i]])
      <3>1. less[i] = total[i + 1] - l /\ less[i - 1] = total[i] - l
        <4>1. i \in 0 .. m /\ i - 1 \in 0 .. m /\ i - 1 + 1 = i
          BY <1>6
        <4> QED
          BY <4>1
      <3>2. total[i + 1] = total[i] + Length(queue[i + 1], data[queue[i + 1]])
        <4>1. i + 1 \in 1 .. n /\ i + 1 - 1 = i
          BY <1>6
        <4>2. total[i + 1] = total[i + 1 - 1] + Length(queue[i + 1], data[queue[i + 1]])
          BY <1>4, <4>1
        <4> QED
          BY <4>1, <4>2
      <3>3. Length(queue'[i], data'[queue'[i]]) = Length(queue[i + 1], data[queue[i + 1]])
        BY <1>7
      <3>4. total[i] \in Nat /\ Length(queue[i + 1], data[queue[i + 1]]) \in Nat
        <4>1. i \in 0 .. n /\ i + 1 \in 1 .. n
          BY <1>1, <1>6
        <4>2. queue[i + 1] \in Chunks
          BY <1>1, <4>1
        <4> QED
          BY <1>9, <4>1, <4>2, LengthIsANumber
      <3> QED
        BY <1>3, <3>1, <3>2, <3>3, <3>4
    <2> HIDE DEF m, less
    <2>5. Len(queue') = m
      BY <1>5 DEF m
    <2> QED
      BY <2>2, <2>3, <2>4, <2>5 DEF TakesInAll
  <1>12. CacheTypeOK'
    BY <1>1, <1>2, <1>3, <1>5, <1>9 DEF CacheTypeOK
  <1>13. DOMAIN data' = DOMAIN data \ {h}
    BY <1>2
  <1>14. \A d \in Chunks : d \in DOMAIN data' <=> \E i \in 1 .. Len(queue') : queue'[i] = d
    <2>1. ASSUME NEW i \in 1 .. Len(queue') PROVE queue'[i] \in DOMAIN data'
      <3>1. i \in 1 .. n - 1 /\ i + 1 \in 1 .. n
        BY <1>5, <1>6
      <3>2. queue'[i] = queue[i + 1] /\ queue[i + 1] # h /\ queue[i + 1] \in DOMAIN data
        BY <1>1, <1>7, <3>1
      <3> QED
        BY <1>13, <3>2
    <2>2. ASSUME NEW d \in DOMAIN data' PROVE \E i \in 1 .. Len(queue') : queue'[i] = d
      <3>1. PICK j \in 1 .. n : queue[j] = d
        BY <1>1, <1>13
      <3>2. j # 1
        BY <1>1, <1>13, <3>1
      <3>3. j - 1 \in 1 .. n - 1 /\ j - 1 + 1 = j
        BY <1>1, <3>2
      <3>4. queue'[j - 1] = d
        BY <1>5, <3>1, <3>3
      <3> QED
        BY <1>5, <3>3, <3>4
    <2> QED
      BY <2>1, <2>2
  <1>15. ASSUME NEW i \in 1 .. Len(queue'), NEW j \in 1 .. Len(queue'), queue'[i] = queue'[j]
         PROVE  i = j
    <2>1. queue[i + 1] = queue[j + 1] /\ i + 1 \in 1 .. n /\ j + 1 \in 1 .. n
      BY <1>5, <1>6, <1>15
    <2>2. i + 1 = j + 1
      BY <1>1, <2>1
    <2> QED
      BY <1>5, <2>2
  <1>16. CacheAccounted'
    BY <1>11, <1>12, <1>14, <1>15 DEF CacheAccounted
  <1>17. ASSUME n > 1 PROVE Len(queue') > 0 /\ queue'[Len(queue')] = queue[n]
    <2>1. n - 1 \in 1 .. n - 1 /\ n - 1 + 1 = n /\ n - 1 > 0
      BY <1>1, <1>17
    <2>2. queue'[n - 1] = queue[n]
      BY <1>5, <2>1
    <2> QED
      BY <1>5, <2>1, <2>2
  <1>18. ASSUME n = 1 PROVE size <= FileSize[h]
    BY <1>3, <1>4, <1>8, <1>18
  <1> QED
    BY <1>13, <1>16, <1>17, <1>18 DEF n, h

(* Between two reads the cache fits.  While a path is wanted, it is cached, *)
(* and the last to go, unless it is larger than the cache.                  *)
CacheInv ==
  /\ CacheAccounted
  /\ alive /\ ~ Reading => ~ Full
  /\ alive /\ Reading /\ ~ (FileSize[wanted] > MaxSize) =>
       /\ wanted \in DOMAIN data
       /\ ~ Full \/ queue[Len(queue)] = wanted

LEMMA CacheInitially == ReaderInit => CacheInv
  <1> SUFFICES ASSUME ReaderInit PROVE CacheInv
    OBVIOUS
  <1>1. /\ data = NoData /\ queue = << >> /\ size = 0 /\ wanted = NoChunk
        /\ DOMAIN NoData = {}
    BY DEF ReaderInit, NoData
  <1>2. TakesInAll(size)
    <2>1. /\ [i \in {0} |-> 0] \in [0 .. 0 -> 0 .. 0] /\ [i \in {0} |-> 0][0] = 0
          /\ \A i \in 1 .. 0 : FALSE
      OBVIOUS
    <2> QED
      BY <1>1, <2>1 DEF TakesInAll
  <1> QED
    BY <1>1, <1>2, CacheAssumption DEF CacheInv, CacheAccounted, CacheTypeOK, Full, Reading

(* Steps that leave the cache alone                                         *)
LEMMA CacheKept ==
  ASSUME CacheAccounted, UNCHANGED <<data, queue, size>>, wanted' \in Chunks \cup {NoChunk}
  PROVE  CacheAccounted' /\ Full' = Full
  BY DEF CacheAccounted, CacheTypeOK, TakesInAll, Full

LEMMA CacheStep ==
  ReaderInv /\ CacheInv /\ [ReaderNext]_readerVars => CacheInv'
  <1> SUFFICES ASSUME ReaderInv, CacheInv, [ReaderNext]_readerVars PROVE CacheInv'
    OBVIOUS
  <1>1. /\ CacheAccounted /\ wanted \in Chunks \cup {NoChunk} /\ size \in Int
        /\ queue \in Seq(Chunks)
    BY DEF CacheInv, CacheAccounted, CacheTypeOK
  <1>2. CASE Register
    <2>1. alive /\ ~ Reading /\ ~ Reading' /\ UNCHANGED <<data, queue, size, wanted>>
      BY <1>2 DEF Register, register_input, SkipKnown, CreateFile, FillFile, cacheVars, Reading
    <2> QED
      BY <1>1, <2>1, CacheKept DEF CacheInv
  <1>3. ASSUME NEW c \in Chunks, Read(c) PROVE CacheInv'
    <2>1. alive /\ ~ Reading /\ ~ Full /\ wanted' = c /\ Reading' /\ Lookup(c)
      BY <1>3, CacheAssumption DEF Read, CacheInv, Reading
    <2>2. CASE c \in DOMAIN data
      <3>1. UNCHANGED <<data, queue, size>>
        BY <2>1, <2>2 DEF Lookup
      <3> QED
        BY <1>1, <2>1, <2>2, <3>1, CacheKept DEF CacheInv
    <2>3. CASE c \notin DOMAIN data
      <3>1. Load(c)
        BY <2>1, <2>3 DEF Lookup
      <3> QED
        BY <1>1, <2>1, <2>3, <3>1, LoadAccounted DEF CacheInv
    <2> QED
      BY <2>2, <2>3
  <1>4. CASE Evict
    <2>1. alive /\ Reading /\ Full /\ queue # << >> /\ alive' = alive /\ wanted' = wanted
      BY <1>4 DEF Evict, storeVars
    <2>2. /\ CacheAccounted'
          /\ \A d \in DOMAIN data : d # Head(queue) => d \in DOMAIN data'
          /\ Len(queue) > 1 => Len(queue') > 0 /\ queue'[Len(queue')] = queue[Len(queue)]
          /\ Len(queue) = 1 => size <= FileSize[Head(queue)]
      BY <1>1, <1>4, EvictAccounted
    <2>3. PICK n \in Nat : n = Len(queue) /\ (n = 1 \/ n > 1)
      BY <1>1, <2>1
    <2>4. ASSUME ~ (FileSize[wanted] > MaxSize)
          PROVE  wanted \in DOMAIN data' /\ queue'[Len(queue')] = wanted
      <3>1. wanted \in DOMAIN data /\ queue[n] = wanted
        BY <2>1, <2>3, <2>4 DEF CacheInv
      <3>2. Head(queue) = queue[1] /\ 1 \in 1 .. n /\ n \in 1 .. n
        BY <1>1, <2>1, <2>3
      <3>3. wanted \in Chunks
        BY <1>1, <3>1 DEF CacheAccounted, CacheTypeOK
      <3>4. n # 1
        <4>1. ASSUME n = 1 PROVE FALSE
          <5>1. size <= FileSize[wanted]
            BY <2>2, <2>3, <3>1, <3>2, <4>1
          <5>2. size > MaxSize /\ FileSize[wanted] \in Nat /\ MaxSize \in Nat
            BY <2>1, <3>3, CacheAssumption DEF Full
          <5> QED
            BY <1>1, <2>4, <5>1, <5>2
        <4> QED
          BY <4>1
      <3>5. Head(queue) # wanted
        BY <1>1, <2>3, <3>1, <3>2, <3>4 DEF CacheAccounted
      <3> QED
        BY <2>2, <2>3, <3>1, <3>4, <3>5
    <2> QED
      BY <2>1, <2>2, <2>4 DEF CacheInv, Reading
  <1>5. CASE Answer
    <2>1. ~ Full /\ wanted' = NoChunk /\ UNCHANGED <<data, queue, size>>
      BY <1>5 DEF Answer
    <2> QED
      BY <1>1, <2>1, CacheKept DEF CacheInv, Reading
  <1>6. CASE CachePanic \/ Interrupt
    <2>1. ~ alive' /\ UNCHANGED <<data, queue, size, wanted>>
      BY <1>6 DEF CachePanic, Interrupt, Stop, cacheVars
    <2> QED
      BY <1>1, <2>1, CacheKept DEF CacheInv
  <1>7. CASE StartAgain
    <2>1. /\ data' = NoData /\ queue' = << >> /\ size' = 0 /\ wanted' = NoChunk
          /\ DOMAIN NoData = {}
      BY <1>7 DEF StartAgain, NoData
    <2>2. TakesInAll(size)'
      <3>1. /\ [i \in {0} |-> 0] \in [0 .. 0 -> 0 .. 0] /\ [i \in {0} |-> 0][0] = 0
            /\ \A i \in 1 .. 0 : FALSE
        OBVIOUS
      <3> QED
        BY <2>1, <3>1 DEF TakesInAll
    <2> QED
      BY <2>1, <2>2, CacheAssumption DEF CacheInv, CacheAccounted, CacheTypeOK, Full, Reading
  <1>8. CASE UNCHANGED readerVars
    <2>1. alive' = alive /\ UNCHANGED <<data, queue, size, wanted>>
      BY <1>8 DEF readerVars, storeVars, cacheVars
    <2> QED
      BY <1>1, <2>1, CacheKept DEF CacheInv, Reading
  <1> QED
    BY <1>2, <1>3, <1>4, <1>5, <1>6, <1>7, <1>8 DEF ReaderNext

LEMMA FailsForLargeFiles == CacheInv => OnlyLargeFilesFail
  <1> SUFFICES ASSUME CacheInv, Fails, ~ (FileSize[wanted] > MaxSize) PROVE FALSE
    BY DEF OnlyLargeFilesFail
  <1>1. alive /\ Reading /\ wanted \in DOMAIN data
    BY DEF Fails, CacheInv
  <1>2. Full /\ (queue = << >> \/ Head(queue) \notin DOMAIN data)
    BY <1>1 DEF Fails
  <1>3. queue # << >>
    <2>1. ASSUME queue = << >> PROVE FALSE
      <3>1. \E i \in 1 .. Len(queue) : queue[i] = wanted
        BY <1>1 DEF CacheInv, CacheAccounted, CacheTypeOK
      <3> QED
        BY <2>1, <3>1
    <2> QED
      BY <2>1
  <1>4. Head(queue) \in DOMAIN data
    <2>1. queue \in Seq(Chunks)
      BY DEF CacheInv, CacheAccounted, CacheTypeOK
    <2>2. Head(queue) = queue[1] /\ 1 \in 1 .. Len(queue) /\ queue[1] \in Chunks
      BY <1>3, <2>1
    <2> QED
      BY <2>2 DEF CacheInv, CacheAccounted
  <1> QED
    BY <1>2, <1>3, <1>4

(* Whatever the sizes, the queue, the map and the byte count of the cache   *)
(* agree between any two steps.                                             *)
THEOREM CacheAlwaysAccounted == ReaderSpec => []CacheAccounted
  <1>1. CacheInv => CacheAccounted
    BY DEF CacheInv
  <1> QED
    BY <1>1, ReaderInitially, ReaderStep, CacheInitially, CacheStep, PTL DEF ReaderSpec

(* Whatever the sizes, an expectation of read_cached fails only for a chunk *)
(* that is larger than the whole cache.                                     *)
THEOREM OnlyLargeFilesEverFail == ReaderSpec => []OnlyLargeFilesFail
  <1> QED
    BY ReaderInitially, ReaderStep, CacheInitially, CacheStep, FailsForLargeFiles, PTL
    DEF ReaderSpec
=============================================================================
