------------------------------ MODULE FileCache ------------------------------
(***************************************************************************)
(* FileCache: the chunks a mutator splices are read from disk once and kept *)
(* in memory, first in first out, while they fit.  read_cached is a step    *)
(* that looks the path up, one per eviction, and the answer, which is       *)
(* spliced.  The cache is the process's: it is lost with it, the chunks on  *)
(* disk are not.                                                            *)
(***************************************************************************)
EXTENDS ChunkStore

CONSTANTS FileSize,  \* the length of each complete chunk
          MaxSize,   \* FileCache.max_size
          NoChunk

ASSUME CacheAssumption ==
  FileSize \in [Chunks -> Nat] /\ MaxSize \in Nat /\ NoChunk \notin Chunks

VARIABLES data,    \* what the cache holds of each cached path
          queue,   \* the cached paths, the oldest first
          size,    \* the bytes the cache counts
          wanted   \* the path read_cached was called with, NoChunk outside of it

cacheVars == <<data, queue, size, wanted>>
readerVars == <<storeVars, cacheVars>>

(* A torn file is taken to be empty.                                        *)
Length(c, content) == IF content = "whole" THEN FileSize[c] ELSE 0
Remaining(c) == [d \in DOMAIN data \ {c} |-> data[d]]
Reading == wanted # NoChunk
Full    == size > MaxSize

Load(c) ==
  /\ data' = [d \in DOMAIN data \cup {c} |-> IF d = c THEN files[c] ELSE data[d]]
  /\ queue' = Append(queue, c)
  /\ size' = size + Length(c, files[c])

(* Mutant: a cached path is queued again each time it is read.              *)
LookupQueued(c) ==
  \/ c \notin DOMAIN data /\ Load(c)
  \/ c \in DOMAIN data /\ queue' = Append(queue, c) /\ UNCHANGED <<data, size>>

(* if !self.data.contains_key(path)                                         *)
Lookup(c) ==
  \/ c \notin DOMAIN data /\ Load(c)
  \/ c \in DOMAIN data /\ UNCHANGED <<data, queue, size>>

(* A mutator draws a listed chunk.  A read that may end the client takes    *)
(* one of the stops considered.                                             *)
Read(c) ==
  /\ alive /\ todo = << >> /\ ~ Reading
  /\ type_input_map[c] > 0
  /\ stops < MaxStops \/ FileSize[c] <= MaxSize
  /\ wanted' = c
  /\ Lookup(c)
  /\ UNCHANGED storeVars

(* Mutant: the newest file is the first to go.                              *)
EvictNewest ==
  /\ alive /\ Reading /\ Full /\ queue # << >>
  /\ LET v == queue[Len(queue)]
     IN  size' = size - Length(v, data[v]) /\ data' = Remaining(v)
  /\ queue' = SubSeq(queue, 1, Len(queue) - 1)
  /\ UNCHANGED <<storeVars, wanted>>

(* while self.size > self.max_size                                          *)
Evict ==
  /\ alive /\ Reading /\ Full
  /\ queue # << >> /\ Head(queue) \in DOMAIN data
  /\ size' = size - Length(Head(queue), data[Head(queue)])
  /\ data' = Remaining(Head(queue))
  /\ queue' = Tail(queue)
  /\ UNCHANGED <<storeVars, wanted>>

(* self.data.get(path), which is deserialized into the input                *)
Answer ==
  /\ alive /\ Reading /\ ~ Full /\ wanted \in DOMAIN data
  /\ panicked' = (panicked \/ data[wanted] = "torn")
  /\ alive' = (data[wanted] # "torn")
  /\ wanted' = NoChunk
  /\ UNCHANGED <<files, type_input_map, todo, writing, stops, data, queue, size>>

(* One of the three expectations of read_cached fails.                      *)
Fails ==
  /\ alive /\ Reading
  /\ IF Full THEN queue = << >> \/ Head(queue) \notin DOMAIN data ELSE wanted \notin DOMAIN data

CachePanic == Fails /\ Stop /\ UNCHANGED cacheVars

(* Mutant: chunks are registered while one is being read.                   *)
RegisterAnytime ==
  /\ \/ \E fields \in Fields, rendered \in Rendered : register_input(fields, rendered)
     \/ SkipKnown \/ CreateFile \/ FillFile
  /\ UNCHANGED cacheVars

(* What goes on outside of the mutators                                     *)
Register ==
  /\ ~ Reading
  /\ \/ \E fields \in Fields, rendered \in Rendered : register_input(fields, rendered)
     \/ SkipKnown \/ CreateFile \/ FillFile
  /\ UNCHANGED cacheVars

Interrupt == Stop /\ UNCHANGED cacheVars

NoData == [d \in {} |-> "absent"]

(* The mutators of the next client are new.                                 *)
StartAgain ==
  /\ Restart
  /\ data' = NoData /\ queue' = << >> /\ size' = 0 /\ wanted' = NoChunk

ReaderNext ==
  \/ Register
  \/ \E c \in Chunks : Read(c)
  \/ Evict \/ Answer \/ CachePanic
  \/ Interrupt \/ StartAgain

ReaderInit ==
  /\ StoreInit
  /\ data = NoData /\ queue = << >> /\ size = 0 /\ wanted = NoChunk

ReaderSpec == ReaderInit /\ [][ReaderNext]_readerVars

----------------------------------------------------------------------------
CacheTypeOK ==
  /\ DOMAIN data \subseteq Chunks
  /\ queue \in Seq(Chunks)
  /\ size \in Int
  /\ wanted \in Chunks \cup {NoChunk}

(* Running totals of the cached files, the oldest first, that end at n      *)
TakesInAll(n) ==
  \E total \in [0 .. Len(queue) -> 0 .. n] :
    /\ total[0] = 0 /\ total[Len(queue)] = n
    /\ \A i \in 1 .. Len(queue) :
         total[i] = total[i - 1] + Length(queue[i], data[queue[i]])

(* The three fields of the cache agree between any two steps: the queue     *)
(* holds the cached paths, each once, and `size` is what they take.  Were   *)
(* it not so, the loop would evict too much, or expect a path it has        *)
(* evicted before.                                                          *)
CacheAccounted ==
  /\ CacheTypeOK
  /\ \A c \in Chunks : c \in DOMAIN data <=> \E i \in 1 .. Len(queue) : queue[i] = c
  /\ \A i, j \in 1 .. Len(queue) : queue[i] = queue[j] => i = j
  /\ TakesInAll(size)

(* read_cached panics only for a chunk larger than the whole cache, which   *)
(* evicts itself; "invariant;" and "invariant;2" hold.                      *)
OnlyLargeFilesFail == Fails => FileSize[wanted] > MaxSize
=============================================================================
