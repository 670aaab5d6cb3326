------------------------------ MODULE ChunkPool ------------------------------
(***************************************************************************)
(* What the fuzzer may expect of its store of fragments, with nothing said *)
(* of listings, of files being written or of caches: what was learnt is    *)
(* never forgotten, a stop can only spoil the one fragment being learnt,   *)
(* and while a client runs everything on disk is on offer to the splices.  *)
(***************************************************************************)

CONSTANTS Chunks,   \* the fragments splices draw from
          Rendered  \* the rendered inputs, stored beside them

VARIABLES stored,   \* what is on disk, complete
          spoilt,   \* what a stop cut off
          offered,  \* the fragments a splice may draw
          running   \* a client runs

poolVars == <<stored, spoilt, offered, running>>

----------------------------------------------------------------------------
OnDisk == stored \cup spoilt

PoolInit == stored = {} /\ spoilt = {} /\ offered = {} /\ running = TRUE

(* Something new is stored whole, and offered if it is a fragment.          *)
Learn(p) ==
  /\ running /\ p \notin OnDisk
  /\ stored' = stored \cup {p}
  /\ offered' = offered \cup ({p} \cap Chunks)
  /\ UNCHANGED <<spoilt, running>>

(* The client ends, ...                                                     *)
Halt ==
  /\ running /\ running' = FALSE
  /\ offered' = {}
  /\ UNCHANGED <<stored, spoilt>>

(* ... perhaps in the middle of storing something new.                      *)
HaltLearning(p) ==
  /\ running /\ running' = FALSE
  /\ p \notin OnDisk
  /\ spoilt' = spoilt \cup {p}
  /\ offered' = {}
  /\ UNCHANGED stored

(* The next client offers what it finds, whole or not.                      *)
Resume ==
  /\ ~ running /\ running' = TRUE
  /\ offered' = OnDisk \cap Chunks
  /\ UNCHANGED <<stored, spoilt>>

PoolNext ==
  \/ \E p \in Chunks \cup Rendered : Learn(p) \/ HaltLearning(p)
  \/ Halt \/ Resume

PoolSpec == PoolInit /\ [][PoolNext]_poolVars
=============================================================================
