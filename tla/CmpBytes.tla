------------------------------ MODULE CmpBytes ------------------------------
(***************************************************************************)
(* The byte loop of AutarkieCmpLogStage: every occurrence of compared bytes *)
(* in the serialized input is to be written back and the result evaluated.  *)
(* find_subsequence returns an index relative to `start`, the loop uses it  *)
(* as an absolute one.  Whether the result can be deserialized, and so      *)
(* replaces the bytes the search goes on in, is left open.                  *)
(***************************************************************************)
EXTENDS Integers

CONSTANTS Byte,      \* the values of a byte
          MaxSize,   \* the longest serialized input
          MaxWidth   \* the longest run of compared bytes

ASSUME SizesAssumption == MaxSize \in Nat /\ MaxWidth \in Nat \ {0}

VARIABLES original,  \* the bytes of the scheduled input
          size,      \* their number
          bytes,     \* unmutated_input_bytes
          chunk,     \* cmp_chunk
          width,     \* cmp_chunk.len()
          start,     \* where the next search begins, 0 for None
          search     \* "on" while the loop runs, "over" after it

bytesVars == <<original, size, bytes, chunk, width, start, search>>

(* haystack[at ..].starts_with(needle)                                      *)
OccursAt(b, at) == at + width <= size /\ \A j \in 0 .. width - 1 : b[at + j] = chunk[j]

Found(b, from) == {at \in from .. size : OccursAt(b, at)}
FirstOf(S, at) == at \in S /\ \A other \in S : at <= other

(* Mutant: the bytes are inserted.                                          *)
WrittenBetween(index) ==
  [j \in 0 .. size + width - 1 |->
     IF j < index THEN bytes[j] ELSE IF j < index + width THEN chunk[j - index] ELSE bytes[j - width]]

(* cloned.splice(index .. index + cmp_chunk.len(), cmp_chunk)               *)
WrittenBack(index) ==
  [j \in 0 .. size - 1 |-> IF j \in index .. index + width - 1 THEN chunk[j - index] ELSE bytes[j]]

(* Mutant: an index from the beginning, as the loop takes it to be          *)
IndexAbsolute(at) == at

(* windows(..).position(..) counts from `start`.                            *)
Index(at) == at - start

(* Mutant: the next search begins at what was found, not behind it.         *)
SubstituteAgain ==
  /\ search = "on"
  /\ \E at \in Found(bytes, start) :
       /\ FirstOf(Found(bytes, start), at)
       /\ start' = Index(at)
       /\ bytes' \in {bytes, WrittenBack(Index(at))}
  /\ UNCHANGED <<original, size, chunk, width, search>>

Substitute ==
  /\ search = "on"
  /\ \E at \in Found(bytes, start) :
       /\ FirstOf(Found(bytes, start), at)
       /\ start' = Index(at) + width
       /\ bytes' \in {bytes, WrittenBack(Index(at))}
  /\ UNCHANGED <<original, size, chunk, width, search>>

NothingFound ==
  /\ search = "on"
  /\ Found(bytes, start) = {}
  /\ search' = "over"
  /\ UNCHANGED <<original, size, bytes, chunk, width, start>>

(* Compared bytes are taken not to be empty: windows(0) would panic.        *)
BytesInit ==
  /\ size \in 0 .. MaxSize /\ original \in [0 .. size - 1 -> Byte]
  /\ width \in 1 .. MaxWidth /\ chunk \in [0 .. width - 1 -> Byte]
  /\ bytes = original
  /\ start = 0
  /\ search = "on"

BytesNext == Substitute \/ NothingFound

BytesSpec == BytesInit /\ [][BytesNext]_bytesVars /\ WF_bytesVars(BytesNext)

----------------------------------------------------------------------------
BytesTypeOK ==
  /\ size \in 0 .. MaxSize /\ width \in 1 .. MaxWidth
  /\ original \in [0 .. size - 1 -> Byte]
  /\ bytes \in [0 .. size - 1 -> Byte]
  /\ chunk \in [0 .. width - 1 -> Byte]
  /\ start \in 0 .. size
  /\ search \in {"on", "over"}

(* The chunk occurs in the scheduled input, and again behind its first      *)
(* occurrence without overlapping it.                                       *)
Repeats ==
  \E first \in Found(original, 0) :
    FirstOf(Found(original, 0), first) /\ Found(original, first + width) # {}

(* The loop only ever ends for compared bytes that do not occur twice in    *)
(* the input: with the relative index the search returns to what it has     *)
(* found already, and what it writes never destroys it.                     *)
OverOnlyWithoutRepeat == search = "over" => ~ Repeats

(* For all others it does end.                                              *)
EndsWithoutRepeat == ~ Repeats ~> search = "over"
=============================================================================
