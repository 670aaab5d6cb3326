---------------------------- MODULE MCChunkStore ----------------------------
(* Three chunks and two rendered inputs; inputs of up to two fragments.     *)
(* Two of the chunks fit the cache one at a time, with the third or not at  *)
(* all.                                                                     *)
EXTENDS FileCache, TLC

CONSTANTS c1, c2, c3, r1, r2

MCChunks == {c1, c2, c3}
MCRendered == {r1, r2}
MCFileSize == c1 :> 1 @@ c2 :> 2 @@ c3 :> 3
=============================================================================
