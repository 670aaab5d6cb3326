------------------------------ MODULE MCStages ------------------------------
(* Inputs over a few fragments, stages of two mutations each.               *)
EXTENDS Stages, TLC

CONSTANTS f1, f2, f3

Perms == Permutations(Fragments)
=============================================================================
