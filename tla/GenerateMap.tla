---------------------------- MODULE GenerateMap ----------------------------
(* Visitor.ty_generate_map, the variants Visitor::generate chooses from:    *)
(* calculate_recursion sets it once, every generation reads it.             *)
VARIABLE ty_generate_map   \* [type -> [rec, nonrec]], two sets of variants
=============================================================================
