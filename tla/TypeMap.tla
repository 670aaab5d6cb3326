------------------------------ MODULE TypeMap ------------------------------
(* Visitor.ty_map, the graph of the types: the registration of a type fills *)
(* it, calculate_recursion reads it.                                        *)
VARIABLE ty_map   \* [type -> [variant -> the types it holds]]
=============================================================================
