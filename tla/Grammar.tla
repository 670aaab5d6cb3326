------------------------------ MODULE Grammar ------------------------------
(***************************************************************************)
(* A grammar as autarkie sees it: the Rust types reachable from the fuzzed *)
(* type, each with the impl of `Node` it has (Kind) and, per variant, the  *)
(* types of its fields (Fields).  A type is the number TypeId hashes to    *)
(* (`Id = u64`); 0 is the id register_ty gives the parent of the root.     *)
(* The variants of a type are numbered from 0, as the derive numbers them. *)
(***************************************************************************)
EXTENDS Integers, Sequences

CONSTANTS Types,    \* the ids of the grammar's types
          Kind,     \* Kind[t]: which impl of Node t has
          Fields    \* Fields[t][v]: the field types of variant v of t

Structs == {"struct"}              \* #[derive(Grammar)] on a struct
Enums   == {"enum"}                \* #[derive(Grammar)] on an enum
Derived == Structs \cup Enums
Coins   == {"option", "result"}    \* Option<T>, Result<T, E>: variants 0 and 1
Tuples  == {"tuple"}               \* (A, B, ...)
Lists   == {"list"}                \* Vec<T>, Cow<[T]>, [T; N]: Fields[t][0] = <<T>>
Boxes   == {"box"}                 \* Box<T>
Cows    == {"cow"}                 \* Cow<T>: generates T, registers itself only
Leaves  == {"leaf"}                \* integers, String, (), PhantomData, BTreeMap, ...
Kinds   == Derived \cup Coins \cup Tuples \cup Lists \cup Boxes \cup Cows \cup Leaves

RootId == 0                        \* u64::MIN, "AutarkieRootFuzzData"

ASSUME TypesAssumption == Types \subseteq Nat \ {RootId}
ASSUME KindAssumption  == Kind \in [Types -> Kinds]
ASSUME FieldsAssumption ==
  /\ DOMAIN Fields = Types
  /\ \A t \in Types :
       /\ DOMAIN Fields[t] \subseteq Nat
       /\ \A v \in DOMAIN Fields[t] : Fields[t][v] \in Seq(Types)
ASSUME VariantsAssumption ==
  \A t \in Types : \A v \in DOMAIN Fields[t] : 0 .. v \subseteq DOMAIN Fields[t]
ASSUME ShapeAssumption ==
  \A t \in Types : /\ Kind[t] \notin Enums \cup Coins => DOMAIN Fields[t] = {0}
                   /\ Kind[t] \in Leaves => Fields[t][0] = << >>
ASSUME ListAssumption ==
  \A t \in Types : Kind[t] \in Lists \cup Boxes => Len(Fields[t][0]) = 1

Variants(t) == DOMAIN Fields[t]

(* The types a value of variant v of t holds directly. *)
FieldTypes(t, v) == {Fields[t][v][i] : i \in 1 .. Len(Fields[t][v])}
=============================================================================
