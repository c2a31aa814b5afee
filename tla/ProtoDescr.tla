------------------------------ MODULE ProtoDescr ------------------------------
(***************************************************************************)
(* The fields of proto/descr.py, as far as the generated functions differ  *)
(* by them.  UintField stands for all fields without structure; only these *)
(* are used with a default here.                                           *)
(***************************************************************************)
EXTENDS Integers

NoSize == -1

UintField(name, default) == [kind |-> "value", name |-> name, default |-> default]

\* An array of const_size items, or of any number if that is NoSize.
ArrayField(name, item, const_size) ==
  [kind |-> "array", name |-> name, default |-> FALSE, item |-> item, const_size |-> const_size]

\* A structure, by its name, with or without a length.
StructField(name, struct, length) ==
  [kind |-> "struct", name |-> name, default |-> FALSE, struct |-> struct, length |-> length]

\* A union of structures.
UnionField(name, structs, allow_empty, length) ==
  [kind |-> "union", name |-> name, default |-> FALSE, structs |-> structs,
   allow_empty |-> allow_empty, length |-> length]
================================================================================
