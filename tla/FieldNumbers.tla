----------------------------- MODULE FieldNumbers -----------------------------
(***************************************************************************)
(* How proto/descr.py numbers the members of an enum and the variants of a *)
(* union, and how many bits it gives to a field that holds such a number.  *)
(***************************************************************************)
EXTENDS Integers, Sequences, Powers

CONSTANTS
  Numbers,     \* the integers that members of an enum may have as values
  NotInt,      \* a value that is not an integer
  MaxMembers   \* the most members, and variants

VARIABLES
  members,   \* the values of an enum's members
  next_num,
  mapping,   \* the numbers given to the first members
  descr      \* what is built: "none", an enum or union field, or "raised"

vars == <<members, next_num, mapping, descr>>

NoField == [field |-> "none"]

Init == members = <<>> /\ next_num = 0 /\ mapping = <<>> /\ descr = NoField

------------------------------------------------------------------------------
\* ceil(log2(n)), which raises for 0.
ceil_log2(n) == CHOOSE k \in 0..n : Pow2[k] >= n /\ \A j \in 0..k - 1 : Pow2[j] < n

\* EnumField() without a number of bits.
EnumField(values) ==
  /\ descr = NoField
  /\ members' = values /\ next_num' = 0 /\ mapping' = <<>>
  /\ descr' = [field |-> "numbering"]

value == members[Len(mapping) + 1]

\* A mapping that does not go on from a number it was given.
MutEnumIntMapping ==
  /\ descr.field = "numbering" /\ Len(mapping) < Len(members)
  /\ LET number == IF value = NotInt THEN next_num ELSE value
     IN  /\ number >= next_num
         /\ mapping' = Append(mapping, number)
         /\ next_num' = next_num + 1
  /\ UNCHANGED <<members, descr>>

get_enum_int_mapping ==
  /\ descr.field = "numbering" /\ Len(mapping) < Len(members)
  /\ LET number == IF value = NotInt THEN next_num ELSE value
     IN  /\ number >= next_num
         /\ mapping' = Append(mapping, number)
         /\ next_num' = number + 1
  /\ UNCHANGED <<members, descr>>

\* ValueError: the numbers do not increase, there is none, or 0 is the only one.
enum_raises ==
  /\ descr.field = "numbering"
  /\ \/ Len(mapping) < Len(members) /\ value # NotInt /\ value < next_num
     \/ Len(mapping) = Len(members) /\ mapping \in {<<>>, <<0>>}
  /\ descr' = [field |-> "raised"]
  /\ UNCHANGED <<members, next_num, mapping>>

enum_bits ==
  /\ descr.field = "numbering" /\ Len(mapping) = Len(members)
  /\ mapping \notin {<<>>, <<0>>}
  /\ \E max \in {mapping[i] : i \in DOMAIN mapping} :
       /\ \A i \in DOMAIN mapping : mapping[i] <= max
       /\ descr' = [field |-> "enum", bits |-> ceil_log2(max), max |-> max]
  /\ UNCHANGED <<members, next_num, mapping>>

\* UnionField() without a number of bits, for a union with n structures; raises
\* for a union that has no variant.
UnionField(n, allow_empty) ==
  /\ descr = NoField
  /\ LET nvariants == n + (IF allow_empty THEN 1 ELSE 0)
     IN  descr' = IF nvariants = 0 THEN [field |-> "raised"]
                  ELSE [field |-> "union", bits |-> ceil_log2(nvariants),
                        structs |-> n, allow_empty |-> allow_empty]
  /\ UNCHANGED <<members, next_num, mapping>>

\* The numbers of the variants in the rendered enum class.
render_union_enum(union) ==
  LET first == IF union.allow_empty THEN 1 ELSE 0
  IN  (IF union.allow_empty THEN {0} ELSE {}) \cup first..first + union.structs - 1

next_field ==
  /\ descr.field \in {"enum", "union", "raised"}
  /\ members' = <<>> /\ next_num' = 0 /\ mapping' = <<>> /\ descr' = NoField

Next ==
  \/ \E n \in 0..MaxMembers : \E values \in [1..n -> Numbers \cup {NotInt}] : EnumField(values)
  \/ get_enum_int_mapping \/ enum_raises \/ enum_bits
  \/ \E n \in 0..MaxMembers, allow_empty \in BOOLEAN : UnionField(n, allow_empty)
  \/ next_field

Spec == Init /\ [][Next]_vars

------------------------------------------------------------------------------
\* Whatever mixture of given and counted numbers an enum has, no two of its
\* members share one and a given number is kept; and the number of every member
\* and variant fits the bits of its field, but for the largest number of an enum
\* when that is a power of two: the bits are counted for it and not for the
\* numbers up to it (descr.py:57-60, 124-125, 135-145; render_cc.py:107-117).
NumbersFit ==
  /\ \A i, j \in DOMAIN mapping : i < j => mapping[i] < mapping[j]
  /\ \A i \in DOMAIN mapping : members[i] # NotInt => mapping[i] = members[i]
  /\ descr.field = "enum" =>
       \A i \in DOMAIN mapping :
         \/ mapping[i] < Pow2[descr.bits]
         \/ mapping[i] = descr.max /\ descr.max = Pow2[descr.bits]
  /\ descr.field = "union" =>
       \A number \in render_union_enum(descr) : number < Pow2[descr.bits]
================================================================================
