---------------------------- MODULE GeneratedCodec ----------------------------
(***************************************************************************)
(* The parse_<struct>() and write_<struct>() functions that                *)
(* proto/render_cc.py generates from a description of structures.  A       *)
(* message is written by code generated from one version of the            *)
(* description and parsed by code generated from another.                  *)
(*                                                                         *)
(* A stream holds one item for each call of write_uint(), write_enum_      *)
(* field(), ..., and lengths count items.  todo is what the running        *)
(* functions have still to do: the fields that follow in the innermost     *)
(* function, then those of its caller.                                     *)
(***************************************************************************)
EXTENDS Integers, Sequences, TLC, ProtoDescr

CONSTANTS
  Protocols,  \* records of a writer's and a reader's structures: a structure
              \* is a sequence of fields, and "top" is what is sent
  Values,     \* the values of a field without structure, Default among them
  MaxItems    \* the longest array

VARIABLES
  call,      \* "none", "write", "read", "parsed", "write_threw", "read_threw"
  protocol,  \* the two versions
  todo,
  stream,    \* what is written
  readers,   \* the reader in use and those it is a fragment of, innermost first
  sent, got  \* the values written and parsed, by path

vars == <<call, protocol, todo, stream, readers, sent, got>>

Default == 0

\* The structure that a union's type number stands for.
FirstVariant(union) == IF union.allow_empty THEN 1 ELSE 0
IsEmpty(union, type) == union.allow_empty /\ type = 0
IsVariant(union, type) ==
  type - FirstVariant(union) + 1 \in DOMAIN union.structs /\ ~IsEmpty(union, type)
Variant(union, type) == union.structs[type - FirstVariant(union) + 1]

Init ==
  /\ call = "none" /\ protocol = [writer |-> <<>>, reader |-> <<>>] /\ todo = <<>>
  /\ stream = <<>> /\ readers = <<>> /\ sent = <<>> /\ got = <<>>

------------------------------------------------------------------------------
field == Head(todo).field
at == Head(todo).at

At(kind) == todo # <<>> /\ Head(todo).do = "field" /\ field.kind = kind

\* The fields of a structure, and the items of an array, one after the other.
StructFields(structs, struct, path) ==
  [i \in DOMAIN structs[struct] |->
     [do |-> "field", field |-> structs[struct][i],
      at |-> Append(path, <<structs[struct][i].name, 0>>)]]
ArrayItems(array, n, path) ==
  [i \in 1..n |-> [do |-> "field", field |-> array.item,
                   at |-> Append(path, <<array.name, i>>)]]

------------------------------------------------------------------------------
(* Writing                                                                 *)

render_write_struct(p) ==
  /\ call = "none"
  /\ call' = "write" /\ protocol' = p
  /\ todo' = StructFields(p.writer, "top", <<>>)
  /\ UNCHANGED <<stream, readers, sent, got>>

\* A value equal to the default is left out.  No flag is written.
render_write_field ==
  /\ call = "write" /\ At("value")
  /\ \E v \in Values :
       /\ sent' = (at :> v) @@ sent
       /\ stream' = IF field.default /\ v = Default THEN stream ELSE Append(stream, v)
  /\ todo' = Tail(todo)
  /\ UNCHANGED <<call, protocol, readers, got>>

render_write_array ==
  /\ call = "write" /\ At("array")
  /\ \E n \in 0..MaxItems :
       /\ sent' = (at :> n) @@ sent
       /\ stream' = IF field.const_size = NoSize THEN Append(stream, n) ELSE stream
       /\ IF field.const_size \in {NoSize, n}
          THEN todo' = ArrayItems(field, n, at) \o Tail(todo) /\ UNCHANGED call
          ELSE call' = "write_threw" /\ UNCHANGED todo
  /\ UNCHANGED <<protocol, readers, got>>

\* The fields of a structure and, if it has a length, the step that fills the
\* length in at pos.
WriteBody(struct, length, pos) ==
  StructFields(protocol.writer, struct, at)
    \o (IF length THEN <<[do |-> "length", pos |-> pos]>> ELSE <<>>) \o Tail(todo)

render_write_struct_field ==
  /\ call = "write" /\ At("struct")
  /\ stream' = IF field.length THEN Append(stream, 0) ELSE stream
  /\ todo' = WriteBody(field.struct, field.length, Len(stream'))
  /\ UNCHANGED <<call, protocol, readers, sent, got>>

render_write_union_field ==
  /\ call = "write" /\ At("union")
  /\ \E type \in 0..Len(field.structs) :
       /\ sent' = (at :> type) @@ sent
       /\ stream' = Append(stream, type)
                      \o (IF field.length /\ ~IsEmpty(field, type) THEN <<0>> ELSE <<>>)
       /\ \/ /\ IsEmpty(field, type) /\ todo' = Tail(todo) /\ UNCHANGED call
          \/ /\ IsVariant(field, type)
             /\ todo' = WriteBody(Variant(field, type), field.length, Len(stream'))
             /\ UNCHANGED call
          \/ /\ ~IsEmpty(field, type) /\ ~IsVariant(field, type)
             /\ call' = "write_threw" /\ UNCHANGED todo
  /\ UNCHANGED <<protocol, readers, got>>

\* The length, taken when nothing of the structure but its fields is written.
write_length ==
  /\ call = "write" /\ todo # <<>> /\ Head(todo).do = "length"
  /\ stream' = [stream EXCEPT ![Head(todo).pos] = Len(stream) - Head(todo).pos]
  /\ todo' = Tail(todo)
  /\ UNCHANGED <<call, protocol, readers, sent, got>>

------------------------------------------------------------------------------
(* Parsing                                                                 *)

\* The message has been written: it is given to a reader.
render_parse_struct ==
  /\ call = "write" /\ todo = <<>>
  /\ call' = "read"
  /\ readers' = <<[pos |-> 1, end |-> Len(stream) + 1]>>
  /\ todo' = StructFields(protocol.reader, "top", <<>>)
  /\ UNCHANGED <<protocol, stream, sent, got>>

reader == Head(readers)
finished == reader.pos = reader.end
read_uint == stream[reader.pos]
Skipped(n) == [readers EXCEPT ![1].pos = @ + n]

\* What comes next starts with a read.
Reads ==
  \/ At("value") \/ At("union") \/ field.default
  \/ At("array") /\ field.const_size = NoSize
  \/ At("struct") /\ field.length
  \/ Head(todo).do = "variant" /\ field.length /\ ~IsEmpty(field, Head(todo).type)

\* Parsing goes on: it reads nothing next, or there is something to read.
CanParse == call = "read" /\ todo # <<>> /\ Head(todo).do # "catch" /\ (Reads => ~finished)

\* The flag of a field with a default; without it the field keeps its value.
read_field_flag ==
  /\ CanParse /\ At("value") /\ field.default
  /\ readers' = Skipped(1)
  /\ todo' = IF read_uint # 0 THEN [todo EXCEPT ![1].field.default = FALSE] ELSE Tail(todo)
  /\ UNCHANGED <<call, protocol, stream, sent, got>>

render_parse_field ==
  /\ CanParse /\ At("value") /\ ~field.default
  /\ readers' = Skipped(1)
  /\ got' = (at :> read_uint) @@ got
  /\ todo' = Tail(todo)
  /\ UNCHANGED <<call, protocol, stream, sent>>

render_parse_array ==
  /\ CanParse /\ At("array")
  /\ LET const == field.const_size # NoSize
         n == IF const THEN field.const_size ELSE read_uint
     IN  /\ readers' = Skipped(IF const THEN 0 ELSE 1)
         /\ got' = (at :> n) @@ got
         /\ todo' = ArrayItems(field, n, at) \o Tail(todo)
  /\ UNCHANGED <<call, protocol, stream, sent>>

\* A structure without its fragment: parsed from the reader it is in.
MutParseBody(struct, length) ==
  /\ readers' = Skipped(IF length THEN 1 ELSE 0)
  /\ todo' = StructFields(protocol.reader, struct, at) \o Tail(todo)

\* A structure: with a length it is parsed from a reader of its own, inside a
\* try, and the reader it is in continues behind it.
ParseBody(struct, length) ==
  LET rest == reader.end - reader.pos - 1
      size == IF read_uint > rest THEN rest ELSE read_uint
      fragment == [pos |-> reader.pos + 1, end |-> reader.pos + 1 + size]
  IN  IF length
      THEN /\ readers' = <<fragment>> \o Skipped(1 + size)
           /\ todo' = StructFields(protocol.reader, struct, at)
                        \o <<[do |-> "catch"]>> \o Tail(todo)
      ELSE /\ todo' = StructFields(protocol.reader, struct, at) \o Tail(todo)
           /\ UNCHANGED readers

render_parse_struct_field ==
  /\ CanParse /\ At("struct")
  /\ ParseBody(field.struct, field.length)
  /\ UNCHANGED <<call, protocol, stream, sent, got>>

render_parse_union_field ==
  /\ CanParse /\ At("union")
  /\ readers' = Skipped(1)
  /\ got' = (at :> read_uint) @@ got
  /\ todo' = <<[do |-> "variant", field |-> field, at |-> at, type |-> read_uint]>> \o Tail(todo)
  /\ UNCHANGED <<call, protocol, stream, sent>>

parse_variant ==
  /\ CanParse /\ Head(todo).do = "variant"
  /\ LET type == Head(todo).type
     IN  \/ /\ IsEmpty(field, type)
            /\ todo' = Tail(todo) /\ UNCHANGED <<call, readers>>
         \/ /\ IsVariant(field, type)
            /\ ParseBody(Variant(field, type), field.length) /\ UNCHANGED call
         \/ /\ ~IsEmpty(field, type) /\ ~IsVariant(field, type)
            /\ call' = "read_threw" /\ UNCHANGED <<todo, readers>>
  /\ UNCHANGED <<protocol, stream, sent, got>>

\* The end of a structure with a length: what is left of its fragment is dropped.
end_fragment ==
  /\ call = "read" /\ todo # <<>> /\ Head(todo).do = "catch"
  /\ readers' = Tail(readers)
  /\ todo' = Tail(todo)
  /\ UNCHANGED <<call, protocol, stream, sent, got>>

\* BitStreamFinished, which the innermost structure with a length catches.
stream_finished ==
  /\ call = "read" /\ todo # <<>> /\ Head(todo).do # "catch" /\ Reads /\ finished
  /\ \/ \E i \in DOMAIN todo :
          /\ todo[i].do = "catch" /\ \A j \in 1..i - 1 : todo[j].do # "catch"
          /\ todo' = SubSeq(todo, i, Len(todo)) /\ UNCHANGED call
     \/ /\ \A i \in DOMAIN todo : todo[i].do # "catch"
        /\ call' = "read_threw" /\ UNCHANGED todo
  /\ UNCHANGED <<protocol, stream, readers, sent, got>>

parsed ==
  /\ call = "read" /\ todo = <<>>
  /\ call' = "parsed"
  /\ UNCHANGED <<protocol, todo, stream, readers, sent, got>>

next_message ==
  /\ call \in {"parsed", "write_threw", "read_threw"}
  /\ call' = "none" /\ protocol' = [writer |-> <<>>, reader |-> <<>>] /\ todo' = <<>>
  /\ stream' = <<>> /\ readers' = <<>> /\ sent' = <<>> /\ got' = <<>>

Writing ==
  \/ \E p \in Protocols : render_write_struct(p)
  \/ render_write_field \/ render_write_array \/ render_write_struct_field
  \/ render_write_union_field \/ write_length

Parsing ==
  \/ render_parse_struct \/ read_field_flag \/ render_parse_field \/ render_parse_array
  \/ render_parse_struct_field \/ render_parse_union_field \/ parse_variant
  \/ end_fragment \/ stream_finished \/ parsed

Next == Writing \/ Parsing \/ next_message

Spec == Init /\ [][Next]_vars

------------------------------------------------------------------------------
\* All fields of a version, those inside arrays included.
AllFields(structs) ==
  LET fields == UNION {{structs[s][i] : i \in DOMAIN structs[s]} : s \in DOMAIN structs}
  IN  fields \cup {f.item : f \in {g \in fields : g.kind = "array"}}

\* The two versions differ only in fields appended to structures that are
\* always used with a length.
Compatible ==
  LET same(s) == protocol.writer[s] = protocol.reader[s]
      prefix(a, b) == Len(a) <= Len(b) /\ a = SubSeq(b, 1, Len(a))
  IN  /\ same("top")
      /\ \A s \in DOMAIN protocol.writer :
           \/ prefix(protocol.writer[s], protocol.reader[s])
           \/ prefix(protocol.reader[s], protocol.writer[s])
      /\ \A f \in AllFields(protocol.writer) \cup AllFields(protocol.reader) :
           /\ ~f.default
           /\ f.kind = "struct" /\ ~f.length => same(f.struct)
           /\ f.kind = "union" /\ ~f.length => \A i \in DOMAIN f.structs : same(f.structs[i])

\* A path the reader's version has.
Known(path) ==
  LET names == {f.name : f \in AllFields(protocol.reader)}
  IN  \A i \in DOMAIN path : path[i][1] \in names

\* "to be able to append fields to struct in same proto version, use length
\* field" (descr.py:99): if the versions differ only so, in either direction,
\* parsing never throws, and every value written that the reader's version has a
\* field for, inside the changed structure and behind it, is read back
\* (render_cc.py:146-216, 284-330).  A field with a default is read back in no
\* version: its flag is read and never written.
FieldsReadBack ==
  protocol.writer # <<>> /\ Compatible =>
    /\ call # "read_threw"
    /\ call = "parsed" =>
         \A path \in {q \in DOMAIN sent : Known(q)} :
           path \in DOMAIN got /\ got[path] = sent[path]
================================================================================
