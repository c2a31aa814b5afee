----------------------------- MODULE MC_Sequential -----------------------------
(***************************************************************************)
(* The components that one thread uses by itself, for TLC: component says  *)
(* which of them takes the steps, and the others stay as they start.       *)
(* Those of Sequential get their constants in the configuration.           *)
(***************************************************************************)
EXTENDS Sequential, ProtoDescr

VARIABLES
  component,
  consumed, unread, parser, opts, mode, name, pos, answer, ends, shown,
  call, protocol, todo, stream, readers, sent, got

config == <<consumed, unread, parser, opts, mode, name, pos, answer, ends, shown>>
tracker == <<tracker_peer_info, removed_peers, IPv4_peer_idx, conn_forward_info, search>>
codec == <<call, protocol, todo, stream, readers, sent, got>>
ordering == <<progress, input, objs_stack, objs_by_name, entries_count, order, rendered>>
numbers == <<members, next_num, mapping, descr>>
bits == <<stage, out, out_v, bits_out, expected, damaged,
          bit_size, items_read, cur_item, cur_item_bits, reading, last_read>>
crypt == <<crypt_call, size, position, encrypted, decrypted>>
checksum == <<sum, pieces, total, overread, check>>
auth == <<verify_peer, peer_id, chain, left, handshake>>

------------------------------------------------------------------------------
\* Newline stands for both ends of an option and 97 ('a') for all letters; names
\* that differ from <<97>> are longer words and quoted strings.
C == INSTANCE ConfigParser WITH
  Chars <- {10, 32, 34, 58, 97, 123, 125}, Names <- {<<97>>}, MaxText <- 6

\* A negative limit, none, and fewer than there can be.
MCLimits == {-1, 0, 2}

\* The tracker twice: T with four neighbouring addresses and no forwards, F with
\* one address and two forwards of each peer.
F == INSTANCE Tracker WITH Peers <- TrackedPeers, IpCount <- 1, Forwards <- {"f1", "f2"}

\* Versions of a protocol: "s" and "r" get fields appended, inside each other, in
\* an array and as variants of a union, by the writer or by the reader; one pair
\* with a variant the reader does not know, and one with a field that has a default.
Protocols ==
  LET value(n) == UintField(n, FALSE)
      short == <<value("x")>>
      long == <<value("x"), ArrayField("y", value("i"), NoSize)>>
      nested(length) == <<value("x"), StructField("n", "r", length), value("z")>>
      plain == <<StructField("f", "s", TRUE), value("b")>>
      mixed == <<ArrayField("l", StructField("e", "s", TRUE), 1),
                 UnionField("u", <<"s", "r">>, TRUE, TRUE), value("b")>>
      union(variants) == <<UnionField("u", variants, FALSE, FALSE), StructField("f", "s", FALSE)>>
      default == <<UintField("d", TRUE), StructField("f", "s", TRUE)>>
      versions(top, s1, r1, s2, r2) ==
        [writer |-> [top |-> top, s |-> s1, r |-> r1], reader |-> [top |-> top, s |-> s2, r |-> r2]]
  IN  {versions(plain, nested(TRUE), short, nested(TRUE), long),
       versions(plain, nested(TRUE), long, nested(TRUE), short),
       versions(mixed, short, short, nested(TRUE), short),
       versions(mixed, nested(FALSE), short, short, short),
       versions(union(<<"s", "r">>), short, long, short, long),
       [versions(union(<<"s", "r">>), short, long, short, long)
          EXCEPT !.reader.top = union(<<"s">>)],
       versions(default, short, short, long, short)}

G == INSTANCE GeneratedCodec WITH Values <- {0, 1}, MaxItems <- 2

\* Structures a, b and c, a union u with fields f and g, and an enum; names that
\* are distinct, or shared by two structures or by a field and its union.
Descriptions ==
  LET distinct == [a |-> 4, b |-> 2, c |-> 3, f |-> 1, g |-> 5, u |-> 6, e |-> 7]
      uses(a, b, u) == [a |-> a, b |-> b, c |-> <<>>, f |-> <<"u">>, g |-> <<"u">>,
                        u |-> u, e |-> <<>>]
  IN  [kind : {[a |-> "struct", b |-> "struct", c |-> "struct", f |-> "field",
                g |-> "field", u |-> "union", e |-> "enum"]},
       name : {distinct, [distinct EXCEPT !.c = 2], [distinct EXCEPT !.f = 6]},
       heads : {<<"a">>, <<"a", "c">>, <<"b", "a">>, <<"u", "a">>},
       children : {uses(<<"b", "b", "c">>, <<"c">>, <<>>),
                   uses(<<"c", "f", "b">>, <<"g", "c">>, <<"c">>),
                   uses(<<"f", "f">>, <<>>, <<"c", "b">>),
                   uses(<<"b", "e">>, <<"c">>, <<>>),
                   uses(<<"f", "b", "c">>, <<"c">>, <<"b">>)}]

------------------------------------------------------------------------------
Components ==
  {"config", "addresses", "forwards", "codec", "order", "numbers", "bits", "crypt", "checksum",
   "auth"}

vars == <<component, config, tracker, codec, ordering, numbers, bits, crypt, checksum, auth>>

Init ==
  /\ component \in Components
  /\ C!Init /\ T!Init /\ G!Init /\ O!Init /\ N!Init /\ B!Init /\ E!Init /\ S!Init /\ A!Init

ConfigReading ==
  /\ component = "config" /\ C!Reading
  /\ UNCHANGED <<component, tracker, codec, ordering, numbers, bits, crypt, checksum, auth>>

Next ==
  \/ /\ component = "config" /\ C!Next
     /\ UNCHANGED <<component, tracker, codec, ordering, numbers, bits, crypt, checksum, auth>>
  \/ /\ component = "addresses" /\ T!Next
     /\ UNCHANGED <<component, config, codec, ordering, numbers, bits, crypt, checksum, auth>>
  \/ /\ component = "forwards" /\ F!Next
     /\ UNCHANGED <<component, config, codec, ordering, numbers, bits, crypt, checksum, auth>>
  \/ /\ component = "codec" /\ G!Next
     /\ UNCHANGED <<component, config, tracker, ordering, numbers, bits, crypt, checksum, auth>>
  \/ /\ component = "order" /\ O!Next
     /\ UNCHANGED <<component, config, tracker, codec, numbers, bits, crypt, checksum, auth>>
  \/ /\ component = "numbers" /\ N!Next
     /\ UNCHANGED <<component, config, tracker, codec, ordering, bits, crypt, checksum, auth>>
  \/ /\ component = "bits" /\ B!Next
     /\ UNCHANGED <<component, config, tracker, codec, ordering, numbers, crypt, checksum, auth>>
  \/ /\ component = "crypt" /\ E!Next
     /\ UNCHANGED <<component, config, tracker, codec, ordering, numbers, bits, checksum, auth>>
  \/ /\ component = "checksum" /\ S!Next
     /\ UNCHANGED <<component, config, tracker, codec, ordering, numbers, bits, crypt, auth>>
  \/ /\ component = "auth" /\ A!Next
     /\ UNCHANGED <<component, config, tracker, codec, ordering, numbers, bits, crypt, checksum>>

\* A call of get() or dump() keeps running.
FairSpec == Init /\ [][Next]_vars /\ WF_vars(ConfigReading)

------------------------------------------------------------------------------
\* get() returns the first option of a name, found by lengths (config.h:229-263).
GetFindsFirst == C!GetFindsFirst

\* dump() prints every option of the outermost level in order (config.h:302-325).
DumpShowsAll == C!DumpShowsAll

\* find() and dump() of a parsed configuration end (config.h:222-325).
ReadingEnds == C!ReadingEnds

\* What generated code writes, generated code of a version that differs by
\* appended fields reads back (render_cc.py:127-371).
FieldsReadBack == G!FieldsReadBack
================================================================================
