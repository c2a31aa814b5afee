----------------------------- MODULE ConfigParser ------------------------------
(***************************************************************************)
(* config.h: ImmutableConfig.  ParseConfig turns a text into a flat vector *)
(* of options, each a length followed by a name and a value or the options *)
(* of a block; find() and dump() walk the vector by these lengths.         *)
(*                                                                         *)
(* Characters are their ASCII codes, space standing for tab too.  A length *)
(* takes one cell of the vector instead of four bytes, otherwise the       *)
(* layout is the code's; as in the code, positions in it start at 0.       *)
(***************************************************************************)
EXTENDS Integers, Sequences, SequencesExt

CONSTANTS
  Chars,    \* the characters a text is made of
  Names,    \* the names asked for, as sequences of characters
  MaxText   \* bound on the length of a text

VARIABLES
  consumed,  \* how many characters have been read
  unread,    \* the character that data-- has put back, NUL if none
  parser,    \* what the other members of ParseConfig hold, and v
  opts,      \* ghost: the options of the outermost level, as [name, value]
  mode,      \* "parsing", "failed", "parsed", or in "find" or "dump"
  name, pos, answer,  \* find(): what it looks for, where it is, what it found
  ends, shown         \* dump(): its pos_stack and the options it has printed

vars == <<consumed, unread, parser, opts, mode, name, pos, answer, ends, shown>>

NUL == 0
Newline == 10
Space == 32
Quote == 34
Colon == 58
Semicolon == 59
Open == 123
Close == 125

------------------------------------------------------------------------------
(* The members of ParseConfig.  words is a ghost: the strings of the option *)
(* that is being read, for every open block.                                *)

\* size_t -1, the mark of an option that has no length field yet
NoPos == -1

Top(p) == Last(p.pos_stack)
SetTop(p, x) == [p EXCEPT !.pos_stack[Len(p.pos_stack)] = x]
SetWords(p, ws) == [p EXCEPT !.words[Len(p.words)] = ws]

push_char(p, c) == [p EXCEPT !.out_data = Append(@, c)]

\* A character of a string.
string_char(p, c) ==
  LET ws == Last(p.words)
  IN  SetWords(push_char(p, c), [ws EXCEPT ![Len(ws)] = Append(@, c)])

reserve_len(p) == SetTop(push_char(p, 0), Len(p.out_data))

update_len(p) == [p EXCEPT !.out_data[Top(p) + 1] = Len(p.out_data) - Top(p)]

\* "Too many strings for single option"
end_opt_throws(p) == p.nstr \notin 0..2

end_opt(p) ==
  IF p.nstr = 0 THEN p ELSE SetWords([update_len(p) EXCEPT !.nstr = 0], <<>>)

start_str(p) ==
  LET q == CASE p.nstr = 0 -> reserve_len(p)
             [] p.nstr = 2 -> [p EXCEPT !.nstr = 1, !.out_data[Len(p.out_data)] = Space]
             [] OTHER -> p
  IN  SetWords(q, Append(Last(p.words), <<>>))

end_str(p) == [push_char(p, NUL) EXCEPT !.state = "OUTSIDE", !.nstr = @ + 1]

\* A block without the empty value that dump() and _get() expect of it.
MutPushBlock(p) ==
  [p EXCEPT !.nstr = 0, !.pos_stack = Append(@, NoPos), !.words = Append(@, <<>>)]

push_block(p) ==
  [push_char(p, NUL) EXCEPT !.nstr = 0, !.pos_stack = Append(@, NoPos), !.words = Append(@, <<>>)]

pop_block(p) ==
  [p EXCEPT !.pos_stack = Front(@), !.words = Front(@), !.nstr = 2]

\* What the option that end_opt() closes means, if it is an outermost one.
Value(ws) == IF Len(ws) < 2 THEN <<>>
             ELSE FoldLeft(LAMBDA v, w : v \o <<Space>> \o w, ws[2], SubSeq(ws, 3, Len(ws)))

Closed(p) ==
  IF Len(p.words) = 1 /\ p.nstr # 0
  THEN <<[name |-> p.words[1][1], value |-> Value(p.words[1])]>>
  ELSE <<>>

Init ==
  /\ consumed = 0 /\ unread = NUL /\ opts = <<>>
  /\ parser = [out_data |-> <<>>, pos_stack |-> <<NoPos>>, nstr |-> 0,
               state |-> "OUTSIDE", words |-> <<<<>>>>]
  /\ mode = "parsing"
  /\ name = <<>> /\ pos = 0 /\ answer = [name |-> <<>>, found |-> <<>>]
  /\ ends = <<>> /\ shown = <<>>

NotReading == UNCHANGED <<name, pos, answer, ends, shown>>

------------------------------------------------------------------------------
(* The constructor's loop, an action for each case of its switches.        *)

\* c = *(data++); line_num, which only error messages use, is left out
read_char(c) ==
  /\ mode = "parsing"
  /\ IF unread = NUL
     THEN consumed < MaxText /\ consumed' = consumed + 1
     ELSE c = unread /\ UNCHANGED consumed
  /\ NotReading

throw_error == mode' = "failed" /\ UNCHANGED <<parser, opts>>

open_block(c) ==
  /\ read_char(c) /\ unread' = NUL
  /\ parser.state = "OUTSIDE" /\ c = Open
  /\ \/ parser.nstr # 1 /\ throw_error
     \/ parser.nstr = 1 /\ parser' = push_block(parser) /\ UNCHANGED <<opts, mode>>

close_block(c) ==
  /\ read_char(c) /\ unread' = NUL
  /\ parser.state = "OUTSIDE" /\ c = Close
  /\ IF end_opt_throws(parser) \/ Len(parser.pos_stack) <= 1
     THEN throw_error
     ELSE LET outer == pop_block(end_opt(parser))
          IN  /\ parser' = end_opt(outer)
              /\ opts' = opts \o Closed(outer)
              /\ UNCHANGED mode

end_option(c) ==
  /\ read_char(c) /\ unread' = NUL
  /\ parser.state = "OUTSIDE" /\ c \in {Semicolon, Newline}
  /\ IF end_opt_throws(parser) THEN throw_error
     ELSE parser' = end_opt(parser) /\ opts' = opts \o Closed(parser) /\ UNCHANGED mode

skip_blank(c) ==
  /\ read_char(c) /\ unread' = NUL
  /\ parser.state = "OUTSIDE" /\ c \in {Space, Colon}
  /\ UNCHANGED <<parser, opts, mode>>

open_quote(c) ==
  /\ read_char(c) /\ unread' = NUL
  /\ parser.state = "OUTSIDE" /\ c = Quote
  /\ parser' = [start_str(parser) EXCEPT !.state = "QUOTED_INSIDE"]
  /\ UNCHANGED <<opts, mode>>

start_word(c) ==
  /\ read_char(c) /\ unread' = c
  /\ parser.state = "OUTSIDE"
  /\ c \notin {Open, Close, Semicolon, Newline, Space, Colon, Quote}
  /\ parser' = [start_str(parser) EXCEPT !.state = "INSIDE"]
  /\ UNCHANGED <<opts, mode>>

end_word(c) ==
  /\ read_char(c) /\ unread' = IF c = Space THEN NUL ELSE c
  /\ parser.state = "INSIDE" /\ c \in {Open, Close, Semicolon, Newline, Quote, Space}
  /\ parser' = end_str(parser)
  /\ UNCHANGED <<opts, mode>>

close_quote(c) ==
  /\ read_char(c) /\ unread' = NUL
  /\ parser.state = "QUOTED_INSIDE" /\ c = Quote
  /\ parser' = end_str(parser)
  /\ UNCHANGED <<opts, mode>>

inside_char(c) ==
  /\ read_char(c) /\ unread' = NUL
  /\ \/ parser.state = "INSIDE" /\ c \notin {Open, Close, Semicolon, Newline, Quote, Space}
     \/ parser.state = "QUOTED_INSIDE" /\ c # Quote
  /\ parser' = string_char(parser, c)
  /\ UNCHANGED <<opts, mode>>

\* The end of the text.
end_text ==
  LET p == IF parser.state # "OUTSIDE" THEN end_str(parser) ELSE parser
  IN  /\ mode = "parsing" /\ unread = NUL
      /\ IF end_opt_throws(p) \/ Len(p.pos_stack) > 1
         THEN throw_error
         ELSE parser' = end_opt(p) /\ opts' = opts \o Closed(p) /\ mode' = "parsed"
      /\ UNCHANGED <<consumed, unread>> /\ NotReading

------------------------------------------------------------------------------
(* Reading the configuration.                                              *)

v == parser.out_data

\* strlen() and the string at a position of v
strlen(at) == CHOOSE n \in 0..Len(v) : v[at + n + 1] = NUL /\ \A k \in 0..n-1 : v[at + k + 1] # NUL
CString(at) == SubSeq(v, at + 1, at + strlen(at))

get(n) ==
  /\ mode = "parsed"
  /\ mode' = "find" /\ name' = n /\ pos' = 0
  /\ UNCHANGED <<consumed, unread, parser, opts, answer, ends, shown>>

\* A find() that forgets to go on to the next option.
MutFind ==
  /\ mode = "find" /\ UNCHANGED <<consumed, unread, parser, opts, name, ends, shown>>
  /\ IF pos < Len(v) /\ CString(pos + 1) # name
     THEN UNCHANGED <<pos, mode, answer>>
     ELSE /\ mode' = "parsed" /\ pos' = 0
          /\ answer' = [name |-> name, found |-> IF pos < Len(v) /\ v[pos + 1] # Len(name) + 2
                                                THEN CString(pos + Len(name) + 2) ELSE <<>>]

\* One round of find(), and _get() once it has ended.  A value that is not found
\* is the empty one.
find ==
  LET body == pos + 1
      new_pos == pos + v[pos + 1]
      b == body + Len(name) + 1
      found(s) == mode' = "parsed" /\ answer' = [name |-> name, found |-> s] /\ pos' = 0
  IN  /\ mode = "find"
      /\ \/ pos < Len(v) /\ CString(body) # name
            /\ pos' = new_pos /\ UNCHANGED <<mode, answer>>
         \/ pos < Len(v) /\ CString(body) = name
            /\ found(IF b = new_pos THEN <<>> ELSE CString(b))
         \/ pos >= Len(v) /\ found(<<>>)
      /\ UNCHANGED <<consumed, unread, parser, opts, name, ends, shown>>

dump ==
  /\ mode = "parsed"
  /\ mode' = "dump" /\ pos' = 0 /\ ends' = <<Len(v)>> /\ shown' = <<>>
  /\ UNCHANGED <<consumed, unread, parser, opts, name, answer>>

\* One round of dump(): an option's name, and its value if it has one.
dump_option ==
  LET body == pos + 1
      end_pos == pos + v[pos + 1]
      pos2 == body + strlen(body) + 1
      valued == pos2 < end_pos
  IN  /\ mode = "dump" /\ ends # <<>>
      /\ \/ /\ pos < Last(ends)
            /\ ends' = Append(ends, end_pos)
            /\ pos' = IF valued THEN pos2 + strlen(pos2) + 1 ELSE pos2
            /\ shown' = Append(shown, [depth |-> Len(ends), name |-> CString(body),
                                       value |-> IF valued THEN CString(pos2) ELSE <<>>])
         \/ pos >= Last(ends) /\ ends' = Front(ends) /\ UNCHANGED <<pos, shown>>
      /\ UNCHANGED <<consumed, unread, parser, opts, mode, name, answer>>

dump_returns ==
  /\ mode = "dump" /\ ends = <<>>
  /\ mode' = "parsed" /\ pos' = 0 /\ shown' = <<>>
  /\ UNCHANGED <<consumed, unread, parser, opts, name, answer, ends>>

Reading == find \/ dump_option \/ dump_returns

Next ==
  \/ \E c \in Chars : \/ open_block(c) \/ close_block(c) \/ end_option(c) \/ skip_blank(c)
                      \/ open_quote(c) \/ start_word(c) \/ end_word(c) \/ close_quote(c)
                      \/ inside_char(c)
  \/ end_text
  \/ \E n \in Names : get(n)
  \/ dump \/ Reading

Spec == Init /\ [][Next]_vars

\* A call of get() or dump() keeps running.
FairSpec == Spec /\ WF_vars(Reading)

------------------------------------------------------------------------------
\* get() returns the value of the first option of that name on the outermost
\* level, found by nothing but lengths and terminators (config.h:229-263).
GetFindsFirst ==
  mode = "parsed" /\ answer.name # <<>> =>
    LET same == SelectSeq(opts, LAMBDA o : o.name = answer.name)
    IN  answer.found = IF same = <<>> THEN <<>> ELSE Head(same).value

\* dump() prints every option of the outermost level, in order and with its
\* value, whatever blocks lie between them (config.h:302-325).
DumpShowsAll ==
  mode = "dump" /\ ends = <<>> =>
    LET outer == SelectSeq(shown, LAMBDA o : o.depth = 1)
    IN  [i \in 1..Len(outer) |-> [name |-> outer[i].name, value |-> outer[i].value]] = opts

\* find() and dump() of a parsed configuration end: no length is 0.
ReadingEnds == mode \in {"find", "dump"} ~> mode = "parsed"
==============================================================================
