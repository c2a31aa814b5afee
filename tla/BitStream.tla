------------------------------ MODULE BitStream ------------------------------
(***************************************************************************)
(* proto/bit_writer.h and proto/bit_reader.h: unsigned numbers packed into *)
(* items of ElemBits bits, lowest bits first, and read from them.          *)
(***************************************************************************)
EXTENDS Integers, Sequences, Powers

CONSTANTS
  ElemBits,  \* elem_bit_size()
  MaxBits,   \* the longest stream
  MaxField   \* the longest number

VARIABLES
  stage,                                    \* "write", "read" or "undefined"
  out, out_v, bits_out,                     \* the writer
  expected, damaged,                        \* the bits that should have been written, and
                                            \* the positions that a patch may have changed
  bit_size, items_read, cur_item, cur_item_bits,  \* the reader
  reading,                                  \* bits still to read and what is read so far
  last_read                                 \* position, bits, value, or a throw

writer == <<out, out_v, bits_out, expected, damaged>>
bit_reader == <<bit_size, items_read, cur_item, cur_item_bits, reading, last_read>>
vars == <<stage, writer, bit_reader>>

NotReading == [n |-> 0, r |-> 0]
NoRead == [pos |-> 0, n |-> 0, value |-> 0, threw |-> FALSE]

Init ==
  /\ stage = "write"
  /\ out = <<>> /\ out_v = 0 /\ bits_out = 0 /\ expected = <<>> /\ damaged = {}
  /\ bit_size = 0 /\ items_read = 0 /\ cur_item = 0 /\ cur_item_bits = 0
  /\ reading = NotReading /\ last_read = NoRead

Item(x) == x % Pow2[ElemBits]
Bit(x, i) == (x \div Pow2[i]) % 2

------------------------------------------------------------------------------
(* Writing                                                                 *)

\* How often a loop runs that takes whole items while more than one is left.
Turns(n) == IF n = 0 THEN 0 ELSE (n - 1) \div ElemBits

\* A first item that keeps the number's lower bits only.
MutWriteUint(v, n) ==
  LET b == ElemBits - bits_out
      turns == Turns(n - b)
  IN  /\ stage = "write" /\ Len(expected) + n <= MaxBits
      /\ IF n <= b
         THEN /\ out_v' = Item(out_v + v * Pow2[bits_out])
              /\ bits_out' = bits_out + n
              /\ UNCHANGED out
         ELSE /\ out' = Append(out, Item(out_v + v * Pow2[bits_out]))
                          \o [i \in 1..turns |-> Item(v \div Pow2[(i - 1) * ElemBits])]
              /\ out_v' = v \div Pow2[turns * ElemBits]
              /\ bits_out' = n - b - turns * ElemBits
      /\ expected' = expected \o [i \in 1..n |-> Bit(v, i - 1)]
      /\ UNCHANGED <<stage, damaged, bit_reader>>

\* write_uint(): the current item is put only when a number does not fit it.
write_uint(v, n) ==
  LET b == ElemBits - bits_out
      turns == Turns(n - b)
  IN  /\ stage = "write" /\ Len(expected) + n <= MaxBits
      /\ IF n <= b
         THEN /\ out_v' = Item(out_v + v * Pow2[bits_out])
              /\ bits_out' = bits_out + n
              /\ UNCHANGED out
         ELSE /\ out' = Append(out, Item(out_v + v * Pow2[bits_out]))
                          \o [i \in 1..turns |-> Item(v \div Pow2[b + (i - 1) * ElemBits])]
              /\ out_v' = v \div Pow2[b + turns * ElemBits]
              /\ bits_out' = n - b - turns * ElemBits
      /\ expected' = expected \o [i \in 1..n |-> Bit(v, i - 1)]
      /\ UNCHANGED <<stage, damaged, bit_reader>>

\* The items of write_uint_at(): 0 is the item of bit_pos, and touched the last
\* one.  The lower bits of the first are lost if the number ends in it; if not
\* they are taken from it or, in another order of evaluation, from the next one.
Patched(bit_pos, v, n, touched) ==
  LET first == bit_pos \div ElemBits
      bits == bit_pos % ElemBits
      b == ElemBits - bits
      left == n - b - (touched - 1) * ElemBits
      item(i) == out[first + i + 1]
      whole(i) == Item(v \div Pow2[b + (i - 1) * ElemBits])
      last == (item(touched) \div Pow2[left]) * Pow2[left] + v \div Pow2[n - left]
  IN  IF touched = 0
      THEN {[out EXCEPT ![first + 1] =
               (item(0) \div Pow2[n + bits]) * Pow2[n + bits] + v * Pow2[bits]]}
      ELSE {[i \in DOMAIN out |->
               CASE i = first + 1 -> (low % Pow2[bits]) + Item(v * Pow2[bits])
                 [] i - first - 1 \in 1..touched - 1 -> whole(i - first - 1)
                 [] i = first + touched + 1 -> last
                 [] OTHER -> out[i]]
              : low \in {item(0), item(1)}}

\* write_uint_at(): what it touches must have been put, else anything may happen.
write_uint_at(bit_pos, v, n) ==
  LET bits == bit_pos % ElemBits
      b == ElemBits - bits
      touched == IF n < b THEN 0 ELSE 1 + Turns(n - b)
  IN  /\ stage = "write" /\ bit_pos + n <= Len(expected)
      /\ \/ /\ bit_pos \div ElemBits + touched < Len(out)
            /\ out' \in Patched(bit_pos, v, n, touched)
            /\ expected' = [i \in DOMAIN expected |->
                 IF i - 1 \in bit_pos..bit_pos + n - 1 THEN Bit(v, i - 1 - bit_pos)
                 ELSE expected[i]]
            /\ damaged' = (damaged \ bit_pos..bit_pos + n - 1) \cup bit_pos - bits..bit_pos - 1
            /\ UNCHANGED stage
         \/ /\ bit_pos \div ElemBits + touched >= Len(out)
            /\ stage' = "undefined" /\ UNCHANGED <<out, expected, damaged>>
      /\ UNCHANGED <<out_v, bits_out, bit_reader>>

\* pick_data(), and a BitBufferReader of what it returns.
pick_data ==
  /\ stage = "write"
  /\ stage' = "read"
  /\ out' = IF bits_out > 0 THEN Append(out, out_v) ELSE out
  /\ bits_out' = 0
  /\ bit_size' = Len(expected)
  /\ IF expected # <<>>
     THEN /\ items_read' = 1 /\ cur_item' = out'[1]
          /\ cur_item_bits' = IF bit_size' > ElemBits THEN ElemBits ELSE bit_size'
     ELSE UNCHANGED <<items_read, cur_item, cur_item_bits>>
  /\ UNCHANGED <<out_v, expected, damaged, reading, last_read>>

------------------------------------------------------------------------------
(* Reading                                                                 *)

\* The bits of the items taken so far that are not read yet come last.
bits_read == IF items_read * ElemBits > bit_size THEN bit_size ELSE items_read * ElemBits
ReadPos == bits_read - cur_item_bits

\* read_bits() of a number inside the current item; one bit too many is kept.
read_bits(n) ==
  /\ stage = "read" /\ reading = NotReading /\ n <= cur_item_bits
  /\ cur_item' = cur_item \div Pow2[n] /\ cur_item_bits' = cur_item_bits - n
  /\ last_read' = [pos |-> ReadPos, n |-> n, value |-> cur_item % Pow2[n + 1], threw |-> FALSE]
  /\ UNCHANGED <<stage, writer, bit_size, items_read, reading>>

\* read_bits() of a longer number: what is left of the item is its upper part.
read_bits_long(n) ==
  /\ stage = "read" /\ reading = NotReading /\ n > cur_item_bits
  /\ reading' = [n |-> n - cur_item_bits, r |-> cur_item]
  /\ last_read' = [pos |-> ReadPos, n |-> n, value |-> 0, threw |-> FALSE]
  /\ UNCHANGED <<stage, writer, bit_size, items_read, cur_item, cur_item_bits>>

\* A bitwise or of r * 2^n and a number of at most n + 1 bits.
OrShifted(r, n, low) ==
  r * Pow2[n] + (low % Pow2[n]) + (IF low >= Pow2[n] /\ r % 2 = 0 THEN Pow2[n] ELSE 0)

\* A read_item() that takes a whole item at the end of the stream, too.
MutItemBits(item) == ElemBits

\* The bits that read_item() takes from an item.
ItemBits(item) ==
  IF item * ElemBits + ElemBits <= bit_size THEN ElemBits ELSE bit_size - item * ElemBits

\* read_item(), and the loop up to the next one.
read_item ==
  LET bits == ItemBits(items_read)
      item == out[items_read + 1]
  IN  /\ stage = "read" /\ reading # NotReading /\ items_read * ElemBits < bit_size
      /\ items_read' = items_read + 1
      /\ IF reading.n > bits
         THEN /\ reading' = [n |-> reading.n - bits, r |-> OrShifted(reading.r, bits, item)]
              /\ cur_item' = item /\ cur_item_bits' = bits
              /\ UNCHANGED last_read
         ELSE /\ reading' = NotReading
              /\ cur_item' = item \div Pow2[reading.n] /\ cur_item_bits' = bits - reading.n
              /\ last_read' = [last_read EXCEPT !.value =
                   OrShifted(reading.r, reading.n, item % Pow2[reading.n + 1])]
      /\ UNCHANGED <<stage, writer, bit_size>>

\* BitStreamFinished
read_item_throws ==
  /\ stage = "read" /\ reading # NotReading /\ items_read * ElemBits >= bit_size
  /\ reading' = NotReading
  /\ last_read' = [last_read EXCEPT !.threw = TRUE]
  /\ UNCHANGED <<stage, writer, bit_size, items_read, cur_item, cur_item_bits>>

Next ==
  \/ \E n \in 0..MaxField : \E v \in 0..Pow2[n] - 1 : write_uint(v, n)
  \/ \E n \in 1..MaxField, bit_pos \in 0..MaxBits : \E v \in 0..Pow2[n] - 1 :
       write_uint_at(bit_pos, v, n)
  \/ pick_data
  \/ \E n \in 0..MaxField : read_bits(n) \/ read_bits_long(n)
  \/ read_item \/ read_item_throws

Spec == Init /\ [][Next]_vars

------------------------------------------------------------------------------
Written(p) ==
  Bit(IF p \div ElemBits < Len(out) THEN out[p \div ElemBits + 1] ELSE out_v, p % ElemBits)

\* get_bit_pos() is the number of bits written, and each of them has the value
\* given last by write_uint() or write_uint_at(), whatever items the numbers
\* straddle, except the bits below a patch in the item where it starts
\* (bit_writer.h:30-76).
WriterExact ==
  stage = "write" =>
    /\ Len(out) * ElemBits + bits_out = Len(expected)
    /\ \A p \in 0..Len(expected) - 1 : p \notin damaged => Written(p) = expected[p + 1]

\* A read throws exactly when fewer bits are left than it wants and takes no item
\* behind the last one; the lower n bits of what it returns are the n bits at its
\* position, if they lie in one item, and it moves the position behind them
\* (bit_reader.h:20-52).
ReaderExact ==
  LET first == last_read.pos
      last == last_read.pos + last_read.n - 1
  IN  stage = "read" =>
        /\ items_read <= Len(out) /\ cur_item_bits >= 0
        /\ reading = NotReading /\ last_read.n > 0 =>
             /\ last_read.threw <=> last >= bit_size
             /\ ~last_read.threw => ReadPos = last + 1
             /\ first \div ElemBits = last \div ElemBits /\ ~last_read.threw =>
                  \A p \in first..last :
                    Bit(last_read.value, p - first) =
                      Bit(out[p \div ElemBits + 1], p % ElemBits)
================================================================================
