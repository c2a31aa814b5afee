------------------------------- MODULE Checksum -------------------------------
(***************************************************************************)
(* ChecksumCalculator of udp4.h: the Internet checksum that send_packet()  *)
(* computes over the pseudo header, the UDP header and the data.           *)
(***************************************************************************)
EXTENDS Integers, Sequences

CONSTANTS
  Base,      \* 2^16: a word is in 0 .. Base - 1
  ByteBase,  \* 2^8
  MaxWords,  \* the longest piece, in whole words
  MaxPieces  \* the most calls of add()

VARIABLES
  sum,       \* of the calculator; far from 2^32 for what fits a packet
  pieces,    \* calls of add()
  total,     \* the sum of the words that were to be added
  overread,  \* a piece of less than two bytes made add() read behind it
  check      \* what finish() returned, or Adding or Folding

vars == <<sum, pieces, total, overread, check>>

Adding == -1
Folding == -2

Init == sum = 0 /\ pieces = 0 /\ total = 0 /\ overread = FALSE /\ check = Adding

Words == 0..Base - 1
SumOf(words) == LET s[i \in 0..Len(words)] == IF i = 0 THEN 0 ELSE s[i - 1] + words[i]
                IN  s[Len(words)]

\* A piece of whole words and, for an odd length, a last byte.  The loop tests its
\* end after it has added a word: of a piece without one it adds the word that is
\* read there, and the last byte is read behind that.
add(words, last) ==
  /\ check = Adding /\ pieces < MaxPieces
  /\ pieces' = pieces + 1
  /\ total' = total + SumOf(words) + SumOf(last)
  /\ IF words # <<>>
     THEN sum' = sum + SumOf(words) + SumOf(last) /\ UNCHANGED overread
     ELSE /\ overread' = TRUE
          /\ \E w \in Words, b \in 0..ByteBase - 1 :
               sum' = sum + w + (IF last = <<>> THEN 0 ELSE b)
  /\ UNCHANGED check

finish ==
  /\ check = Adding
  /\ check' = Folding
  /\ UNCHANGED <<sum, pieces, total, overread>>

\* One turn of the loop of finish().
fold ==
  /\ check = Folding /\ sum > Base - 1
  /\ sum' = (sum \div Base) + (sum % Base)
  /\ UNCHANGED <<pieces, total, overread, check>>

\* A return that does not wait for the last carry.
MutReturn ==
  /\ check = Folding
  /\ check' = Base - 1 - (sum % Base)
  /\ UNCHANGED <<sum, pieces, total, overread>>

\* finish() returns the complement of what is left.
finish_returns ==
  /\ check = Folding /\ sum <= Base - 1
  /\ check' = Base - 1 - sum
  /\ UNCHANGED <<sum, pieces, total, overread>>

next_packet ==
  /\ check \in Words
  /\ sum' = 0 /\ pieces' = 0 /\ total' = 0 /\ overread' = FALSE /\ check' = Adding

Next ==
  \/ \E n \in 0..MaxWords, m \in 0..1 :
       \E words \in [1..n -> Words], last \in [1..m -> 0..ByteBase - 1] : add(words, last)
  \/ finish \/ fold \/ finish_returns \/ next_packet

Spec == Init /\ [][Next]_vars

------------------------------------------------------------------------------
\* Unless a piece of less than two bytes was added, a receiver that adds all words
\* and the checksum in ones' complement gets the word with all bits set, however
\* many carries the sum had (udp4.h:24-41, 203-213).
ChecksumVerifies ==
  check \in Words /\ ~overread =>
    /\ (total + check) % (Base - 1) = 0 /\ total + check > 0
================================================================================
