------------------------------ MODULE Selection -------------------------------
(***************************************************************************)
(* What a loop picks from a sequence: SelectSeq of the Sequences module,   *)
(* in a form that a proof can unfold.                                      *)
(***************************************************************************)
EXTENDS Integers, Sequences

\* The members of a set among the elements of a sequence, in order.
Among(s, set) ==
  LET chosen[k \in 0..Len(s)] ==
        IF k = 0 THEN <<>>
        ELSE IF s[k] \in set THEN Append(chosen[k - 1], s[k]) ELSE chosen[k - 1]
  IN  chosen[Len(s)]
===============================================================================
