------------------------------- MODULE Powers ---------------------------------
(***************************************************************************)
(* Powers of two: the `1 << k` of the bit streams and the inverse of       *)
(* math.log2(), in a form that a proof can unfold.                         *)
(***************************************************************************)
EXTENDS Integers

\* How many numbers fit k bits.
Pow2[k \in Nat] == IF k = 0 THEN 1 ELSE 2 * Pow2[k - 1]
===============================================================================
