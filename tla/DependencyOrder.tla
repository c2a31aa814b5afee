---------------------------- MODULE DependencyOrder ----------------------------
(***************************************************************************)
(* What order_descrs() of proto/render_all.py promises: descriptions are   *)
(* put into an order one by one, each of them once and only after          *)
(* everything that uses it, so that the reversed order defines before it   *)
(* uses.                                                                   *)
(***************************************************************************)
EXTENDS Sequences, SequencesExt

VARIABLES
  nodes,   \* the descriptions to order
  uses,    \* from a description to those it uses
  ordered  \* the order so far

Init == ordered = <<>>

\* A description comes next when none of its users is missing.
Emit ==
  \E o \in nodes \ ToSet(ordered) :
    /\ \A user \in nodes : o \in uses[user] => user \in ToSet(ordered)
    /\ ordered' = Append(ordered, o)
    /\ UNCHANGED <<nodes, uses>>

\* The complete order is taken and the next one begins; a failed call has none.
Restart ==
  /\ ordered = <<>> \/ ToSet(ordered) = nodes
  /\ ordered' = <<>>

Next == Emit \/ Restart

Spec == Init /\ [][Next]_<<nodes, uses, ordered>>
================================================================================
