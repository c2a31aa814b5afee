----------------------------- MODULE MC_HolePunch -----------------------------
(* Two peers, one of them behind a NAT.                                    *)
EXTENDS HolePunch

OwnAddrs == [p \in Peers |-> IF p = "A" THEN 2 ELSE 3]
==============================================================================
