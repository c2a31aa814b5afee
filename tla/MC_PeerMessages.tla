---------------------------- MODULE MC_PeerMessages ----------------------------
(* PeerMessages for TLC.                                                   *)
EXTENDS PeerMessages
==============================================================================
