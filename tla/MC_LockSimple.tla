---------------------------- MODULE MC_LockSimple ----------------------------
(* LockObjectSimple for TLC.                                               *)
EXTENDS LockObjectSimple
==============================================================================
