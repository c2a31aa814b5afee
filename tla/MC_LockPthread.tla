---------------------------- MODULE MC_LockPthread ----------------------------
(* LockObjectPthread for TLC.                                              *)
EXTENDS LockObjectPthread
==============================================================================
