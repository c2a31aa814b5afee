----------------------------- MODULE MC_RefObject -----------------------------
(* RefObject for TLC.                                                      *)
EXTENDS RefObject
==============================================================================
