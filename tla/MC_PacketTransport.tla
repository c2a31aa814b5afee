-------------------------- MODULE MC_PacketTransport --------------------------
(* PacketTransport for TLC.                                                *)
EXTENDS PacketTransport
==============================================================================
