----------------------------- MODULE PacketHash -----------------------------
(***************************************************************************)
(* The chain of the port table that a frame of module Packet is looked up  *)
(* in.                                                                     *)
(***************************************************************************)
EXTENDS Packet, PortHash

\* Both lookups of pkt_recv, and the addition that may follow, search the
\* same chain, whatever the byte order: one of the first 256, since the bytes
\* are combined but never shifted.
SameChain ==
  (passes = 1 /\ handled # Nothing) =>
    /\ PORT_VHash_Calc(handled.item) = PORT_VHash_Calc(Turned(handled.item))
    /\ PORT_VHash_Calc(handled.item) \in 0..255
=============================================================================
