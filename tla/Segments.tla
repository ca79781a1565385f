------------------------------ MODULE Segments ------------------------------
(***************************************************************************)
(* The frames Redis clients and servers give rise to, for the environments *)
(* of module Tracer: a request or reply comes in TCP segments on Ethernet. *)
(***************************************************************************)
EXTENDS Tracer

CONSTANTS
  Conns,     \* <<client, server>>, one end of each is monitored
  Requests,  \* what begins requests: [data |->, cmd |-> their name]
  Replies,   \* what begins replies
  MaxTime    \* bound on the clock

ASSUME ConnsAssumption ==
  /\ Conns \subseteq Directions
  /\ \A c \in Conns : (c[1] \in Monitored \/ c[2] \in Monitored) /\ Rev(c) \notin Conns
ASSUME MaxTimeAssumption == MaxTime \in Nat /\ 0..MaxTime \subseteq Times

VARIABLE now  \* the clock of the capturing host

\* An Ethernet, IPv4 and TCP header without options, and data.
Segment(key, data) ==
  [caplen |-> 54 + Len(data), len |-> 54 + Len(data), eth |-> EtherIP,
   ip_v |-> IPv4, ip_p |-> TCP, th_len |-> 5, key |-> key, data |-> data]

\* A bare acknowledgement.  The host that sends it captures it before the
\* network card pads it.
Padding == [i \in 1..6 |-> NUL]
Acks(key) == {<< >>} \cup IF key[1] \in Monitored THEN {} ELSE {Padding}

Capture(key, data, t) ==
  \E stale \in Stale : Deliver(Segment(key, data), t, stale)

-----------------------------------------------------------------------------
Open(c) == Rev(c) \in DOMAIN table

\* Entries have the direction of replies.  A server's array, handled where its
\* connection has no entry, is taken for a request and makes one that has not.
KeysOfReplies == DOMAIN table \subseteq {Rev(c) : c \in Conns}
=============================================================================
