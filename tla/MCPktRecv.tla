----------------------------- MODULE MCPktRecv -----------------------------
(***************************************************************************)
(* A monitored server and two clients; the two directions of a connection  *)
(* have the same bucket (PortHash), here the connections too.  A frame for *)
(* each way through pkt_recv.                                              *)
(***************************************************************************)
EXTENDS PktRecv, RedisCmd, TLC

CONSTANTS S, C, D

MCEndpoints == {S, C, D}
MCKeys == MCEndpoints \X MCEndpoints
MCHash == [k \in MCKeys |-> IF D \in {k[1], k[2]} /\ C \in {k[1], k[2]} THEN 1 ELSE 0]
MCZero == [ts |-> 0, cmd |-> << >>]
MCVals == {MCZero}
MCUpdateAnswers == [m \in Ids |-> {TRUE}]
MCCopyAnswers == [m \in Ids |-> {0}]
AddressSymmetry == Permutations(Nodes)

CRLF == <<CR, LF>>
Get == <<Star, 49>> \o CRLF \o <<Dollar, 49>> \o CRLF \o <<71>> \o CRLF
Simple == <<Plus>> \o CRLF

Segment(key, data) ==
  [caplen |-> 54 + Len(data), len |-> 54 + Len(data), eth |-> 2048,
   ip_v |-> 4, ip_p |-> 6, th_len |-> 5, key |-> key, data |-> data]

MCFrames ==
  {Segment(<<C, S>>, Get), Segment(<<S, C>>, Simple), Segment(<<S, C>>, Get),
   Segment(<<D, S>>, Get), Segment(<<S, D>>, Simple), Segment(<<C, S>>, << >>)}
MCStale == {<<0, 0>>}
MCTimes == 1..2
=============================================================================
