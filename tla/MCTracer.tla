------------------------------ MODULE MCTracer ------------------------------
(***************************************************************************)
(* The tracer before arbitrary traffic: one monitored server, two clients, *)
(* and a host pair that is not monitored.                                  *)
(***************************************************************************)
EXTENDS TracerHistory, FiniteSets

CONSTANTS S, C, D, \* the server, two clients
          MaxHeard \* bound on the accepted frames of a behaviour

MCEndpoints == {S, C, D}
MCMonitored == {S}

CRLF == <<CR, LF>>
\* "*1 $1 G" and "*1 $1 P", an array answer "*1 $1 v", and "+"
Get == <<Star, 49>> \o CRLF \o <<Dollar, 49>> \o CRLF \o <<71>> \o CRLF
Put2 == <<Star, 49>> \o CRLF \o <<Dollar, 49>> \o CRLF \o <<80>> \o CRLF
Simple == <<Plus>> \o CRLF

Segment(key, data) ==
  [caplen |-> 54 + Len(data), len |-> 54 + Len(data), eth |-> EtherIP,
   ip_v |-> IPv4, ip_p |-> TCP, th_len |-> 5, key |-> key, data |-> data]

\* A bare ACK padded to the 60 bytes of the smallest Ethernet frame
Padded(key) == Segment(key, <<0, 0, 0, 0, 0, 0>>)

MCFrames ==
  {Segment(<<C, S>>, Get), Segment(<<C, S>>, Put2), Segment(<<D, S>>, Get),
   Segment(<<S, C>>, Simple), Segment(<<S, C>>, Get), Segment(<<S, D>>, Simple),
   Padded(<<C, S>>),
   Segment(<<C, D>>, Get),                              \* not monitored
   Segment(<<S, C>>, << >>),                            \* bare ACK
   [Segment(<<C, S>>, Get) EXCEPT !.ip_p = 17],         \* UDP
   [Segment(<<C, S>>, Get) EXCEPT !.ip_v = 6],
   [Segment(<<C, S>>, Get) EXCEPT !.eth = 2054],        \* ARP
   [Segment(<<C, S>>, << >>) EXCEPT !.caplen = 42, !.len = 42]}

MCTimes == 0..3
MCStale == {[i \in 1..Behind |-> NUL]}

MCNext == HNext /\ Cardinality(heard') <= MaxHeard
MCSpec == HInit /\ [][MCNext]_hvars
=============================================================================
