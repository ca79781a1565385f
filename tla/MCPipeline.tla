----------------------------- MODULE MCPipeline -----------------------------
(***************************************************************************)
(* Two clients, C and D, of the monitored server S, with two commands and  *)
(* up to three requests under way.                                         *)
(***************************************************************************)
EXTENDS RedisPipeline

CONSTANTS S, C, D

MCEndpoints == {S, C, D}
MCMonitored == {S}
TwoClients == {<<C, S>>, <<D, S>>}

CRLF == <<CR, LF>>
Encode(name) == <<Star, 49>> \o CRLF \o <<Dollar, 49>> \o CRLF \o <<name>> \o CRLF
MCRequests == {[cmd |-> <<n>>, data |-> Encode(n)] : n \in {71, 83}}
MCReplies == {<<Plus>> \o CRLF}

MCTimes == 0..MaxTime
MCStale == {<<NUL, NUL>>}
MCFrames ==
  {Segment(k, d) : k \in TwoClients \cup {Rev(c) : c \in TwoClients},
                   d \in MCReplies \cup {r.data : r \in MCRequests}
                         \cup {r.data \o q.data : r, q \in MCRequests}}
=============================================================================
