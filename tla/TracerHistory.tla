--------------------------- MODULE TracerHistory ---------------------------
(***************************************************************************)
(* The tracer with a history variable: the directions and times of the     *)
(* frames pkt_recv has accepted so far.  The history is not state of the   *)
(* code; it says where the two times of a printed line come from.          *)
(***************************************************************************)
EXTENDS Tracer

VARIABLE heard  \* {<<direction, time>>} of the accepted frames

hvars == <<vars, heard>>

HInit == Init /\ heard = {}

HDeliver(f, ts, stale) ==
  /\ Deliver(f, ts, stale)
  /\ heard' = IF Accepted(f) THEN heard \cup {<<f.key, ts>>} ELSE heard

HNext ==
  \/ \E f \in Frames, ts \in Times, stale \in Stale : HDeliver(f, ts, stale)
  \/ (Timeout \/ Fail) /\ UNCHANGED heard

HSpec == HInit /\ [][HNext]_hvars

\* Nothing is invented: a printed line pairs a frame of one direction of a
\* monitored connection with an earlier-handled frame of the opposite
\* direction, at the times these were captured, and so does every entry that
\* still waits for its answer.
PairsOpposite ==
  /\ \A k \in DOMAIN table : <<Rev(k), table[k].ts>> \in heard
  /\ line # NoLine =>
       /\ <<line.key, line.answered>> \in heard
       /\ <<Rev(line.key), line.asked>> \in heard
=============================================================================
