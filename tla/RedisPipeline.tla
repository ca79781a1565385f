--------------------------- MODULE RedisPipeline ---------------------------
(***************************************************************************)
(* The tracer of module Tracer on the wire between a server and clients    *)
(* that pipeline: a client sends requests without waiting for replies, one *)
(* or more to a segment; the server replies in their order, one or more to *)
(* a segment.  Nothing is lost.                                            *)
(*                                                                         *)
(* The tracer keeps one entry a connection, so that its log cannot be that *)
(* of module LatencyLog.  The properties say what it is.                   *)
(***************************************************************************)
EXTENDS Segments, SequencesExt

CONSTANTS
  MaxPending,  \* bound on the requests a client has under way
  TimingOut    \* whether pcap_next_ex times out

\* What a client sends in one segment: a request or two.
Batches == {<<r>> : r \in Requests} \cup {<<r, q>> : r, q \in Requests}
DataOf(batch) == IF Len(batch) = 1 THEN batch[1].data ELSE batch[1].data \o batch[2].data

\* libpcap may deliver all that is sent.
ASSUME BatchFramesAssumption ==
  \A c \in Conns : /\ \A batch \in Batches : Segment(c, DataOf(batch)) \in Frames
                   /\ \A reply \in Replies : Segment(Rev(c), reply) \in Frames
\* redis_cmd_parse finds the first request of a segment.
ASSUME BatchesAssumption ==
  \A batch \in Batches, s \in Stale :
    LET parsed == redis_cmd_parse(DataOf(batch) \o s, Len(DataOf(batch)))
    IN  /\ DataOf(batch) # << >>
        /\ parsed.ret = 0 /\ CmdString(parsed.cmd) = batch[1].cmd
ASSUME BoundsAssumption == MaxPending \in Nat /\ TimingOut \in BOOLEAN

VARIABLES
  pending,  \* connection -> its requests under way: [cmd |->, ts |->]
  since     \* connection -> how many of them were sent since the last reply

pvars == <<vars, now, pending, since>>

-----------------------------------------------------------------------------
Send(c, batch, t) ==
  /\ Len(pending[c]) + Len(batch) <= MaxPending
  /\ pending' = [pending EXCEPT ![c] =
                   @ \o [i \in DOMAIN batch |-> [cmd |-> batch[i].cmd, ts |-> t]]]
  /\ since' = [since EXCEPT ![c] = @ + Len(batch)]
  /\ Capture(c, DataOf(batch), t)

\* The replies to the first n requests, in one segment.
PReply(c, n, reply, t) ==
  /\ n <= Len(pending[c])
  /\ pending' = [pending EXCEPT ![c] = SubSeq(@, n + 1, Len(@))]
  /\ since' = [since EXCEPT ![c] = 0]
  /\ Capture(Rev(c), reply, t)

PWire(c, t) ==
  /\ \/ \E batch \in Batches : Send(c, batch, t)
     \/ \E n \in 1..MaxPending, reply \in Replies : PReply(c, n, reply, t)
  /\ now' = t

PPcap ==
  /\ (TimingOut /\ Timeout) \/ Fail
  /\ UNCHANGED <<now, pending, since>>

PInit ==
  /\ Init
  /\ now = 0
  /\ pending = [c \in Conns |-> << >>]
  /\ since = [c \in Conns |-> 0]

PNext ==
  \/ \E c \in Conns, t \in now..MaxTime : PWire(c, t)
  \/ PPcap

PSpec == PInit /\ [][PNext]_pvars

-----------------------------------------------------------------------------
OldestSince(c) == pending[c][Len(pending[c]) - since[c] + 1]

\* A connection is open while requests have been sent since the last reply,
\* not while any are under way: its entry has the name of the first of these
\* and the time of the last.  The others leave no trace.
OneEntryABurst ==
  \A c \in Conns :
    IF since[c] = 0 THEN ~Open(c)
    ELSE Open(c) /\ table[Rev(c)] = [cmd |-> OldestSince(c).cmd, ts |-> Last(pending[c]).ts]

\* What a line says of a reply.  It never says more time than the client has
\* waited for it, and names a request that is under way, if not always the
\* one that is answered; the name is right if nothing is under way from
\* before the last reply, and all of it if nothing else is under way.
LineOfPipeline ==
  [][\A c \in Conns : (line' # NoLine /\ line'.key = Rev(c) /\ now' < UIntMod) =>
       /\ line'.es <= now' - Head(pending[c]).ts
       /\ \E i \in DOMAIN pending[c] : pending[c][i].cmd = line'.cmd
       /\ since[c] = Len(pending[c]) => line'.cmd = Head(pending[c]).cmd
       /\ Len(pending[c]) = 1 => line'.es = now' - Head(pending[c]).ts]_pvars
=============================================================================
