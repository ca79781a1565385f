---------------------------- MODULE RedisSession ----------------------------
(***************************************************************************)
(* The tracer of module Tracer on the wire between Redis clients and       *)
(* servers: clients send one request at a time, in one or more segments,   *)
(* and may send segments again; servers reply, in one or more segments;    *)
(* both send bare acknowledgements, which Ethernet pads to 60 bytes.  The  *)
(* tracer sees a packet when it passes, or never, if the capture loses it. *)
(*                                                                         *)
(* The clients, the servers and the capture are the environment of the     *)
(* code; the steps of the tracer are those of module Tracer.               *)
(***************************************************************************)
EXTENDS Segments

CONSTANTS
  Chunks,      \* segments of requests and replies that are not the first
  Losing,      \* whether the capture loses packets
  Closing,     \* whether connections are closed while a client waits
  TimedOut,    \* the payloads behind which pcap_next_ex may time out
  MidStream,   \* whether exchanges are under way when the tracer starts
  NoRequest    \* the client waits for nothing

ASSUME SwitchesAssumption == {Losing, Closing, MidStream} \subseteq BOOLEAN
\* A request fits what redis_cmd_parse accepts, whatever is behind it.
ASSUME RequestsAssumption ==
  \A r \in Requests :
    /\ r.data # << >>
    /\ \A s \in Stale :
         LET parsed == redis_cmd_parse(r.data \o s, Len(r.data))
         IN  parsed.ret = 0 /\ CmdString(parsed.cmd) = r.cmd

Cmds == {r.cmd : r \in Requests}

\* Everything that is sent, and libpcap may deliver all of it.
Sent == {<< >>, Padding} \cup Chunks \cup Replies \cup {r.data : r \in Requests}
ASSUME SegmentsAssumption ==
  \A c \in Conns, d \in Sent : {Segment(c, d), Segment(Rev(c), d)} \subseteq Frames
ASSUME NoRequestAssumption == NoRequest \notin [cmd : Cmds, ts : Nat]

VARIABLES
  waiting,    \* connection -> [cmd |->, ts |-> when the client was last heard]
  astray,     \* a reply was lost, or never came, since the last one captured
  requested,  \* a request was captured, and no payload of its server since
  misled      \* an array came without one, and no plain reply with one since

\* The last three are history variables: no step depends on them.
svars == <<vars, now, waiting, astray, requested, misled>>

-----------------------------------------------------------------------------
\* A frame that the loop handles, as it comes or once more after a timeout.
Requesting(c, f) == f.key = c /\ f.data \in {r.data : r \in Requests}
Answering(c, f) == f.key = Rev(c) /\ f.data # << >>
IsArray(f) == f.data[1] = Star

Witness(f) ==
  /\ requested' = [c \in Conns |-> Requesting(c, f) \/ (requested[c] /\ ~Answering(c, f))]
  /\ misled' = [c \in Conns |->
       \/ Answering(c, f) /\ IsArray(f) /\ ~requested[c]
       \/ misled[c] /\ ~(Answering(c, f) /\ ~IsArray(f) /\ requested[c])]

Catch(key, data, t) == Capture(key, data, t) /\ Witness(Segment(key, data))
Lose == Losing /\ UNCHANGED <<vars, requested, misled>>

-----------------------------------------------------------------------------
Ask(c, r, t) ==
  /\ waiting[c] = NoRequest
  /\ waiting' = [waiting EXCEPT ![c] = [cmd |-> r.cmd, ts |-> t]]
  /\ Catch(c, r.data, t) \/ Lose
  /\ UNCHANGED astray

\* More of the request, or its first segment again, or a bare
\* acknowledgement: the client is heard unless it comes without payload.
AskOn(c, data, t) ==
  /\ waiting[c] # NoRequest
  /\ data \in Acks(c) \cup Chunks \cup {r.data : r \in {q \in Requests : q.cmd = waiting[c].cmd}}
  /\ waiting' = IF data = << >> THEN waiting ELSE [waiting EXCEPT ![c].ts = t]
  /\ Catch(c, data, t) \/ Lose
  /\ UNCHANGED astray

Reply(c, data, t) ==
  /\ waiting[c] # NoRequest
  /\ waiting' = [waiting EXCEPT ![c] = NoRequest]
  /\ \/ Catch(Rev(c), data, t) /\ astray' = [astray EXCEPT ![c] = FALSE]
     \/ Lose /\ astray' = [astray EXCEPT ![c] = TRUE]

\* A client that waits gives up and closes its connection: a FIN or RST has
\* no payload.  The next connection may have the same ports.
Close(c, t) ==
  /\ Closing
  /\ waiting[c] # NoRequest
  /\ waiting' = [waiting EXCEPT ![c] = NoRequest]
  /\ astray' = [astray EXCEPT ![c] = TRUE]
  /\ Catch(c, << >>, t) \/ Lose

\* More of a reply, or, where packets are lost, its first segment again.
ReplyOn(c, data, t) ==
  /\ waiting[c] = NoRequest
  /\ Catch(Rev(c), data, t)
  /\ UNCHANGED <<waiting, astray>>

ClientAck(c, data, t) ==
  /\ waiting[c] = NoRequest
  /\ Catch(c, data, t)
  /\ UNCHANGED <<waiting, astray>>

ServerAck(c, data, t) ==
  /\ Catch(Rev(c), data, t)
  /\ UNCHANGED <<waiting, astray>>

Wire(c, t) ==
  /\ \/ \E r \in Requests : Ask(c, r, t)
     \/ \E data \in {<< >>, Padding} \cup Chunks \cup {r.data : r \in Requests} :
          AskOn(c, data, t)
     \/ \E data \in Replies : Reply(c, data, t)
     \/ Close(c, t)
     \/ \E data \in Chunks \cup (IF Losing THEN Replies ELSE {}) : ReplyOn(c, data, t)
     \/ \E data \in Acks(c) : ClientAck(c, data, t)
     \/ \E data \in Acks(Rev(c)) : ServerAck(c, data, t)
  /\ now' = t

Pcap ==
  /\ \/ cap.frame.data \in TimedOut /\ Timeout /\ Witness(cap.frame)
     \/ Fail /\ UNCHANGED <<requested, misled>>
  /\ UNCHANGED <<now, waiting, astray>>

SInit ==
  /\ Init
  /\ now = 0
  /\ waiting \in [Conns -> {NoRequest} \cup
                           IF MidStream THEN [cmd : Cmds, ts : {0}] ELSE {}]
  /\ astray = [c \in Conns |-> FALSE]
  /\ requested = [c \in Conns |-> FALSE]
  /\ misled = [c \in Conns |-> FALSE]

SNext ==
  \/ \E c \in Conns, t \in now..MaxTime : Wire(c, t)
  \/ Pcap

SSpec == SInit /\ [][SNext]_svars

-----------------------------------------------------------------------------
\* When nothing is lost, the port table is the clients' state: an entry for
\* every client that waits and no other, with the name of what it asked for
\* and the time it was last heard.
InSync ==
  /\ DOMAIN table = {Rev(c) : c \in {d \in Conns : waiting[d] # NoRequest}}
  /\ \A c \in Conns : Open(c) => table[Rev(c)] = waiting[c]

\* The log is then the ideal one.  Elapsed times are compared modulo 2^32:
\* across a wrap of the microsecond count they are printed wrong.
Log == INSTANCE LatencyLog
         WITH Times <- 0..MaxTime, Modulus <- UIntMod,
              clock <- now, asked <- waiting,
              line <- IF line = NoLine THEN NoLine
                      ELSE [conn |-> Rev(line.key), cmd |-> line.cmd,
                            took |-> line.es % UIntMod]
LogSpec == Log!LSpec

\* pkt_recv cannot tell which end is the server.  An entry the wrong way round
\* is always that of an array reply whose request the tracer had not heard, and
\* has not been set right since by a request and a plain reply that it heard.
RolesRight == \A c \in Conns : c \in DOMAIN table => misled[c]

\* A stale entry is that of a reply that was lost or never came: while there
\* was none since the last reply captured, an open entry is that of a client
\* that waits, for what it asked.  Nothing else evicts entries.
StaleOnlyAfterLoss ==
  \A c \in Conns : Open(c) /\ ~astray[c] =>
    waiting[c] # NoRequest /\ table[Rev(c)].cmd = waiting[c].cmd

\* So a line that is wrong about what is answered has one of two causes.  One
\* that takes what a client sends for the answer follows an array reply whose
\* request was not heard.  One that has the name of an earlier request follows
\* a reply that was lost or never came.
MisnamedOnlyAfterLoss ==
  [][\A c \in Conns :
       LET printed == DOMAIN table \ DOMAIN table'
       IN  /\ c \in printed => misled[c]
           /\ Rev(c) \in printed /\ ~astray[c] =>
                /\ waiting[c] # NoRequest
                /\ line'.key = Rev(c) /\ line'.cmd = waiting[c].cmd]_svars

\* main.c:206 says of the answer 0 "Timeout elapsed": nothing is handled.
TimeoutSkipped ==
  [][(Timeout /\ UNCHANGED <<now, waiting, astray>>) =>
       table' = table /\ line' = NoLine]_svars
=============================================================================
