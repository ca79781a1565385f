------------------------------- MODULE Tracer -------------------------------
(***************************************************************************)
(* The tracer: the capture loop of main() and the packet handler pkt_recv, *)
(* one thread, in front of libpcap.                                        *)
(*                                                                         *)
(* The loop asks libpcap for the next frame.  An answer is a frame, a      *)
(* timeout or an error.  header and pkt_data point at memory of libpcap    *)
(* that a timeout leaves as it was, and the loop does not tell a timeout   *)
(* from a frame: it handles what that memory still holds.                  *)
(*                                                                         *)
(* pkt_recv looks the connection of the frame up in the port table.  A     *)
(* frame in the direction of a key answers the request recorded under it:  *)
(* it is printed and the entry deleted.  A frame in the other direction    *)
(* restarts the clock of the entry.  Otherwise a payload that parses as a  *)
(* request makes an entry, under the direction its answer will have.       *)
(*                                                                         *)
(* Here any frame may come at any time with any time stamp; RedisSession   *)
(* restricts them to what clients and servers send.                        *)
(***************************************************************************)
EXTENDS RedisCmd, PortTable

CONSTANTS
  Endpoints,      \* (address, port) pairs of the hosts on the wire
  Monitored,      \* those whose address is the one given with -a
  Frames,         \* the frames libpcap may deliver
  Times,          \* capture times, in microseconds
  Stale,          \* what the bytes behind a payload may hold
  MallocMayFail,  \* whether malloc may return NULL
  UIntMod,        \* 2^32: the number of values of an unsigned int
  NoLine          \* "nothing was printed"

\* 2^64: unsigned long has twice the bits of unsigned int (x86_64, Makefile)
ULongMod == UIntMod * UIntMod

Directions == Endpoints \X Endpoints

\* What the guards of the loop and of pparse_get_dataptr look at.  The IP
\* header is taken to have no options: the code skips 20 bytes regardless.
EtherIP == 2048
IPv4 == 4
TCP == 6
MinCaplen == 54
PayloadOffset(f) == 14 + 20 + 4 * f.th_len

\* What libpcap holds before the first frame: a zeroed header.
NoFrame == [caplen |-> 0, len |-> 0, eth |-> 0, ip_v |-> 0, ip_p |-> 0,
            th_len |-> 0, key |-> << >>, data |-> << >>]

HasPayload(f) ==
  /\ f.ip_v = IPv4
  /\ f.ip_p = TCP
  /\ PayloadOffset(f) < f.len

ASSUME EndpointsAssumption == Monitored \subseteq Endpoints
ASSUME TimesAssumption == Times \subseteq Nat
ASSUME UIntModAssumption == UIntMod \in Nat \ {0}
ASSUME MallocAssumption == MallocMayFail \in BOOLEAN
ASSUME StaleAssumption == \A s \in Stale : s \in [1..Behind -> Byte]
\* Every frame is as long as its header says; data is what lies behind its
\* TCP header.
ASSUME FramesAssumption ==
  \A f \in Frames :
    /\ f.caplen \in Nat /\ f.len \in Nat /\ f.th_len \in Nat
    /\ f.eth \in Nat /\ f.ip_v \in Nat /\ f.ip_p \in Nat
    /\ f.key \in Directions
    /\ f.data \in Seq(Byte)
    /\ HasPayload(f) => Len(f.data) = f.len - PayloadOffset(f)

Item == [ts : Nat, cmd : Seq(Byte)]
Line == [cmd : Seq(Byte), r : Nat, a : Nat, es : Nat,
         key : Directions, asked : Nat, answered : Nat]

ASSUME NoLineAssumption == NoLine \notin Line

VARIABLES
  running,  \* main has not returned
  cap,      \* header and pkt_data: the frame, its time, the payload bytes
  table,    \* the port table: answering direction -> [ts, cmd]
  line      \* what the latest pass of the loop printed, or NoLine

vars == <<running, cap, table, line>>

-----------------------------------------------------------------------------
(***************************************************************************)
(* The printed numbers.  sec*1000000+u_sec is computed in unsigned int and *)
(* then widened to unsigned long; the difference is one of unsigned longs. *)
(***************************************************************************)
Micros(ts) == ts % UIntMod
\* Mistakes: a signed difference; the operands swapped.
ElapsedSigned(q, a) == Micros(a) - Micros(q)
ElapsedSwapped(q, a) == (Micros(q) - Micros(a)) % ULongMod
Elapsed(q, a) == (Micros(a) - Micros(q)) % ULongMod

\* key, asked and answered are not printed: they say what was paired.
Report(key, item, ts) ==
  [cmd |-> item.cmd, r |-> Micros(item.ts), a |-> Micros(ts),
   es |-> Elapsed(item.ts, ts),
   key |-> key, asked |-> item.ts, answered |-> ts]

-----------------------------------------------------------------------------
(***************************************************************************)
(* One pass of the loop over frame f, captured at ts, its payload in buf.  *)
(***************************************************************************)
\* Mistake: no test of the addresses.
AcceptedAnywhere(f) == f.caplen >= MinCaplen /\ f.eth = EtherIP /\ HasPayload(f)
Accepted(f) ==
  /\ f.caplen >= MinCaplen
  /\ f.eth = EtherIP
  /\ HasPayload(f)
  /\ f.key[1] \in Monitored \/ f.key[2] \in Monitored

Skip(f, ts, buf) ==
  /\ ~Accepted(f)
  /\ line' = NoLine
  /\ cap' = [frame |-> f, ts |-> ts, buf |-> buf]
  /\ UNCHANGED table

\* Mistakes: the entry is not deleted; the time is that of the frame before.
AnswerKeeps(f, ts, buf) ==
  /\ Accepted(f)
  /\ f.key \in DOMAIN table
  /\ line' = Report(f.key, table[f.key], ts)
  /\ cap' = [frame |-> f, ts |-> ts, buf |-> buf]
  /\ UNCHANGED table

AnswerEarly(f, ts, buf) ==
  /\ Accepted(f)
  /\ f.key \in DOMAIN table
  /\ line' = Report(f.key, table[f.key], cap.ts)
  /\ table' = Without(table, f.key)
  /\ cap' = [frame |-> f, ts |-> ts, buf |-> buf]

Answer(f, ts, buf) ==
  /\ Accepted(f)
  /\ f.key \in DOMAIN table
  /\ line' = Report(f.key, table[f.key], ts)
  /\ table' = Without(table, f.key)
  /\ cap' = [frame |-> f, ts |-> ts, buf |-> buf]

\* Mistakes: the name is cleared with the time; the time is not set.
AgainCleared(f, ts, buf) ==
  /\ Accepted(f)
  /\ f.key \notin DOMAIN table
  /\ Rev(f.key) \in DOMAIN table
  /\ table' = [table EXCEPT ![Rev(f.key)] = [ts |-> ts, cmd |-> << >>]]
  /\ line' = NoLine
  /\ cap' = [frame |-> f, ts |-> ts, buf |-> buf]

AgainNothing(f, ts, buf) ==
  /\ Accepted(f)
  /\ f.key \notin DOMAIN table
  /\ Rev(f.key) \in DOMAIN table
  /\ line' = NoLine
  /\ cap' = [frame |-> f, ts |-> ts, buf |-> buf]
  /\ UNCHANGED table

Again(f, ts, buf) ==
  /\ Accepted(f)
  /\ f.key \notin DOMAIN table
  /\ Rev(f.key) \in DOMAIN table
  /\ table' = [table EXCEPT ![Rev(f.key)].ts = ts]
  /\ line' = NoLine
  /\ cap' = [frame |-> f, ts |-> ts, buf |-> buf]

\* Mistakes: the direction of the frame is not looked up; the entry has the
\* direction of the request.
RequestUnlooked(f, ts, buf) ==
  /\ Accepted(f)
  /\ Rev(f.key) \notin DOMAIN table
  /\ \E parsed \in {redis_cmd_parse(buf, Len(f.data))} :
        /\ parsed.ret = 0
        /\ line' = NoLine
        /\ cap' = [frame |-> f, ts |-> ts, buf |-> parsed.buf]
        /\ table' = Put(table, Rev(f.key), [ts |-> ts, cmd |-> CmdString(parsed.cmd)])

RequestUnreversed(f, ts, buf) ==
  /\ Accepted(f)
  /\ f.key \notin DOMAIN table
  /\ Rev(f.key) \notin DOMAIN table
  /\ \E parsed \in {redis_cmd_parse(buf, Len(f.data))} :
        /\ parsed.ret = 0
        /\ line' = NoLine
        /\ cap' = [frame |-> f, ts |-> ts, buf |-> parsed.buf]
        /\ table' = Put(table, f.key, [ts |-> ts, cmd |-> CmdString(parsed.cmd)])

\* Neither direction is in the table: the payload may be a request.
Request(f, ts, buf) ==
  /\ Accepted(f)
  /\ f.key \notin DOMAIN table
  /\ Rev(f.key) \notin DOMAIN table
  /\ \E parsed \in {redis_cmd_parse(buf, Len(f.data))} :
        /\ line' = NoLine
        /\ cap' = [frame |-> f, ts |-> ts, buf |-> parsed.buf]
        /\ \/ /\ parsed.ret = 0
              /\ table' = Put(table, Rev(f.key),
                              [ts |-> ts, cmd |-> CmdString(parsed.cmd)])
           \/ /\ parsed.ret = 0
              /\ MallocMayFail
              /\ UNCHANGED table
           \/ /\ parsed.ret # 0
              /\ UNCHANGED table

pkt_recv(f, ts, buf) ==
  \/ Skip(f, ts, buf)
  \/ Answer(f, ts, buf)
  \/ Again(f, ts, buf)
  \/ Request(f, ts, buf)

-----------------------------------------------------------------------------
(***************************************************************************)
(* The answers of pcap_next_ex.                                            *)
(***************************************************************************)
\* 1: a frame.
Deliver(f, ts, stale) ==
  /\ running
  /\ pkt_recv(f, ts, f.data \o stale)
  /\ UNCHANGED running

\* Mistake: the frame is given the time of the timeout.
TimeoutRestamped ==
  /\ running
  /\ pkt_recv(cap.frame, cap.ts + 1, cap.buf)
  /\ UNCHANGED running

\* 0: nothing came within 100 ms.  "if(res = 0)" is never true: the loop
\* goes on with what the pointers designate.
Timeout ==
  /\ running
  /\ pkt_recv(cap.frame, cap.ts, cap.buf)
  /\ UNCHANGED running

\* Negative, PCAP_ERROR to PCAP_ERROR_IFACE_NOT_UP: the loop ends and main
\* returns, whichever it is.
PcapErrors == -9..-1
LoopGoesOn(res) == res >= 0

Fail ==
  /\ running
  /\ \E res \in PcapErrors : ~LoopGoesOn(res)
  /\ running' = FALSE
  /\ line' = NoLine
  /\ UNCHANGED <<cap, table>>

Init ==
  /\ running = TRUE
  /\ cap = [frame |-> NoFrame, ts |-> 0, buf |-> << >>]
  /\ table = << >>
  /\ line = NoLine

Next ==
  \/ \E f \in Frames, ts \in Times, stale \in Stale : Deliver(f, ts, stale)
  \/ Timeout
  \/ Fail

Spec == Init /\ [][Next]_vars

-----------------------------------------------------------------------------
\* The type invariant.  Items carry the time and the name pkt_recv stores.
TypeOK ==
  /\ running \in BOOLEAN
  /\ cap.frame \in Frames \cup {NoFrame}
  /\ cap.ts \in Nat
  /\ cap.frame # NoFrame =>
       cap.buf \in [1..(Len(cap.frame.data) + Behind) -> Byte]
  /\ DOMAIN table \subseteq Directions
  /\ \A k \in DOMAIN table : table[k] \in Item
  /\ line \in Line \cup {NoLine}

\* A connection is recorded in one direction at most: whatever frames come,
\* in whatever order, repeated by timeouts or not, the two lookups of
\* pkt_recv keep an exchange from being open both ways, where a frame of
\* either side would be taken for an answer.
OneDirection ==
  \A k \in DOMAIN table : Rev(k) \in DOMAIN table => Rev(k) = k

\* Only connections of the monitored address are recorded.
MonitoredOnly ==
  \A k \in DOMAIN table : k[1] \in Monitored \/ k[2] \in Monitored

\* The printed elapsed time, computed from two wrapped 32-bit counts in 64
\* bits, is right modulo 2^32, and is exactly the time between the two
\* packets when the microsecond count did not wrap between them and the
\* clock was not set back.  (Across a wrap it is off by 2^64 - 2^32.)
ElapsedRight ==
  line # NoLine =>
    LET d == line.answered - line.asked
    IN  /\ line.es % UIntMod = d % UIntMod
        /\ line.asked \div UIntMod = line.answered \div UIntMod /\ d >= 0
             => line.es = d

\* An entry keeps the name of the command that made it for as long as it
\* lives, it leaves the table only by being printed, and a printed line
\* takes its entry, with its name and its latest time, out of the table.
EntryLife ==
  [][/\ \A k \in DOMAIN table \ DOMAIN table' :
          line' # NoLine /\ line'.key = k
     /\ \A k \in DOMAIN table \cap DOMAIN table' :
          table'[k].cmd = table[k].cmd
     /\ line' # NoLine =>
          /\ line'.key \in DOMAIN table \ DOMAIN table'
          /\ line'.cmd = table[line'.key].cmd
          /\ line'.asked = table[line'.key].ts]_vars
=============================================================================
