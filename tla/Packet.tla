------------------------------- MODULE Packet -------------------------------
(***************************************************************************)
(* A captured frame as bytes, from the guards of the loop and              *)
(* pparse_get_dataptr, with its pointers to ETHDR, IP_HDR and TCP_HDR, to  *)
(* redis_cmd_parse, which overwrites what it goes by; and the same frame   *)
(* once more, as after a timeout.  The port table has no entry for it and  *)
(* is given none (malloc fails), so that it is parsed each time.           *)
(*                                                                         *)
(* Module Tracer has a frame as a record of what these functions read;     *)
(* AsTracerSees says that it may.                                          *)
(*                                                                         *)
(* A number of 16 or 32 bits is the sequence of its bytes as they lie in   *)
(* memory on a little-endian machine, lowest first.                        *)
(***************************************************************************)
EXTENDS RedisGrammar, SequencesExt

CONSTANTS
  Packets,      \* what hosts send, see Bytes; load.args is the command load.data
                \* is the encoding of, load.whole whether it is all of it
  MonitoredIp,  \* pktdump->ip, highest byte first
  MaxPasses,    \* bound on how often a frame is handled
  Nothing       \* the frame was passed over

ASSUME PassesAssumption == MaxPasses \in Nat
ASSUME MonitoredIpAssumption == MonitoredIp \in [1..4 -> Byte]

VARIABLES
  pkt,       \* the packet that was captured
  pkt_data,  \* its bytes as they are now, and the two behind it
  passes,    \* how often it has been handled
  reach,     \* the highest offset the headers were read up to
  handled    \* what the latest pass handed on: Nothing or see Handle

pvars == <<pkt, pkt_data, passes, reach, handled>>

-----------------------------------------------------------------------------
\* A packet on the wire: numbers highest byte first, header lengths in words.
\* An IP header of more than five words has options.  hops stands for the
\* bytes nobody looks at.
Bytes(p) ==
  LET fill(n) == [i \in 1..n |-> p.hops]
  IN  fill(12) \o p.eth
        \o <<16 * p.ip_v + p.ip_hl>> \o fill(8) \o <<p.ip_p>> \o fill(2) \o p.src \o p.dst
        \o fill(4 * (p.ip_hl - 5))
        \o p.sport \o p.dport \o fill(8) \o <<16 * p.th_len>> \o fill(7)
        \o fill(4 * (p.th_len - 5)) \o p.load.data

\* Fields fit their widths; some packets are cut.
ASSUME PacketsAssumption ==
  \A p \in Packets :
    /\ {p.eth, p.sport, p.dport, p.behind} \subseteq [1..2 -> Byte]
    /\ {p.src, p.dst} \subseteq [1..4 -> Byte]
    /\ p.ip_v \in 0..15 /\ {p.ip_hl, p.th_len} \subseteq 5..15
    /\ {p.ip_p, p.hops} \subseteq Byte
    /\ p.load.data \in Seq(Byte)
    /\ p.cut \in 0..Len(Bytes(p))

\* caplen and len: packets are shorter than what is captured of each.
Caplen == Len(pkt_data) - Behind

\* Further on there is anything; ReadsInside says that it is not read.
At(offset) == IF offset < Len(pkt_data) THEN pkt_data[offset + 1] ELSE NUL
Field(offset, width) == [i \in 1..width |-> At(offset + i - 1)]
High(offset) == At(offset) \div 16

\* pkt_swapu16, pkt_swapu32 and ntohs: of a number in memory, its bytes
\* highest first are those of the number that is meant, lowest first.
pkt_swapu(n) == Reverse(n)

ETH_TYPE == 12
IP_HDR == 14
ip_p == IP_HDR + 9
ip_src == IP_HDR + 12
ip_dst == IP_HDR + 16
TCP_HDR == IP_HDR + 20  \* whatever ip_hl says
\* Mistake: the field behind it.
th_behind == TCP_HDR + 2
th_sport == TCP_HDR
th_dport == TCP_HDR + 2
th_len == TCP_HDR + 12

\* Mistake: the TCP header is forgotten.
HasIPHeader == Caplen >= 34
HasHeaders == Caplen >= 54
IsIP == pkt_swapu(Field(ETH_TYPE, 2)) = <<0, 8>>
IsTCP == High(IP_HDR) = 4 /\ At(ip_p) = 6

\* iOffset when the TCP header has been passed.
Payload == TCP_HDR + 4 * High(th_len)

\* The fields of stDataDesc, in a PORT_ITEM.
stPortItem ==
  [sport |-> pkt_swapu(Field(th_sport, 2)), dport |-> pkt_swapu(Field(th_dport, 2)),
   sip |-> pkt_swapu(Field(ip_src, 4)), dip |-> pkt_swapu(Field(ip_dst, 4))]

\* pktdump->ip is htonl of a number in network order: lowest byte first too.
Monitors(ip) == ip = Reverse(MonitoredIp)

\* en_DIR
en_IN == 1
en_OUT == 2

\* What a pass hands on.
PortItem == [sport : [1..2 -> Byte], dport : [1..2 -> Byte],
             sip : [1..4 -> Byte], dip : [1..4 -> Byte]]
Handed == [item : PortItem, usflag : {en_IN, en_OUT}, data : Seq(Byte),
           ret : {0, -1}, cmd : Seq(Byte)]
ASSUME NothingAssumption == Nothing \notin Handed

\* Mistake: that of the receiver.
DirectionOfReceiver == IF Monitors(stPortItem.dip) THEN en_OUT ELSE en_IN
Direction == IF Monitors(stPortItem.sip) THEN en_OUT ELSE en_IN

-----------------------------------------------------------------------------
Init ==
  /\ pkt \in Packets
  /\ pkt_data = SubSeq(Bytes(pkt), 1, Len(Bytes(pkt)) - pkt.cut) \o pkt.behind
  /\ passes = 0
  /\ reach = 0
  /\ handled = Nothing

Reads(upto) == reach' = IF upto > reach THEN upto ELSE reach
Discard(upto) == Reads(upto) /\ handled' = Nothing /\ UNCHANGED pkt_data

TooSmall == ~HasHeaders /\ Discard(0)
NotIP == HasHeaders /\ ~IsIP /\ Discard(14)
NotTCP == HasHeaders /\ IsIP /\ ~IsTCP /\ Discard(ip_p + 1)
NoPayload == HasHeaders /\ IsIP /\ IsTCP /\ Payload >= Caplen /\ Discard(th_len + 1)

HasPayload == HasHeaders /\ IsIP /\ IsTCP /\ Payload < Caplen

Foreign ==
  /\ HasPayload
  /\ ~Monitors(stPortItem.sip) /\ ~Monitors(stPortItem.dip)
  /\ Discard(th_len + 1)

Handle ==
  /\ HasPayload
  /\ Monitors(stPortItem.sip) \/ Monitors(stPortItem.dip)
  /\ Reads(th_len + 1)
  /\ \E parsed \in {redis_cmd_parse(SubSeq(pkt_data, Payload + 1, Len(pkt_data)),
                                    Caplen - Payload)} :
       /\ pkt_data' = SubSeq(pkt_data, 1, Payload) \o parsed.buf
       /\ handled' = [item |-> stPortItem, usflag |-> Direction,
                      data |-> Field(Payload, Caplen - Payload),
                      ret |-> parsed.ret, cmd |-> parsed.cmd]

Next ==
  /\ passes < MaxPasses /\ passes' = passes + 1
  /\ TooSmall \/ NotIP \/ NotTCP \/ NoPayload \/ Foreign \/ Handle
  /\ UNCHANGED pkt

Spec == Init /\ [][Next]_pvars

-----------------------------------------------------------------------------
\* The 54 bytes the loop asks for are enough for every header field that is
\* read, in frames that end in their headers too.
ReadsInside == reach <= Caplen

\* What module Tracer takes the packet for.
Number(bytes) == bytes[1] * 256 + bytes[2]
Frame ==
  [caplen |-> Caplen, len |-> Caplen, eth |-> Number(pkt.eth),
   ip_v |-> pkt.ip_v, ip_p |-> pkt.ip_p, th_len |-> pkt.th_len,
   key |-> <<<<pkt.src, pkt.sport>>, <<pkt.dst, pkt.dport>>>>, data |-> pkt.load.data]
Ends == {<<p.src, p.sport>> : p \in Packets} \cup {<<p.dst, p.dport>> : p \in Packets}
T == INSTANCE Tracer
       WITH Endpoints <- Ends, Monitored <- {e \in Ends : e[1] = MonitoredIp},
            Frames <- {}, Times <- {}, Stale <- {}, MallocMayFail <- FALSE, UIntMod <- 1,
            NoLine <- 0, running <- TRUE, cap <- 0, table <- 0, line <- 0

\* A packet that is not cut and has no IP options comes to the lookups if
\* and only if it is one Tracer accepts; then the key is the direction it
\* was sent in and the payload what was sent.  However often it is handled,
\* overwritten by then, its key stays: the parser never reaches the headers.
AsSent == pkt.cut = 0 /\ pkt.ip_hl = 5
AsTracerSees ==
  (passes > 0 /\ AsSent) =>
    /\ handled # Nothing <=> T!Accepted(Frame)
    /\ handled # Nothing =>
         /\ <<<<Reverse(handled.item.sip), Reverse(handled.item.sport)>>,
              <<Reverse(handled.item.dip), Reverse(handled.item.dport)>>>> = Frame.key
         /\ passes = 1 => handled.data = pkt.load.data

\* With options the ports are misread, the addresses never: nothing is ever
\* recorded for a connection of other hosts, and the flag is that of the sender.
AddressesRight ==
  handled # Nothing =>
    /\ MonitoredIp \in {pkt.src, pkt.dst}
    /\ (handled.usflag = en_OUT) = (MonitoredIp = pkt.src)

\* What the parser answers of a payload, as it was sent, is right by the
\* grammar of module RedisGrammar, whatever is behind the payload.
MatchesGrammar ==
  (passes = 1 /\ AsSent /\ handled # Nothing) =>
    RightAnswer(pkt.load.data \o pkt.behind, Len(pkt.load.data), handled)

\* A frame handled n times gives up the n-th argument of its command, since
\* each pass overwrites the line ends the passes before it went by: the name
\* stored for a request handled again is that of a later argument.  A request
\* that is all there is never refused, unless that argument is empty.
ReplayNamesArgument ==
  (AsSent /\ handled # Nothing /\ pkt.load.args # << >>) =>
    /\ handled.ret = 0 => passes <= Len(pkt.load.args) /\ handled.cmd \in {<< >>, pkt.load.args[passes]}
    /\ (pkt.load.whole /\ passes <= Len(pkt.load.args)) =>
         IF pkt.load.args[passes] = << >> THEN handled.ret # 0
         ELSE handled.ret = 0 /\ handled.cmd = pkt.load.args[passes]
=============================================================================
