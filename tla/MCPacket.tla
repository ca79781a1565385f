------------------------------ MODULE MCPacket ------------------------------
(***************************************************************************)
(* Packets that differ in every field the code looks at, with addresses    *)
(* and ports that read differently from either end, some of them cut; and  *)
(* good packets with requests, with requests cut short by the end of a     *)
(* segment, and with arbitrary short payloads.                             *)
(***************************************************************************)
EXTENDS PacketHash

Here == <<10, 0, 0, 102>>
There == <<102, 0, 0, 10>>  \* Here, read backwards
Elsewhere == <<10, 0, 1, 5>>

Junk(data) == [args |-> << >>, whole |-> FALSE, data |-> data]

MCHeaders ==
  {p \in [eth : {<<8, 0>>, <<0, 8>>}, ip_v : {4, 6}, ip_hl : {5, 6}, ip_p : {6, 17},
          src : {Here, There, Elsewhere}, dst : {Here, There, Elsewhere},
          sport : {<<24, 235>>}, dport : {<<235, 24>>}, th_len : {5, 8},
          load : {Junk(<< >>), Junk(<<Star>>), Junk(<<Star, 49, CR>>)},
          hops : {0, 64}, cut : {0, 1, 8, 20, 40}, behind : {<<NUL, NUL>>}] :
     p.src # p.dst}

CRLF == <<CR, LF>>
Decimal(n) == IF n < 10 THEN <<48 + n>> ELSE <<48 + (n \div 10), 48 + (n % 10)>>
Bulk(arg) == <<Dollar>> \o Decimal(Len(arg)) \o CRLF \o arg \o CRLF
Encode(as) ==
  <<Star>> \o Decimal(Len(as)) \o CRLF
           \o FoldLeft(LAMBDA acc, arg : acc \o Bulk(arg), << >>, as)

Letters(n) == [i \in 1..n |-> 64 + i]
\* names of one and two digit lengths, of the length of the 32-byte field;
\* an empty argument; arguments that look like protocol
Commands ==
  {<<Letters(1)>>, <<Letters(3), Letters(2)>>, <<Letters(12), <<Star>>, Letters(1)>>,
   <<Letters(32)>>, <<Letters(2), << >>, Letters(3)>>, <<Letters(1), <<Dollar, 49>>, <<LF>>>>}
Cuts(as) ==
  {[args |-> as, whole |-> n = Len(Encode(as)), data |-> SubSeq(Encode(as), 1, n)] :
     n \in 1..Len(Encode(as))}

\* short payloads, alone and behind one or both of the headers of a request
Short == UNION {[1..n -> {Star, Dollar, CR, LF, 49}] : n \in 1..4}
Loads ==
  UNION {Cuts(as) : as \in Commands}
    \cup {Junk(p \o s) : p \in {<< >>, <<Star, 49, CR, LF>>,
                               <<Star, 49, CR, LF, Dollar, 49, CR, LF>>}, s \in Short}

MCRequests ==
  [eth : {<<8, 0>>}, ip_v : {4}, ip_hl : {5}, ip_p : {6}, src : {Elsewhere}, dst : {Here},
   sport : {<<24, 235>>}, dport : {<<235, 24>>}, th_len : {5}, load : Loads,
   hops : {0}, cut : {0},
   behind : {<<NUL, NUL>>, <<CR, LF>>, <<LF, Dollar>>, <<Dollar, 49>>}]

MCPackets == MCHeaders \cup MCRequests
=============================================================================
