---------------------------- MODULE PacketProofs ----------------------------
(***************************************************************************)
(* What pkt_recv reads of the bytes of a frame, for any packets and however *)
(* often a frame is handled.                                               *)
(***************************************************************************)
EXTENDS Packet, RedisCmdProofs

-----------------------------------------------------------------------------
\* s has n bytes; in b, t has its m bytes behind the first n, or is the first.
OfLen(s, n) == s \in Seq(Byte) /\ Len(s) = n
Placed(t, n, m, b) == \A i \in 1..m : b[n + i] = t[i]
Begins(s, n, b) == \A i \in 1..n : b[i] = s[i]

\* Concatenation puts a sequence of m bytes behind one of n.
LEMMA JoinedIs ==
  ASSUME NEW n \in Nat, NEW m \in Nat, NEW s, NEW t, OfLen(s, n), OfLen(t, m)
  PROVE  /\ OfLen(s \o t, n + m)
         /\ Begins(s, n, s \o t) /\ Placed(t, n, m, s \o t)
<1> USE DEF OfLen
<1>1. /\ s \o t \in Seq(Byte) /\ Len(s \o t) = n + m
      /\ \A i \in 1..(n + m) : (s \o t)[i] = IF i <= n THEN s[i] ELSE t[i - n]
  BY ConcatProperties
<1>2. \A i \in 1..n : i \in 1..(n + m) /\ i <= n
  OBVIOUS
<1>3. \A i \in 1..m : n + i \in 1..(n + m) /\ ~(n + i <= n) /\ (n + i) - n = i
  OBVIOUS
<1>4. \A i \in 1..n : (s \o t)[i] = s[i]
  BY <1>1, <1>2
<1>5. \A i \in 1..m : (s \o t)[n + i] = t[i]
  BY <1>1, <1>3
<1> QED BY <1>1, <1>4, <1>5 DEF Begins, Placed

\* What is in a beginning of b is there in b.
LEMMA BeginsThere ==
  ASSUME NEW n \in Nat, NEW m \in Nat, NEW s, NEW t, NEW r, NEW b,
         Begins(s, n, r), Placed(t, n, m, r), Begins(r, n + m, b)
  PROVE  Begins(s, n, b) /\ Placed(t, n, m, b)
<1>1. \A i \in 1..n : i \in 1..(n + m)
  OBVIOUS
<1>2. \A i \in 1..m : n + i \in 1..(n + m)
  OBVIOUS
<1> QED BY <1>1, <1>2 DEF Begins, Placed

\* Where the fields of a packet p are in its bytes b.
Layout(p, b) ==
  LET opt == 4 * (p.ip_hl - 5)
      body == 34 + opt + 4 * p.th_len
  IN  /\ b \in Seq(Byte) /\ Len(b) = body + Len(p.load.data)
      /\ \A i \in 1..2 : b[12 + i] = p.eth[i]
      /\ b[15] = 16 * p.ip_v + p.ip_hl
      /\ b[24] = p.ip_p
      /\ \A i \in 1..4 : b[26 + i] = p.src[i] /\ b[30 + i] = p.dst[i]
      /\ \A i \in 1..2 : b[34 + opt + i] = p.sport[i] /\ b[36 + opt + i] = p.dport[i]
      /\ b[47 + opt] = 16 * p.th_len
      /\ \A i \in 1..Len(p.load.data) : b[body + i] = p.load.data[i]

\* What is assumed of a packet.
LEMMA PacketIs ==
  ASSUME NEW p \in Packets
  PROVE  /\ p.eth \in Seq(Byte) /\ Len(p.eth) = 2 /\ p.sport \in Seq(Byte) /\ Len(p.sport) = 2
         /\ p.dport \in Seq(Byte) /\ Len(p.dport) = 2 /\ p.behind \in Seq(Byte) /\ Len(p.behind) = 2
         /\ p.src \in Seq(Byte) /\ Len(p.src) = 4 /\ p.dst \in Seq(Byte) /\ Len(p.dst) = 4
         /\ p.ip_v \in 0..15 /\ p.ip_hl \in 5..15 /\ p.th_len \in 5..15
         /\ p.ip_p \in Byte /\ p.hops \in Byte
         /\ p.load.data \in Seq(Byte) /\ Len(p.load.data) \in Nat
         /\ p.cut \in Nat /\ p.cut <= Len(Bytes(p))
<1>1. /\ {p.eth, p.sport, p.dport, p.behind} \subseteq [1..2 -> Byte]
      /\ {p.src, p.dst} \subseteq [1..4 -> Byte]
      /\ p.ip_v \in 0..15 /\ {p.ip_hl, p.th_len} \subseteq 5..15
      /\ {p.ip_p, p.hops} \subseteq Byte
      /\ p.load.data \in Seq(Byte)
      /\ p.cut \in 0..Len(Bytes(p))
  BY PacketsAssumption
<1>2. \A f \in [1..2 -> Byte] : f \in Seq(Byte) /\ Len(f) = 2
  BY FunctionIsSequence
<1>3. \A f \in [1..4 -> Byte] : f \in Seq(Byte) /\ Len(f) = 4
  BY FunctionIsSequence
<1>4. p.cut \in Nat /\ p.cut <= Len(Bytes(p))
  BY <1>1
<1> QED BY <1>1, <1>2, <1>3, <1>4, LenProperties

\* The bytes of a packet are laid out so.
LEMMA LayoutIs ==
  ASSUME NEW p \in Packets
  PROVE  Layout(p, Bytes(p))
<1> DEFINE fill(n) == [i \in 1..n |-> p.hops]
           opt == 4 * (p.ip_hl - 5)
           pad == 4 * (p.th_len - 5)
           last == Len(p.load.data)
           vhl == <<16 * p.ip_v + p.ip_hl>>
           proto == <<p.ip_p>>
           off == <<16 * p.th_len>>
           mac == fill(12)
           eth == mac \o p.eth
           ver == eth \o vhl
           ip1 == ver \o fill(8)
           pro == ip1 \o proto
           ip2 == pro \o fill(2)
           src == ip2 \o p.src
           dst == src \o p.dst
           ops == dst \o fill(opt)
           spo == ops \o p.sport
           dpo == spo \o p.dport
           tcp == dpo \o fill(8)
           hln == tcp \o off
           tc2 == hln \o fill(7)
           tops == tc2 \o fill(pad)
           all == tops \o p.load.data
<1> HIDE DEF mac, eth, ver, ip1, pro, ip2, src, dst, ops, spo, dpo, tcp, hln, tc2, tops, all
<1>1. /\ opt \in Nat /\ pad \in Nat /\ last \in Nat
      /\ 16 * p.ip_v + p.ip_hl \in Byte /\ 16 * p.th_len \in Byte /\ p.ip_p \in Byte
      /\ 34 + opt + 4 * p.th_len = 54 + opt + pad
  <2>1. /\ p.ip_v \in 0..15 /\ p.ip_hl \in 5..15 /\ p.th_len \in 5..15
        /\ p.ip_p \in Byte /\ last \in Nat
    BY PacketIs
  <2>2. \A v \in 0..15, h \in 5..15 : 16 * v + h \in Byte /\ 16 * h \in Byte /\ 4 * (h - 5) \in Nat
    BY DEF Byte
  <2>3. \A x \in Nat, h \in 5..15 : 34 + x + 4 * h = 54 + x + 4 * (h - 5)
    OBVIOUS
  <2>4. opt \in Nat /\ pad \in Nat
    BY ONLY <2>1, <2>2
  <2>5. 34 + opt + 4 * p.th_len = 54 + opt + pad
    <3> HIDE DEF opt
    <3> QED BY ONLY <2>1, <2>3, <2>4
  <2>6. 16 * p.ip_v + p.ip_hl \in Byte /\ 16 * p.th_len \in Byte
    BY ONLY <2>1, <2>2
  <2> QED BY ONLY <2>1, <2>4, <2>5, <2>6
<1>2. \A n \in Nat : fill(n) \in Seq(Byte) /\ Len(fill(n)) = n
  <2> SUFFICES ASSUME NEW n \in Nat PROVE fill(n) \in Seq(Byte) /\ Len(fill(n)) = n
    OBVIOUS
  <2>1. fill(n) \in [1..n -> Byte]
    BY PacketIs
  <2> HIDE DEF fill
  <2> QED BY <2>1, FunctionIsSequence
<1>3. /\ vhl \in Seq(Byte) /\ Len(vhl) = 1 /\ vhl[1] = 16 * p.ip_v + p.ip_hl
      /\ proto \in Seq(Byte) /\ Len(proto) = 1 /\ proto[1] = p.ip_p
      /\ off \in Seq(Byte) /\ Len(off) = 1 /\ off[1] = 16 * p.th_len
  BY <1>1
<1> HIDE DEF fill, vhl, proto, off
<1>4. /\ OfLen(fill(12), 12) /\ OfLen(fill(8), 8) /\ OfLen(fill(2), 2) /\ OfLen(fill(7), 7)
      /\ OfLen(fill(opt), opt) /\ OfLen(fill(pad), pad)
      /\ OfLen(vhl, 1) /\ OfLen(proto, 1) /\ OfLen(off, 1)
  BY <1>1, <1>2, <1>3 DEF OfLen
<1>5. /\ OfLen(p.eth, 2) /\ OfLen(p.src, 4) /\ OfLen(p.dst, 4)
      /\ OfLen(p.sport, 2) /\ OfLen(p.dport, 2) /\ OfLen(p.load.data, last)
  BY PacketIs DEF OfLen
<1> HIDE DEF opt, pad, last
<1>6. OfLen(mac, 12)
  BY <1>4 DEF mac
<1>7. OfLen(eth, 14) /\ Begins(mac, 12, eth) /\ Placed(p.eth, 12, 2, eth)
  BY <1>1, <1>4, <1>5, <1>6, JoinedIs DEF eth
<1>8. OfLen(ver, 15) /\ Begins(eth, 14, ver) /\ Placed(vhl, 14, 1, ver)
  BY <1>1, <1>4, <1>5, <1>7, JoinedIs DEF ver
<1>9. OfLen(ip1, 23) /\ Begins(ver, 15, ip1) /\ Placed(fill(8), 15, 8, ip1)
  BY <1>1, <1>4, <1>5, <1>8, JoinedIs DEF ip1
<1>10. OfLen(pro, 24) /\ Begins(ip1, 23, pro) /\ Placed(proto, 23, 1, pro)
  BY <1>1, <1>4, <1>5, <1>9, JoinedIs DEF pro
<1>11. OfLen(ip2, 26) /\ Begins(pro, 24, ip2) /\ Placed(fill(2), 24, 2, ip2)
  BY <1>1, <1>4, <1>5, <1>10, JoinedIs DEF ip2
<1>12. OfLen(src, 30) /\ Begins(ip2, 26, src) /\ Placed(p.src, 26, 4, src)
  BY <1>1, <1>4, <1>5, <1>11, JoinedIs DEF src
<1>13. OfLen(dst, 34) /\ Begins(src, 30, dst) /\ Placed(p.dst, 30, 4, dst)
  BY <1>1, <1>4, <1>5, <1>12, JoinedIs DEF dst
<1>14. OfLen(ops, 34 + opt) /\ Begins(dst, 34, ops) /\ Placed(fill(opt), 34, opt, ops)
  BY <1>1, <1>4, <1>5, <1>13, JoinedIs DEF ops
<1>15. OfLen(spo, 36 + opt) /\ Begins(ops, 34 + opt, spo) /\ Placed(p.sport, 34 + opt, 2, spo)
  BY <1>1, <1>4, <1>5, <1>14, JoinedIs DEF spo
<1>16. OfLen(dpo, 38 + opt) /\ Begins(spo, 36 + opt, dpo) /\ Placed(p.dport, 36 + opt, 2, dpo)
  BY <1>1, <1>4, <1>5, <1>15, JoinedIs DEF dpo
<1>17. OfLen(tcp, 46 + opt) /\ Begins(dpo, 38 + opt, tcp) /\ Placed(fill(8), 38 + opt, 8, tcp)
  BY <1>1, <1>4, <1>5, <1>16, JoinedIs DEF tcp
<1>18. OfLen(hln, 47 + opt) /\ Begins(tcp, 46 + opt, hln) /\ Placed(off, 46 + opt, 1, hln)
  BY <1>1, <1>4, <1>5, <1>17, JoinedIs DEF hln
<1>19. OfLen(tc2, 54 + opt) /\ Begins(hln, 47 + opt, tc2) /\ Placed(fill(7), 47 + opt, 7, tc2)
  BY <1>1, <1>4, <1>5, <1>18, JoinedIs DEF tc2
<1>20. /\ OfLen(tops, 54 + opt + pad) /\ Begins(tc2, 54 + opt, tops)
       /\ Placed(fill(pad), 54 + opt, pad, tops)
  BY <1>1, <1>4, <1>5, <1>19, JoinedIs DEF tops
<1>21. /\ OfLen(all, 54 + opt + pad + last) /\ Begins(tops, 54 + opt + pad, all)
       /\ Placed(p.load.data, 54 + opt + pad, last, all)
  BY <1>1, <1>4, <1>5, <1>20, JoinedIs DEF all
<1>22. Begins(all, 54 + opt + pad + last, all)
  BY DEF Begins
<1>23. Begins(tops, 54 + opt + pad, all) /\ Placed(p.load.data, 54 + opt + pad, last, all)
  BY <1>1, <1>21, <1>22, BeginsThere
<1>24. Begins(tc2, 54 + opt, all) /\ Placed(fill(pad), 54 + opt, pad, all)
  BY <1>1, <1>20, <1>23, BeginsThere
<1>25. Begins(hln, 47 + opt, all) /\ Placed(fill(7), 47 + opt, 7, all)
  BY <1>1, <1>19, <1>24, BeginsThere
<1>26. Begins(tcp, 46 + opt, all) /\ Placed(off, 46 + opt, 1, all)
  BY <1>1, <1>18, <1>25, BeginsThere
<1>27. Begins(dpo, 38 + opt, all) /\ Placed(fill(8), 38 + opt, 8, all)
  BY <1>1, <1>17, <1>26, BeginsThere
<1>28. Begins(spo, 36 + opt, all) /\ Placed(p.dport, 36 + opt, 2, all)
  BY <1>1, <1>16, <1>27, BeginsThere
<1>29. Begins(ops, 34 + opt, all) /\ Placed(p.sport, 34 + opt, 2, all)
  BY <1>1, <1>15, <1>28, BeginsThere
<1>30. Begins(dst, 34, all) /\ Placed(fill(opt), 34, opt, all)
  BY <1>1, <1>14, <1>29, BeginsThere
<1>31. Begins(src, 30, all) /\ Placed(p.dst, 30, 4, all)
  BY <1>1, <1>13, <1>30, BeginsThere
<1>32. Begins(ip2, 26, all) /\ Placed(p.src, 26, 4, all)
  BY <1>1, <1>12, <1>31, BeginsThere
<1>33. Begins(pro, 24, all) /\ Placed(fill(2), 24, 2, all)
  BY <1>1, <1>11, <1>32, BeginsThere
<1>34. Begins(ip1, 23, all) /\ Placed(proto, 23, 1, all)
  BY <1>1, <1>10, <1>33, BeginsThere
<1>35. Begins(ver, 15, all) /\ Placed(fill(8), 15, 8, all)
  BY <1>1, <1>9, <1>34, BeginsThere
<1>36. Begins(eth, 14, all) /\ Placed(vhl, 14, 1, all)
  BY <1>1, <1>8, <1>35, BeginsThere
<1>37. Begins(mac, 12, all) /\ Placed(p.eth, 12, 2, all)
  BY <1>1, <1>7, <1>36, BeginsThere
<1>38. Bytes(p) = all
  BY Zenon DEF Bytes, fill, vhl, proto, off, opt, pad, mac,
                    eth, ver, ip1, pro, ip2, src, dst, ops, spo, dpo, tcp, hln, tc2, tops, all
<1>39. /\ \A i \in 1..2 : all[12 + i] = p.eth[i]
       /\ all[15] = 16 * p.ip_v + p.ip_hl
       /\ all[24] = p.ip_p
       /\ \A i \in 1..4 : all[26 + i] = p.src[i] /\ all[30 + i] = p.dst[i]
  <2>1. all[14 + 1] = vhl[1] /\ all[23 + 1] = proto[1]
    BY <1>36, <1>34 DEF Placed
  <2>2. \A i \in 1..4 : all[26 + i] = p.src[i] /\ all[30 + i] = p.dst[i]
    BY <1>31, <1>32 DEF Placed
  <2> QED BY <1>3, <1>37, <2>1, <2>2 DEF Placed
<1>40. /\ \A i \in 1..2 : all[34 + opt + i] = p.sport[i] /\ all[36 + opt + i] = p.dport[i]
       /\ all[47 + opt] = 16 * p.th_len
       /\ \A i \in 1..last : all[34 + opt + 4 * p.th_len + i] = p.load.data[i]
  <2>1. all[46 + opt + 1] = off[1]
    BY <1>26 DEF Placed
  <2>2. 46 + opt + 1 = 47 + opt
    BY ONLY <1>1
  <2>3. \A i \in 1..2 : all[34 + opt + i] = p.sport[i] /\ all[36 + opt + i] = p.dport[i]
    BY <1>28, <1>29 DEF Placed
  <2>4. \A i \in 1..last : all[54 + opt + pad + i] = p.load.data[i]
    BY <1>23 DEF Placed
  <2> QED BY <1>1, <1>3, <2>1, <2>2, <2>3, <2>4
<1>41. all \in Seq(Byte) /\ Len(all) = 34 + opt + 4 * p.th_len + last
  BY <1>1, <1>21 DEF OfLen
<1> QED BY <1>38, <1>39, <1>40, <1>41 DEF Layout, opt, last

-----------------------------------------------------------------------------
\* A number read in the other order is a number, and another one if it was.
LEMMA ReverseIs ==
  ASSUME NEW n \in Nat, NEW s \in Seq(Byte), Len(s) = n
  PROVE  /\ Reverse(s) \in [1..n -> Byte] /\ Reverse(s) \in Seq(Byte) /\ Len(Reverse(s)) = n
         /\ \A i \in 1..n : Reverse(s)[i] = s[n - i + 1]
         /\ Reverse(Reverse(s)) = s
         /\ \A t \in Seq(Byte) : Len(t) = n /\ Reverse(t) = Reverse(s) => t = s
<1>1. ASSUME NEW t \in Seq(Byte), Len(t) = n
      PROVE  /\ Reverse(t) \in [1..n -> Byte] /\ Reverse(t) \in Seq(Byte) /\ Len(Reverse(t)) = n
             /\ \A i \in 1..n : Reverse(t)[i] = t[n - i + 1]
  <2>1. Reverse(t) = [i \in 1..n |-> t[n - i + 1]]
    BY <1>1 DEF Reverse
  <2>2. \A i \in 1..n : n - i + 1 \in 1..n
    OBVIOUS
  <2>3. Reverse(t) \in [1..n -> Byte]
    BY <1>1, <2>1, <2>2, ElementOfSeq
  <2> QED BY <2>1, <2>3, FunctionIsSequence
<1>2. ASSUME NEW t \in Seq(Byte), Len(t) = n
      PROVE  Reverse(Reverse(t)) = t
  <2>1. /\ Reverse(t) \in Seq(Byte) /\ Len(Reverse(t)) = n
        /\ \A i \in 1..n : Reverse(t)[i] = t[n - i + 1]
    BY <1>1, <1>2
  <2>2. /\ Reverse(Reverse(t)) \in Seq(Byte) /\ Len(Reverse(Reverse(t))) = n
        /\ \A i \in 1..n : Reverse(Reverse(t))[i] = Reverse(t)[n - i + 1]
    BY <1>1, <2>1
  <2>3. \A i \in 1..n : n - i + 1 \in 1..n /\ n - (n - i + 1) + 1 = i
    OBVIOUS
  <2>4. \A i \in 1..n : Reverse(Reverse(t))[i] = t[i]
    BY <2>1, <2>2, <2>3
  <2> QED BY <1>2, <2>2, <2>4, SeqEqual
<1>3. ASSUME NEW t \in Seq(Byte), Len(t) = n, Reverse(t) = Reverse(s)
      PROVE  t = s
  <2>1. Reverse(Reverse(t)) = t /\ Reverse(Reverse(s)) = s
    BY <1>2, <1>3
  <2> QED BY <1>3, <2>1
<1> QED BY <1>1, <1>2, <1>3

\* In a number of two bytes, one stands for the other.
LEMMA ReverseTwo ==
  ASSUME NEW s \in Seq(Byte), Len(s) = 2
  PROVE  /\ Reverse(s) \in Seq(Byte) /\ Len(Reverse(s)) = 2
         /\ Reverse(s)[1] = s[2] /\ Reverse(s)[2] = s[1]
<1>1. Reverse(s) \in Seq(Byte) /\ Len(Reverse(s)) = 2
  BY ReverseIs
<1>2. Reverse(s) = [i \in 1..2 |-> s[2 - i + 1]]
  BY DEF Reverse
<1> QED BY <1>1, <1>2

\* A field is made of bytes; where the bytes of t lie, the field is t.
LEMMA FieldType ==
  ASSUME pkt_data \in Seq(Byte), NEW offset \in Nat, NEW width \in Nat
  PROVE  /\ Field(offset, width) \in [1..width -> Byte]
         /\ Field(offset, width) \in Seq(Byte) /\ Len(Field(offset, width)) = width
<1>1. \A i \in 1..width : At(offset + i - 1) \in Byte
  <2> SUFFICES ASSUME NEW i \in 1..width PROVE At(offset + i - 1) \in Byte
    OBVIOUS
  <2>1. CASE offset + i - 1 < Len(pkt_data)
    <3>1. offset + i - 1 + 1 \in 1..Len(pkt_data)
      BY <2>1, LenProperties
    <3> QED BY <2>1, <3>1, ElementOfSeq DEF At
  <2>2. CASE ~(offset + i - 1 < Len(pkt_data))
    BY <2>2 DEF At, NUL, Byte
  <2> QED BY <2>1, <2>2
<1>2. Field(offset, width) \in [1..width -> Byte]
  BY <1>1 DEF Field
<1> QED BY <1>2, FunctionIsSequence

\* What is at an offset in the frame.
LEMMA FieldIs ==
  ASSUME pkt_data \in Seq(Byte), NEW offset \in Nat, NEW width \in Nat,
         offset + width <= Len(pkt_data),
         NEW t \in Seq(Byte), Len(t) = width, \A i \in 1..width : pkt_data[offset + i] = t[i]
  PROVE  Field(offset, width) = t
<1>1. Field(offset, width) \in Seq(Byte) /\ Len(Field(offset, width)) = width
  BY FieldType
<1>2. \A i \in 1..width : Field(offset, width)[i] = t[i]
  <2> SUFFICES ASSUME NEW i \in 1..width PROVE Field(offset, width)[i] = t[i]
    OBVIOUS
  <2>1. offset + i - 1 < Len(pkt_data) /\ offset + i - 1 + 1 = offset + i
    BY LenProperties
  <2>2. Field(offset, width)[i] = At(offset + i - 1)
    BY DEF Field
  <2> QED BY <2>1, <2>2 DEF At
<1> QED BY <1>1, <1>2, SeqEqual

-----------------------------------------------------------------------------
\* The first n bytes are as they were captured.
Kept(n) == \A i \in 1..n : pkt_data[i] = Bytes(pkt)[i]

\* The bytes: what the parser overwrites lies behind the addresses, and behind
\* all headers if there are no IP options.
BytesInv ==
  /\ pkt \in Packets
  /\ pkt_data \in Seq(Byte)
  /\ Caplen \in Nat /\ Caplen = Len(Bytes(pkt)) - pkt.cut
  /\ passes \in Nat
  /\ HasHeaders => Kept(34)
  /\ AsSent => Kept(34 + 4 * pkt.th_len)
  /\ AsSent /\ passes = 0 => pkt_data = Bytes(pkt) \o pkt.behind

\* What the handler reads of the headers of a frame that is long enough.
HeadersRead ==
  /\ IsIP <=> pkt.eth[1] = 8 /\ pkt.eth[2] = 0
  /\ IsTCP <=> pkt.ip_v = 4 /\ pkt.ip_p = 6
  /\ Payload \in 34..94
  /\ stPortItem \in PortItem
  /\ stPortItem.sip = Reverse(pkt.src) /\ stPortItem.dip = Reverse(pkt.dst)
  /\ Monitors(stPortItem.sip) <=> MonitoredIp = pkt.src
  /\ Monitors(stPortItem.dip) <=> MonitoredIp = pkt.dst

\* And of one without IP options that is all there.
PortsRead ==
  /\ Payload = 34 + 4 * pkt.th_len
  /\ stPortItem.sport = Reverse(pkt.sport) /\ stPortItem.dport = Reverse(pkt.dport)

\* In a frame that is long enough the addresses, the protocols and the length
\* of the headers are read where the sender put them.
LEMMA AreHeadersRead ==
  ASSUME BytesInv, HasHeaders
  PROVE  HeadersRead
<1> DEFINE b == Bytes(pkt)
<1>1. /\ pkt \in Packets /\ pkt_data \in Seq(Byte) /\ Len(pkt_data) \in Nat /\ Len(pkt_data) >= 56
      /\ \A i \in 1..34 : pkt_data[i] = b[i]
  <2>1. pkt_data \in Seq(Byte) /\ pkt \in Packets /\ Kept(34)
    BY DEF BytesInv
  <2>2. Len(pkt_data) \in Nat
    BY <2>1, LenProperties
  <2>3. Len(pkt_data) - 2 >= 54
    BY DEF HasHeaders, Caplen, Behind
  <2>4. Len(pkt_data) >= 56
    BY ONLY <2>2, <2>3
  <2> QED BY <2>1, <2>2, <2>4 DEF Kept
<1> DEFINE m == Len(pkt_data)
<1>0. /\ m \in Nat /\ 12 + 2 <= m /\ 26 + 4 <= m /\ 30 + 4 <= m
      /\ 14 < m /\ 23 < m /\ 46 < m
  <2>1. m \in Nat /\ m >= 56
    BY <1>1
  <2> HIDE DEF m
  <2> QED BY ONLY <2>1
<1>2. /\ \A i \in 1..2 : pkt_data[12 + i] = pkt.eth[i]
      /\ pkt_data[15] = 16 * pkt.ip_v + pkt.ip_hl /\ pkt_data[24] = pkt.ip_p
      /\ \A i \in 1..4 : pkt_data[26 + i] = pkt.src[i] /\ pkt_data[30 + i] = pkt.dst[i]
  <2>1. Layout(pkt, b)
    BY <1>1, LayoutIs
  <2>2. \A i \in 1..4 : 26 + i \in 1..34 /\ 30 + i \in 1..34
    OBVIOUS
  <2>3. \A i \in 1..2 : 12 + i \in 1..34
    OBVIOUS
  <2> HIDE DEF b
  <2> QED BY <1>1, <2>1, <2>2, <2>3 DEF Layout
<1> HIDE DEF b
<1>3. /\ pkt.eth \in Seq(Byte) /\ Len(pkt.eth) = 2
      /\ pkt.src \in Seq(Byte) /\ Len(pkt.src) = 4
      /\ pkt.dst \in Seq(Byte) /\ Len(pkt.dst) = 4
      /\ pkt.ip_v \in 0..15 /\ pkt.ip_hl \in 5..15
  BY <1>1, PacketIs
<1>4. Field(12, 2) = pkt.eth /\ Field(26, 4) = pkt.src /\ Field(30, 4) = pkt.dst
  <2>1. Field(12, 2) = pkt.eth
    <3>1. 12 \in Nat /\ 2 \in Nat /\ 12 + 2 <= Len(pkt_data)
      BY <1>0
    <3>2. \A i \in 1..2 : pkt_data[12 + i] = pkt.eth[i]
      BY <1>2
    <3> QED BY ONLY <1>1, <1>3, <3>1, <3>2, FieldIs
  <2>2. Field(26, 4) = pkt.src
    <3>1. 26 \in Nat /\ 4 \in Nat /\ 26 + 4 <= Len(pkt_data)
      BY <1>0
    <3>2. \A i \in 1..4 : pkt_data[26 + i] = pkt.src[i]
      BY <1>2
    <3> QED BY ONLY <1>1, <1>3, <3>1, <3>2, FieldIs
  <2>3. Field(30, 4) = pkt.dst
    <3>1. 30 \in Nat /\ 4 \in Nat /\ 30 + 4 <= Len(pkt_data)
      BY <1>0
    <3>2. \A i \in 1..4 : pkt_data[30 + i] = pkt.dst[i]
      BY <1>2
    <3> QED BY ONLY <1>1, <1>3, <3>1, <3>2, FieldIs
  <2> QED BY <2>1, <2>2, <2>3
<1>5. IsIP <=> pkt.eth[1] = 8 /\ pkt.eth[2] = 0
  <2>1. IsIP <=> Reverse(pkt.eth) = <<0, 8>>
    BY <1>4 DEF IsIP, pkt_swapu, ETH_TYPE
  <2>2. /\ Reverse(pkt.eth) \in Seq(Byte) /\ Len(Reverse(pkt.eth)) = 2
        /\ Reverse(pkt.eth)[1] = pkt.eth[2] /\ Reverse(pkt.eth)[2] = pkt.eth[1]
    BY <1>3, ReverseTwo
  <2> QED BY <2>1, <2>2
<1>6. At(14) \div 16 = pkt.ip_v /\ At(23) = pkt.ip_p
  <2>1. 14 < Len(pkt_data) /\ 23 < Len(pkt_data)
    BY <1>0
  <2>2. At(14) = 16 * pkt.ip_v + pkt.ip_hl /\ At(23) = pkt.ip_p
    BY <1>2, <2>1 DEF At
  <2>3. \A v \in 0..15, h \in 5..15 : (16 * v + h) \div 16 = v
    OBVIOUS
  <2> QED BY <1>3, <2>2, <2>3
<1>7. IsTCP <=> pkt.ip_v = 4 /\ pkt.ip_p = 6
  BY <1>6 DEF IsTCP, High, IP_HDR, ip_p
<1>8. Payload \in 34..94
  <2>1. At(46) \in Byte
    <3>1. 46 < Len(pkt_data) /\ 47 \in 1..Len(pkt_data)
      <4> HIDE DEF m
      <4>1. 46 < m /\ 47 \in 1..m
        BY ONLY <1>0
      <4> QED BY ONLY <4>1 DEF m
    <3>2. 46 + 1 = 47
      OBVIOUS
    <3>3. At(46) = pkt_data[47]
      BY <3>1, <3>2 DEF At
    <3>4. pkt_data \in Seq(Byte) /\ 47 \in 1..Len(pkt_data)
      BY <1>1, <3>1
    <3>5. pkt_data[47] \in Byte
      BY ONLY <3>4, ElementOfSeq
    <3> QED BY <3>3, <3>5
  <2>2. \A x \in Byte : 34 + 4 * (x \div 16) \in 34..94
    BY DEF Byte
  <2> QED BY <2>1, <2>2 DEF Payload, High, th_len, TCP_HDR, IP_HDR
<1>9. stPortItem = [sport |-> Reverse(Field(34, 2)), dport |-> Reverse(Field(36, 2)),
                    sip |-> Reverse(pkt.src), dip |-> Reverse(pkt.dst)]
  BY <1>4 DEF stPortItem, pkt_swapu, th_sport, th_dport, ip_src, ip_dst, TCP_HDR, IP_HDR
<1>10. stPortItem \in PortItem
  <2>1. Reverse(Field(34, 2)) \in [1..2 -> Byte]
    <3>1. Field(34, 2) \in Seq(Byte) /\ Len(Field(34, 2)) = 2
      BY <1>1, FieldType
    <3> QED BY <3>1, ReverseIs
  <2>2. Reverse(Field(36, 2)) \in [1..2 -> Byte]
    <3>1. Field(36, 2) \in Seq(Byte) /\ Len(Field(36, 2)) = 2
      BY <1>1, FieldType
    <3> QED BY <3>1, ReverseIs
  <2>3. Reverse(pkt.src) \in [1..4 -> Byte] /\ Reverse(pkt.dst) \in [1..4 -> Byte]
    BY <1>3, ReverseIs
  <2> QED BY <1>9, <2>1, <2>2, <2>3 DEF PortItem
<1>11. \A a \in {pkt.src, pkt.dst} : Reverse(a) = Reverse(MonitoredIp) <=> MonitoredIp = a
  <2>1. MonitoredIp \in Seq(Byte) /\ Len(MonitoredIp) = 4
    BY MonitoredIpAssumption, FunctionIsSequence
  <2> QED BY <1>3, <2>1, ReverseIs
<1>12. /\ Monitors(stPortItem.sip) <=> MonitoredIp = pkt.src
       /\ Monitors(stPortItem.dip) <=> MonitoredIp = pkt.dst
  BY <1>9, <1>11 DEF Monitors
<1> QED BY <1>5, <1>7, <1>8, <1>9, <1>10, <1>12 DEF HeadersRead

\* Of a packet that is all there and has no IP options the bytes of all its
\* headers are kept, so its ports and its payload are found.
LEMMA ArePortsRead ==
  ASSUME BytesInv, AsSent
  PROVE  /\ HasHeaders /\ PortsRead
         /\ Caplen = 34 + 4 * pkt.th_len + Len(pkt.load.data)
<1> DEFINE b == Bytes(pkt)
           h == pkt.th_len
           top == 34 + 4 * h
           m == Len(pkt_data)
           d == Len(pkt.load.data)
<1>1. /\ pkt \in Packets /\ pkt_data \in Seq(Byte) /\ m \in Nat
      /\ \A i \in 1..top : pkt_data[i] = b[i]
  BY LenProperties DEF BytesInv, Kept
<1>2. /\ h \in 5..15 /\ d \in Nat
      /\ pkt.sport \in Seq(Byte) /\ Len(pkt.sport) = 2
      /\ pkt.dport \in Seq(Byte) /\ Len(pkt.dport) = 2
  BY <1>1, PacketIs
<1>3. /\ Len(b) = top + d /\ b[47] = 16 * h
      /\ \A i \in 1..2 : b[34 + i] = pkt.sport[i] /\ b[36 + i] = pkt.dport[i]
  <2>1. Layout(pkt, b) /\ pkt.ip_hl = 5
    BY <1>1, LayoutIs DEF AsSent
  <2> HIDE DEF b
  <2>2. 4 * (pkt.ip_hl - 5) = 0
    BY <2>1
  <2>3. Len(b) = 34 + 0 + 4 * h + d /\ b[47 + 0] = 16 * h
    BY <2>1, <2>2 DEF Layout
  <2>4. \A i \in 1..2 : b[34 + 0 + i] = pkt.sport[i] /\ b[36 + 0 + i] = pkt.dport[i]
    BY <2>1, <2>2 DEF Layout
  <2> QED BY <1>2, <2>3, <2>4
<1>4. Caplen = top + d
  <2>1. Caplen = Len(b) - 0
    BY DEF BytesInv, AsSent
  <2> HIDE DEF b
  <2> QED BY <1>2, <1>3, <2>1
<1>5. m \in Nat /\ d \in Nat /\ top \in Nat /\ top >= 54 /\ m = top + d + 2
  <2>1. m - 2 = top + d
    BY <1>4 DEF Caplen, Behind
  <2>2. h \in 5..15 /\ d \in Nat
    BY <1>2
  <2>3. m \in Nat
    BY <1>1
  <2> HIDE DEF m, d, h
  <2>4. top \in Nat /\ top >= 54
    BY ONLY <2>2
  <2> HIDE DEF top
  <2> QED BY ONLY <2>1, <2>2, <2>3, <2>4
<1>6. HasHeaders
  <2> HIDE DEF d, top
  <2>1. top + d >= 54
    BY ONLY <1>5
  <2> QED BY <1>4, <2>1 DEF HasHeaders
<1>7. /\ \A i \in 1..2 : pkt_data[34 + i] = pkt.sport[i] /\ pkt_data[36 + i] = pkt.dport[i]
      /\ pkt_data[47] = 16 * h
  <2>1. top \in Nat /\ top >= 54
    BY <1>5
  <2> HIDE DEF top, b, h
  <2>2. \A i \in 1..2 : 34 + i \in 1..top /\ 36 + i \in 1..top
    BY ONLY <2>1
  <2>3. 47 \in 1..top
    BY ONLY <2>1
  <2> QED BY <1>1, <1>3, <2>2, <2>3
<1>8. /\ 34 \in Nat /\ 36 \in Nat /\ 2 \in Nat
      /\ 34 + 2 <= m /\ 36 + 2 <= m /\ 46 < m /\ 46 + 1 = 47
  <2> HIDE DEF top, m, d
  <2> QED BY ONLY <1>5
<1> HIDE DEF b
<1>9. Field(34, 2) = pkt.sport
  <2>1. \A i \in 1..2 : pkt_data[34 + i] = pkt.sport[i]
    BY <1>7
  <2> QED BY <1>1, <1>2, <1>8, <2>1, FieldIs
<1>10. Field(36, 2) = pkt.dport
  <2>1. \A i \in 1..2 : pkt_data[36 + i] = pkt.dport[i]
    BY <1>7
  <2> QED BY <1>1, <1>2, <1>8, <2>1, FieldIs
<1>11. Payload = top
  <2>1. At(46) = 16 * h
    BY <1>7, <1>8 DEF At
  <2>2. \A x \in 5..15 : (16 * x) \div 16 = x
    OBVIOUS
  <2>3. At(46) \div 16 = h
    BY <1>2, <2>1, <2>2
  <2> HIDE DEF h
  <2>4. Payload = 14 + 20 + 4 * (At(14 + 20 + 12) \div 16)
    BY DEF Payload, High, th_len, TCP_HDR, IP_HDR
  <2>5. 14 + 20 + 12 = 46 /\ 14 + 20 + 4 * h = top
    BY <1>2
  <2> QED BY <2>3, <2>4, <2>5
<1>12. stPortItem.sport = Reverse(pkt.sport) /\ stPortItem.dport = Reverse(pkt.dport)
  BY <1>9, <1>10 DEF stPortItem, pkt_swapu, th_sport, th_dport, TCP_HDR, IP_HDR
<1> QED BY <1>4, <1>6, <1>11, <1>12 DEF PortsRead

-----------------------------------------------------------------------------
\* The payload as the parser is given it, and its answer.
Text == SubSeq(pkt_data, Payload + 1, Len(pkt_data))
Parsed == redis_cmd_parse(Text, Caplen - Payload)

\* The bytes when the parser has been at them.
Left == SubSeq(pkt_data, 1, Payload) \o Parsed.buf

\* A payload is one to the parser: at least one byte, and two behind it.
LEMMA TextIs ==
  ASSUME BytesInv, HasPayload
  PROVE  /\ Payload \in Nat /\ Payload \in 34..94 /\ Caplen \in Nat
         /\ Caplen - Payload \in Nat \ {0}
         /\ Len(pkt_data) = Payload + ((Caplen - Payload) + 2)
         /\ OfLen(SubSeq(pkt_data, 1, Payload), Payload)
         /\ \A i \in 1..Payload : SubSeq(pkt_data, 1, Payload)[i] = pkt_data[i]
         /\ OfLen(Text, (Caplen - Payload) + 2)
         /\ \A i \in 1..((Caplen - Payload) + 2) : Text[i] = pkt_data[Payload + i]
<1> DEFINE m == Len(pkt_data)
           c == Caplen
           h == Payload
<1>1. pkt_data \in Seq(Byte) /\ m \in Nat /\ c = m - 2
  BY LenProperties DEF BytesInv, Caplen, Behind
<1>2. h \in 34..94 /\ h < c
  BY AreHeadersRead DEF HasPayload, HeadersRead
<1>3. c \in Nat
  BY DEF BytesInv
<1> HIDE DEF m, c, h
<1>4. /\ h \in Nat /\ c - h \in Nat \ {0} /\ m = h + ((c - h) + 2)
      /\ h <= m /\ h + 1 <= m /\ m - (h + 1) + 1 = (c - h) + 2
      /\ \A i \in 1..h : i \in 1..m
  BY <1>1, <1>2, <1>3
<1>5. /\ SubSeq(pkt_data, 1, h) \in Seq(Byte) /\ Len(SubSeq(pkt_data, 1, h)) = h
      /\ \A i \in 1..h : SubSeq(pkt_data, 1, h)[i] = pkt_data[1 + i - 1]
  <2>1. \A i \in 1..h : pkt_data[i] \in Byte
    BY <1>1, <1>4, ElementOfSeq DEF m
  <2> QED BY <1>1, <1>4, <2>1, SubSeqProperties
<1>6. \A i \in 1..h : SubSeq(pkt_data, 1, h)[i] = pkt_data[i]
  <2>1. \A i \in 1..h : 1 + i - 1 = i
    OBVIOUS
  <2> QED BY <1>5, <2>1
<1>7. /\ SubSeq(pkt_data, h + 1, m) \in Seq(Byte) /\ Len(SubSeq(pkt_data, h + 1, m)) = (c - h) + 2
      /\ \A i \in 1..((c - h) + 2) : SubSeq(pkt_data, h + 1, m)[i] = pkt_data[h + 1 + i - 1]
  <2>1. \A i \in (h + 1)..m : i \in 1..m
    BY <1>1, <1>4
  <2>2. \A i \in (h + 1)..m : pkt_data[i] \in Byte
    BY <1>1, <2>1, ElementOfSeq DEF m
  <2> QED BY <1>1, <1>4, <2>2, SubSeqProperties
<1>8. \A i \in 1..((c - h) + 2) : SubSeq(pkt_data, h + 1, m)[i] = pkt_data[h + i]
  <2>1. \A i \in 1..((c - h) + 2) : h + 1 + i - 1 = h + i
    BY <1>4
  <2> QED BY <1>7, <2>1
<1> QED BY <1>2, <1>3, <1>4, <1>5, <1>6, <1>7, <1>8 DEF OfLen, Text, m, c, h

\* The parser leaves the headers alone, and as many bytes as there were.
LEMMA LeftIs ==
  ASSUME BytesInv, HasPayload
  PROVE  /\ Parsed.ret \in {0, -1} /\ Parsed.cmd \in Seq(Byte)
         /\ OfLen(Left, Len(pkt_data))
         /\ \A i \in 1..Payload : Left[i] = pkt_data[i]
<1> DEFINE h == Payload
           n == Caplen - Payload
           head == SubSeq(pkt_data, 1, Payload)
<1>1. /\ h \in Nat /\ n \in Nat \ {0} /\ OfLen(head, h) /\ OfLen(Text, n + 2)
      /\ Len(pkt_data) = h + (n + 2)
      /\ \A i \in 1..h : head[i] = pkt_data[i]
  BY TextIs
<1>2. Text \in Seq(Byte) /\ Len(Text) = n + Behind
  BY <1>1 DEF OfLen, Behind
<1> HIDE DEF n
<1>3. /\ Parsed.ret \in {0, -1} /\ Parsed.cmd \in Seq(Byte)
      /\ Parsed.buf \in Seq(Byte) /\ Len(Parsed.buf) = n + Behind
  BY <1>1, <1>2, ParseType DEF Parsed, n
<1>4. OfLen(Parsed.buf, n + 2) /\ n + 2 \in Nat
  BY <1>1, <1>3 DEF OfLen, Behind
<1> HIDE DEF h, head
<1>5. OfLen(head \o Parsed.buf, h + (n + 2)) /\ Begins(head, h, head \o Parsed.buf)
  BY <1>1, <1>4, JoinedIs
<1> QED BY <1>1, <1>3, <1>5 DEF Left, Begins, h, head

\* At first the bytes are those that were captured.
LEMMA BytesInit ==
  ASSUME Init
  PROVE  BytesInv
<1> DEFINE b == Bytes(pkt)
           n == Len(b) - pkt.cut
           s == SubSeq(b, 1, n)
<1>1. /\ pkt \in Packets /\ pkt_data = s \o pkt.behind /\ passes = 0
  BY DEF Init
<1>2. /\ pkt.behind \in Seq(Byte) /\ Len(pkt.behind) = 2
      /\ pkt.cut \in Nat /\ pkt.cut <= Len(b) /\ pkt.th_len \in 5..15
      /\ pkt.ip_hl \in 5..15 /\ Len(pkt.load.data) \in Nat
  BY <1>1, PacketIs
<1>3. b \in Seq(Byte) /\ Len(b) \in Nat
      /\ Len(b) = 34 + 4 * (pkt.ip_hl - 5) + 4 * pkt.th_len + Len(pkt.load.data)
  <2>1. Layout(pkt, b)
    BY <1>1, LayoutIs
  <2> HIDE DEF b
  <2> QED BY <2>1, LenProperties DEF Layout
<1> HIDE DEF b
<1>4. n \in Nat /\ n <= Len(b)
  BY ONLY <1>2, <1>3
<1>5. OfLen(s, n) /\ \A i \in 1..n : s[i] = b[i]
  <2> HIDE DEF n
  <2>1. \A i \in 1..n : i \in 1..Len(b) /\ 1 + i - 1 = i
    BY <1>3, <1>4
  <2>2. \A i \in 1..n : b[i] \in Byte
    BY <1>3, <2>1, ElementOfSeq
  <2>3. s \in Seq(Byte) /\ Len(s) = n /\ \A i \in 1..n : s[i] = b[1 + i - 1]
    BY <1>3, <1>4, <2>2, SubSeqProperties
  <2> QED BY <2>1, <2>3 DEF OfLen
<1>6. OfLen(pkt_data, n + 2) /\ Begins(s, n, pkt_data)
  <2>1. OfLen(pkt.behind, 2)
    BY <1>2 DEF OfLen
  <2> HIDE DEF n, s
  <2> QED BY <1>1, <1>4, <1>5, <2>1, JoinedIs
<1>7. \A i \in 1..n : pkt_data[i] = b[i]
  BY <1>5, <1>6 DEF Begins
<1>8. Caplen = n /\ Caplen \in Nat
  <2> HIDE DEF n
  <2>1. Len(pkt_data) = n + 2
    BY <1>6 DEF OfLen
  <2>2. (n + 2) - 2 = n
    BY <1>4
  <2> QED BY <1>4, <2>1, <2>2 DEF Caplen, Behind
<1>9. HasHeaders => Kept(34)
  <2> HIDE DEF n
  <2> SUFFICES ASSUME HasHeaders PROVE Kept(34)
    OBVIOUS
  <2>1. n >= 54
    BY <1>8 DEF HasHeaders
  <2>2. \A i \in 1..34 : i \in 1..n
    BY <1>4, <2>1
  <2> QED BY <1>7, <2>2 DEF Kept, b
<1>10. AsSent => Kept(34 + 4 * pkt.th_len) /\ pkt_data = b \o pkt.behind
  <2> SUFFICES ASSUME AsSent PROVE Kept(34 + 4 * pkt.th_len) /\ pkt_data = b \o pkt.behind
    OBVIOUS
  <2>1. n = Len(b)
    BY <1>3 DEF AsSent
  <2>2. 4 * (pkt.ip_hl - 5) = 0
    BY DEF AsSent
  <2>3. Len(b) = 34 + 4 * pkt.th_len + Len(pkt.load.data)
    BY <1>2, <1>3, <2>2
  <2>4. Kept(34 + 4 * pkt.th_len)
    <3>1. \A h \in 5..15, d \in Nat : \A i \in 1..(34 + 4 * h) : i \in 1..(34 + 4 * h + d)
      OBVIOUS
    <3>2. \A i \in 1..(34 + 4 * pkt.th_len) : i \in 1..n
      <4> HIDE DEF n
      <4> QED BY <1>2, <2>1, <2>3, <3>1
    <3> QED BY <1>7, <3>2 DEF Kept, b
  <2>5. s = b
    <3>1. s \in Seq(Byte) /\ Len(s) = Len(b) /\ \A i \in 1..Len(b) : s[i] = b[i]
      BY <1>5, <2>1 DEF OfLen
    <3> HIDE DEF s
    <3> QED BY <1>3, <3>1, SeqEqual
  <2> QED BY <1>1, <2>4, <2>5
<1>11. pkt_data \in Seq(Byte)
  BY <1>6 DEF OfLen
<1> QED BY <1>1, <1>8, <1>9, <1>10, <1>11 DEF BytesInv, b

\* Handling a frame keeps what is known of its bytes.
LEMMA BytesNext ==
  ASSUME BytesInv, [Next]_pvars
  PROVE  BytesInv'
<1> USE DEF BytesInv
<1>1. CASE UNCHANGED pvars
  BY <1>1 DEF pvars, HasHeaders, Caplen, Kept, AsSent
<1>2. CASE Next /\ UNCHANGED pkt_data
  <2>1. pkt' = pkt /\ pkt_data' = pkt_data /\ passes' = passes + 1
    BY <1>2 DEF Next
  <2>2. passes' \in Nat /\ passes' # 0
    BY <2>1
  <2> QED BY <2>1, <2>2 DEF HasHeaders, Caplen, Kept, AsSent
<1>3. CASE Next /\ Handle
  <2>1. pkt' = pkt /\ pkt_data' = Left /\ passes' = passes + 1 /\ HasPayload
    BY <1>3 DEF Next, Handle, Left, Parsed, Text
  <2>2. /\ OfLen(Left, Len(pkt_data)) /\ \A i \in 1..Payload : Left[i] = pkt_data[i]
        /\ Payload \in 34..94
    BY <2>1, LeftIs, TextIs
  <2>3. passes' \in Nat /\ passes' # 0
    BY <2>1
  <2>4. pkt_data' \in Seq(Byte) /\ Caplen' = Caplen
    BY <2>1, <2>2 DEF OfLen, Caplen
  <2>5. Kept(34) => Kept(34)'
    <3>1. \A i \in 1..34 : i \in 1..Payload
      BY <2>2
    <3> QED BY <2>1, <2>2, <3>1 DEF Kept
  <2>6. AsSent => Kept(34 + 4 * pkt.th_len)'
    <3> SUFFICES ASSUME AsSent PROVE Kept(34 + 4 * pkt.th_len)'
      OBVIOUS
    <3>1. Payload = 34 + 4 * pkt.th_len
      BY ArePortsRead DEF PortsRead
    <3> HIDE DEF BytesInv
    <3>2. Kept(Payload)
      BY <3>1 DEF BytesInv
    <3> QED BY <2>1, <2>2, <3>1, <3>2 DEF Kept
  <2> QED BY <2>1, <2>3, <2>4, <2>5, <2>6 DEF HasHeaders, AsSent
<1> QED BY <1>1, <1>2, <1>3 DEF Next, TooSmall, NotIP, NotTCP, NoPayload, Foreign, Discard

-----------------------------------------------------------------------------
\* What a pass hands on of a frame that comes to the lookups.
Recorded == [item |-> stPortItem, usflag |-> Direction,
             data |-> Field(Payload, Caplen - Payload),
             ret |-> Parsed.ret, cmd |-> Parsed.cmd]
Concerned == HasPayload /\ MonitoredIp \in {pkt.src, pkt.dst}

\* A pass hands something on if and only if the frame has a payload and one
\* of its addresses is monitored.
LEMMA PassIs ==
  ASSUME BytesInv, Next
  PROVE  /\ pkt' = pkt /\ Caplen' = Caplen /\ passes' = passes + 1
         /\ handled' = IF Concerned THEN Recorded ELSE Nothing
         /\ Concerned => Recorded \in Handed
<1>1. HasHeaders => HeadersRead
  BY AreHeadersRead
<1>2. pkt' = pkt /\ passes' = passes + 1
  BY DEF Next
<1>3. HasPayload => (Concerned <=> Monitors(stPortItem.sip) \/ Monitors(stPortItem.dip))
  BY <1>1 DEF HasPayload, HeadersRead, Concerned
<1>4. Concerned => Recorded \in Handed
  <2> SUFFICES ASSUME Concerned PROVE Recorded \in Handed
    OBVIOUS
  <2>1. stPortItem \in PortItem
    BY <1>1 DEF Concerned, HasPayload, HeadersRead
  <2>2. Parsed.ret \in {0, -1} /\ Parsed.cmd \in Seq(Byte)
    BY LeftIs DEF Concerned
  <2>3. Field(Payload, Caplen - Payload) \in Seq(Byte)
    <3>1. Payload \in Nat /\ Caplen - Payload \in Nat /\ pkt_data \in Seq(Byte)
      BY TextIs DEF BytesInv, Concerned
    <3> QED BY <3>1, FieldType
  <2>4. Direction \in {en_IN, en_OUT}
    BY DEF Direction
  <2> HIDE DEF Concerned
  <2> QED BY <2>1, <2>2, <2>3, <2>4 DEF Recorded, Handed
<1>5. CASE ~HasPayload
  <2>1. ~Foreign /\ ~Handle /\ ~Concerned
    BY <1>5 DEF Foreign, Handle, Concerned
  <2>2. handled' = Nothing /\ pkt_data' = pkt_data
    BY <2>1 DEF Next, TooSmall, NotIP, NotTCP, NoPayload, Discard
  <2> QED BY <1>2, <1>4, <2>1, <2>2 DEF Caplen
<1>6. CASE HasPayload /\ ~Concerned
  <2>1. ~TooSmall /\ ~NotIP /\ ~NotTCP /\ ~Handle
    BY <1>3, <1>6 DEF HasPayload, TooSmall, NotIP, NotTCP, Handle
  <2>2. Foreign \/ NoPayload
    BY <2>1 DEF Next
  <2>3. handled' = Nothing /\ pkt_data' = pkt_data
    BY <2>2 DEF Foreign, NoPayload, Discard
  <2> QED BY <1>2, <1>4, <1>6, <2>3 DEF Caplen
<1>7. CASE Concerned
  <2>1. HasPayload
    BY <1>7 DEF Concerned
  <2>2. Payload < Caplen /\ Payload \in Nat /\ Caplen \in Nat
    BY <2>1, TextIs DEF HasPayload
  <2>3. ~(Payload >= Caplen)
    BY ONLY <2>2
  <2>4. ~TooSmall /\ ~NotIP /\ ~NotTCP /\ ~NoPayload /\ ~Foreign
    BY <1>3, <1>7, <2>1, <2>3 DEF HasPayload, TooSmall, NotIP, NotTCP, NoPayload, Foreign
  <2>5. Handle
    BY <2>4 DEF Next
  <2>6. pkt_data' = Left /\ handled' = Recorded
    BY <2>5 DEF Handle, Left, Recorded, Parsed, Text
  <2>7. Len(Left) = Len(pkt_data)
    BY <2>1, LeftIs DEF OfLen
  <2> QED BY <1>2, <1>4, <1>7, <2>6, <2>7 DEF Caplen
<1> QED BY <1>5, <1>6, <1>7

\* No pass reads further than the headers of a frame that has them.
LEMMA PassReads ==
  ASSUME BytesInv, Next, reach \in Nat, reach <= Caplen
  PROVE  reach' \in Nat /\ reach' <= Caplen
<1>1. Caplen \in Nat
  BY DEF BytesInv
<1> DEFINE c == Caplen
<1>2. \/ reach' = reach
      \/ c >= 54 /\ reach' \in {14, 24, 47}
  <2>1. CASE TooSmall
    <3>1. reach' = IF 0 > reach THEN 0 ELSE reach
      BY <2>1 DEF TooSmall, Discard, Reads
    <3> QED BY <3>1
  <2>2. CASE ~TooSmall
    <3>1. NotIP \/ NotTCP \/ NoPayload \/ Foreign \/ Handle
      BY <2>2 DEF Next
    <3>2. /\ c >= 54
          /\ \E upto \in {14, 24, 47} : reach' = IF upto > reach THEN upto ELSE reach
      BY <3>1 DEF NotIP, NotTCP, NoPayload, Foreign, Handle, HasPayload, HasHeaders, Discard, Reads,
                  ip_p, th_len, TCP_HDR, IP_HDR
    <3> QED BY <3>2
  <2> QED BY <2>1, <2>2
<1> HIDE DEF c
<1> QED BY <1>1, <1>2 DEF c

\* Of a packet that is all there and has no IP options: module Tracer accepts
\* it if and only if a pass hands something on.
LEMMA AcceptedIs ==
  ASSUME BytesInv, AsSent
  PROVE  T!Accepted(Frame) <=> Concerned
<1>1. /\ HasHeaders /\ Payload = 34 + 4 * pkt.th_len /\ HeadersRead
  BY ArePortsRead, AreHeadersRead DEF PortsRead
<1>2. pkt \in Packets
  BY DEF BytesInv
<1>3. Number(pkt.eth) = 2048 <=> pkt.eth[1] = 8 /\ pkt.eth[2] = 0
  <2>1. pkt.eth[1] \in Byte /\ pkt.eth[2] \in Byte
    <3>1. pkt.eth \in Seq(Byte) /\ Len(pkt.eth) = 2
      BY <1>2, PacketIs
    <3>2. 1 \in 1..Len(pkt.eth) /\ 2 \in 1..Len(pkt.eth)
      BY <3>1
    <3> QED BY <3>1, <3>2, ElementOfSeq
  <2>2. \A x, y \in Byte : x * 256 + y = 2048 <=> x = 8 /\ y = 0
    BY DEF Byte
  <2> QED BY <2>1, <2>2 DEF Number
<1>4. Frame.key[1] \in {e \in Ends : e[1] = MonitoredIp} <=> pkt.src = MonitoredIp
  <2>1. <<pkt.src, pkt.sport>> \in Ends
    BY <1>2 DEF Ends
  <2> QED BY <2>1 DEF Frame
<1>5. Frame.key[2] \in {e \in Ends : e[1] = MonitoredIp} <=> pkt.dst = MonitoredIp
  <2>1. <<pkt.dst, pkt.dport>> \in Ends
    BY <1>2 DEF Ends
  <2> QED BY <2>1 DEF Frame
<1>6. T!HasPayload(Frame) <=> pkt.ip_v = 4 /\ pkt.ip_p = 6 /\ Payload < Caplen
  <2>1. T!PayloadOffset(Frame) = 14 + 20 + 4 * pkt.th_len
    BY DEF T!PayloadOffset, Frame
  <2>2. 14 + 20 + 4 * pkt.th_len = Payload
    BY <1>1, <1>2, PacketIs
  <2> QED BY <2>1, <2>2 DEF T!HasPayload, T!IPv4, T!TCP, Frame
<1>7. T!Accepted(Frame) <=>
        /\ Caplen >= 54 /\ Number(pkt.eth) = 2048 /\ T!HasPayload(Frame)
        /\ pkt.src = MonitoredIp \/ pkt.dst = MonitoredIp
  <2>1. Frame.caplen = Caplen /\ Frame.eth = Number(pkt.eth)
    BY DEF Frame
  <2> QED BY <1>4, <1>5, <2>1 DEF T!Accepted, T!MinCaplen, T!EtherIP
<1>8. T!Accepted(Frame) <=>
        /\ HasHeaders /\ IsIP /\ IsTCP /\ Payload < Caplen
        /\ pkt.src = MonitoredIp \/ pkt.dst = MonitoredIp
  BY <1>1, <1>3, <1>6, <1>7 DEF HeadersRead, HasHeaders
<1> QED BY <1>8 DEF Concerned, HasPayload

\* The first time, the payload is what was sent.
LEMMA TextSent ==
  ASSUME BytesInv, AsSent, HasPayload, passes = 0
  PROVE  /\ Caplen - Payload = Len(pkt.load.data) /\ Len(pkt.load.data) \in Nat \ {0}
         /\ Text = pkt.load.data \o pkt.behind
         /\ Field(Payload, Caplen - Payload) = pkt.load.data
<1> DEFINE b == Bytes(pkt)
           d == Len(pkt.load.data)
           h == Payload
           c == Caplen
<1>1. /\ pkt \in Packets /\ pkt_data \in Seq(Byte) /\ pkt_data = b \o pkt.behind
  BY DEF BytesInv
<1>2. /\ pkt.load.data \in Seq(Byte) /\ d \in Nat
      /\ pkt.behind \in Seq(Byte) /\ Len(pkt.behind) = 2
  BY <1>1, PacketIs
<1>3. h = 34 + 4 * pkt.th_len /\ c = 34 + 4 * pkt.th_len + d
  BY ArePortsRead DEF PortsRead
<1>4. /\ h \in Nat /\ c - h \in Nat \ {0} /\ c = h + d
      /\ OfLen(Text, (c - h) + 2)
      /\ \A i \in 1..((c - h) + 2) : Text[i] = pkt_data[h + i]
  BY <1>3, TextIs
<1>5. b \in Seq(Byte) /\ Len(b) = h + d /\ \A i \in 1..d : b[h + i] = pkt.load.data[i]
  <2>1. Layout(pkt, b) /\ 4 * (pkt.ip_hl - 5) = 0
    BY <1>1, LayoutIs DEF AsSent
  <2> HIDE DEF b
  <2>2. 34 + 0 + 4 * pkt.th_len = h
    BY <1>1, <1>3, PacketIs
  <2> QED BY <2>1, <2>2 DEF Layout
<1> HIDE DEF b, h, c, d
<1>6. c - h = d
  BY ONLY <1>2, <1>4
<1>7. /\ OfLen(pkt_data, (h + d) + 2) /\ Begins(b, h + d, pkt_data)
      /\ Placed(pkt.behind, h + d, 2, pkt_data)
  <2>1. OfLen(b, h + d) /\ OfLen(pkt.behind, 2) /\ h + d \in Nat
    BY <1>2, <1>4, <1>5 DEF OfLen
  <2> QED BY <1>1, <2>1, JoinedIs
<1>8. \A i \in 1..d : pkt_data[h + i] = pkt.load.data[i]
  <2>1. \A i \in 1..d : h + i \in 1..(h + d)
    BY <1>2, <1>4
  <2> QED BY <1>5, <1>7, <2>1 DEF Begins
<1>9. /\ OfLen(pkt.load.data \o pkt.behind, d + 2)
      /\ Begins(pkt.load.data, d, pkt.load.data \o pkt.behind)
      /\ Placed(pkt.behind, d, 2, pkt.load.data \o pkt.behind)
  <2>1. OfLen(pkt.load.data, d) /\ OfLen(pkt.behind, 2)
    BY <1>2 DEF OfLen, d
  <2> QED BY <1>2, <2>1, JoinedIs
<1>10. Text = pkt.load.data \o pkt.behind
  <2> DEFINE s == pkt.load.data \o pkt.behind
  <2> HIDE DEF s
  <2>1. \A i \in 1..(d + 2) : i \notin 1..d => \E j \in 1..2 : i = d + j /\ h + i = (h + d) + j
    <3> SUFFICES ASSUME NEW i \in 1..(d + 2), i \notin 1..d
                 PROVE  \E j \in 1..2 : i = d + j /\ h + i = (h + d) + j
      OBVIOUS
    <3>1. i - d \in 1..2 /\ i = d + (i - d) /\ h + i = (h + d) + (i - d)
      BY <1>2, <1>4
    <3> QED BY <3>1
  <2>2. \A i \in 1..(d + 2) : Text[i] = s[i]
    <3> SUFFICES ASSUME NEW i \in 1..(d + 2) PROVE Text[i] = s[i]
      OBVIOUS
    <3>1. Text[i] = pkt_data[h + i]
      BY <1>4, <1>6
    <3>2. CASE i \in 1..d
      BY <1>8, <1>9, <3>1, <3>2 DEF Begins, s
    <3>3. CASE i \notin 1..d
      <4>1. PICK j \in 1..2 : i = d + j /\ h + i = (h + d) + j
        BY <2>1, <3>3
      <4>2. s[d + j] = pkt.behind[j] /\ pkt_data[(h + d) + j] = pkt.behind[j]
        BY <1>7, <1>9 DEF Placed, s
      <4> QED BY <3>1, <4>1, <4>2
    <3> QED BY <3>2, <3>3
  <2>3. s \in Seq(Byte) /\ Len(s) = d + 2 /\ Text \in Seq(Byte) /\ Len(Text) = d + 2
    BY <1>4, <1>6, <1>9 DEF OfLen, s
  <2> QED BY <2>2, <2>3, SeqEqual DEF s
<1>11. Field(h, d) = pkt.load.data
  <2>1. h + d <= Len(pkt_data)
    <3>1. Len(pkt_data) = (h + d) + 2
      BY <1>7 DEF OfLen
    <3> QED BY <1>2, <1>4, <3>1
  <2>2. Len(pkt.load.data) = d
    BY DEF d
  <2> QED BY <1>1, <1>2, <1>4, <1>8, <2>1, <2>2, FieldIs
<1>12. d \in Nat \ {0}
  BY <1>4, <1>6
<1> QED BY <1>6, <1>10, <1>11, <1>12 DEF h, c, d

\* What the theorems are about, with the bytes they rest on.
PacketInv == BytesInv /\ reach \in Nat /\ ReadsInside /\ AsTracerSees /\ AddressesRight /\ MatchesGrammar

\* A pass of the loop leaves a frame as module Tracer has it.
LEMMA PassSeen ==
  ASSUME BytesInv, BytesInv', Next
  PROVE  AsTracerSees'
<1> SUFFICES ASSUME AsSent'
             PROVE  /\ (handled # Nothing)' <=> T!Accepted(Frame)'
                    /\ (handled # Nothing)' =>
                         /\ (<<<<Reverse(handled.item.sip), Reverse(handled.item.sport)>>,
                              <<Reverse(handled.item.dip), Reverse(handled.item.dport)>>>> = Frame.key)'
                         /\ (passes = 1)' => (handled.data = pkt.load.data)'
  BY DEF AsTracerSees
<1>1. /\ pkt' = pkt /\ Caplen' = Caplen /\ passes' = passes + 1
      /\ handled' = IF Concerned THEN Recorded ELSE Nothing
      /\ Concerned => Recorded \in Handed
  BY PassIs
<1>2. AsSent /\ Frame' = Frame
  BY <1>1 DEF AsSent, Frame
<1>3. T!Accepted(Frame)' <=> T!Accepted(Frame)
  BY <1>1, <1>2 DEF T!Accepted, T!HasPayload, T!PayloadOffset, T!EtherIP, T!IPv4, T!TCP, T!MinCaplen
<1>4. handled' # Nothing <=> Concerned
  BY <1>1, NothingAssumption
<1>5. T!Accepted(Frame) <=> Concerned
  BY <1>2, AcceptedIs
<1>6. ASSUME Concerned
      PROVE  <<<<Reverse(handled'.item.sip), Reverse(handled'.item.sport)>>,
               <<Reverse(handled'.item.dip), Reverse(handled'.item.dport)>>>> = Frame.key
  <2>1. handled'.item = stPortItem
    BY <1>1, <1>6 DEF Recorded
  <2>2. /\ stPortItem.sip = Reverse(pkt.src) /\ stPortItem.dip = Reverse(pkt.dst)
        /\ stPortItem.sport = Reverse(pkt.sport) /\ stPortItem.dport = Reverse(pkt.dport)
    BY <1>2, ArePortsRead, AreHeadersRead DEF PortsRead, HeadersRead
  <2>3. /\ Reverse(Reverse(pkt.src)) = pkt.src /\ Reverse(Reverse(pkt.dst)) = pkt.dst
        /\ Reverse(Reverse(pkt.sport)) = pkt.sport /\ Reverse(Reverse(pkt.dport)) = pkt.dport
    <3>1. /\ pkt.src \in Seq(Byte) /\ Len(pkt.src) = 4 /\ pkt.dst \in Seq(Byte) /\ Len(pkt.dst) = 4
          /\ pkt.sport \in Seq(Byte) /\ Len(pkt.sport) = 2
          /\ pkt.dport \in Seq(Byte) /\ Len(pkt.dport) = 2
      BY PacketIs DEF BytesInv
    <3> QED BY <3>1, ReverseIs
  <2> QED BY <2>1, <2>2, <2>3 DEF Frame
<1>7. ASSUME Concerned, passes' = 1
      PROVE  handled'.data = pkt.load.data
  <2>1. passes = 0
    BY <1>1, <1>7 DEF BytesInv
  <2>2. HasPayload
    BY <1>7 DEF Concerned
  <2>3. Field(Payload, Caplen - Payload) = pkt.load.data
    BY <1>2, <2>1, <2>2, TextSent
  <2> QED BY <1>1, <1>7, <2>3 DEF Recorded
<1> QED BY <1>1, <1>2, <1>3, <1>4, <1>5, <1>6, <1>7

\* And the answer of the parser right.
LEMMA PassRight ==
  ASSUME BytesInv, Next
  PROVE  AddressesRight' /\ MatchesGrammar'
<1>1. /\ pkt' = pkt /\ Caplen' = Caplen /\ passes' = passes + 1
      /\ handled' = IF Concerned THEN Recorded ELSE Nothing
  BY PassIs
<1>2. CASE ~Concerned
  BY <1>1, <1>2 DEF AddressesRight, MatchesGrammar
<1>3. CASE Concerned
  <2>1. HasPayload /\ HasHeaders /\ MonitoredIp \in {pkt.src, pkt.dst} /\ handled' = Recorded
    BY <1>1, <1>3 DEF Concerned, HasPayload
  <2>2. AddressesRight'
    <3>1. Monitors(stPortItem.sip) <=> MonitoredIp = pkt.src
      BY <2>1, AreHeadersRead DEF HeadersRead
    <3>2. handled'.usflag = Direction
      BY <2>1 DEF Recorded
    <3>3. Direction = en_OUT <=> MonitoredIp = pkt.src
      BY <3>1 DEF Direction, en_OUT, en_IN
    <3> QED BY <1>1, <2>1, <3>2, <3>3 DEF AddressesRight, en_OUT
  <2>3. MatchesGrammar'
    <3> SUFFICES ASSUME passes' = 1, AsSent'
                 PROVE  RightAnswer(pkt.load.data \o pkt.behind, Len(pkt.load.data), Recorded)
      BY <1>1, <2>1 DEF MatchesGrammar
    <3>1. passes = 0 /\ AsSent
      BY <1>1 DEF BytesInv, AsSent
    <3>2. /\ Caplen - Payload = Len(pkt.load.data) /\ Len(pkt.load.data) \in Nat \ {0}
          /\ Text = pkt.load.data \o pkt.behind
      BY <2>1, <3>1, TextSent
    <3>3. Text \in Seq(Byte) /\ Len(Text) = (Caplen - Payload) + Behind
      BY <2>1, TextIs DEF OfLen, Behind
    <3>4. RightAnswer(Text, Len(pkt.load.data), Parsed)
      BY <3>2, <3>3, ParsesGrammar DEF Parsed
    <3>5. Recorded.ret = Parsed.ret /\ Recorded.cmd = Parsed.cmd
      BY DEF Recorded
    <3> QED BY <3>2, <3>4, <3>5 DEF RightAnswer
  <2> QED BY <2>2, <2>3
<1> QED BY <1>2, <1>3

\* The invariant holds at first and after every pass.
LEMMA PacketInvariant == Spec => []PacketInv
<1>1. Init => PacketInv
  <2> SUFFICES ASSUME Init PROVE PacketInv
    OBVIOUS
  <2>1. BytesInv
    BY BytesInit
  <2>2. reach = 0 /\ passes = 0 /\ handled = Nothing
    BY DEF Init
  <2>3. Caplen \in Nat
    BY <2>1 DEF BytesInv
  <2> QED BY <2>1, <2>2, <2>3 DEF PacketInv, ReadsInside, AsTracerSees, AddressesRight, MatchesGrammar
<1>2. PacketInv /\ [Next]_pvars => PacketInv'
  <2> SUFFICES ASSUME PacketInv, [Next]_pvars PROVE PacketInv'
    OBVIOUS
  <2>1. BytesInv /\ BytesInv'
    BY BytesNext DEF PacketInv
  <2>2. CASE Next
    <3>1. reach' \in Nat /\ reach' <= Caplen /\ Caplen' = Caplen
      BY <2>1, <2>2, PassReads, PassIs DEF PacketInv, ReadsInside
    <3> QED BY <2>1, <2>2, <3>1, PassSeen, PassRight DEF PacketInv, ReadsInside
  <2>3. CASE UNCHANGED pvars
    <3>1. pkt' = pkt /\ pkt_data' = pkt_data /\ passes' = passes /\ reach' = reach /\ handled' = handled
      BY <2>3 DEF pvars
    <3>2. Caplen' = Caplen /\ AsSent' = AsSent /\ Frame' = Frame
      BY <3>1 DEF Caplen, AsSent, Frame
    <3>3. T!Accepted(Frame)' <=> T!Accepted(Frame)
      BY <3>2 DEF T!Accepted, T!HasPayload, T!PayloadOffset, T!EtherIP, T!IPv4, T!TCP, T!MinCaplen
    <3>4. ReadsInside' /\ AddressesRight' /\ MatchesGrammar'
      BY <3>1, <3>2 DEF PacketInv, ReadsInside, AddressesRight, MatchesGrammar
    <3>5. AsTracerSees'
      BY <3>1, <3>2, <3>3 DEF PacketInv, AsTracerSees
    <3> QED BY <2>1, <3>1, <3>4, <3>5 DEF PacketInv
  <2> QED BY <2>2, <2>3
<1> QED BY <1>1, <1>2, PTL DEF Spec

\* The 54 bytes the loop asks for hold every header field the handler reads,
\* whatever the lengths the headers claim.
THEOREM HeadersInside == Spec => []ReadsInside
BY PacketInvariant, PTL DEF PacketInv

\* Whatever the fields and the payload of a packet: byte order, the offsets
\* and the parser that overwrites what it has read agree with the record
\* module Tracer takes the packet for, however often it is handled.
THEOREM TracerFaithful == Spec => []AsTracerSees
BY PacketInvariant, PTL DEF PacketInv

\* IP options or not: pkt_recv hands on only frames of the monitored host, and
\* usflag says which of the two sent them.
THEOREM RightHosts == Spec => []AddressesRight
BY PacketInvariant, PTL DEF PacketInv

\* What redis_cmd_parse answers of a payload on the wire is right by the
\* grammar of requests, through all the headers in front of it.
THEOREM RequestsRecognised == Spec => []MatchesGrammar
BY PacketInvariant, PTL DEF PacketInv
=============================================================================
