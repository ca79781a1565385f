---------------------------- MODULE TracerProofs ----------------------------
(***************************************************************************)
(* The tracer, for all frames, addresses and times: its invariants and     *)
(* action property; and that every printed line pairs two frames of        *)
(* opposite directions that were captured at the times it is computed      *)
(* from.                                                                   *)
(*                                                                         *)
(* What it makes of Redis clients and servers, for any number of           *)
(* connections and any requests and replies: an entry the wrong way round  *)
(* is that of an array reply to a request that was not heard; a stale one  *)
(* is that of a lost reply; and when nothing is lost the printed log is    *)
(* the one module LatencyLog describes.                                    *)
(*                                                                         *)
(* And of clients that pipeline: its one entry a connection is that of the *)
(* requests since the last reply, and a line never says more time than the *)
(* client has waited.                                                      *)
(*                                                                         *)
(* What happens on the wire does not have all of these properties whatever *)
(* is sent.  What each theorem asks of the environment is a named          *)
(* hypothesis, true of the runs that check the property; that the log is   *)
(* the ideal one, for instance, asks that no array reply is handled again  *)
(* after a timeout, which takes it for a request.                          *)
(***************************************************************************)
EXTENDS TracerHistory, RedisSession, RedisPipeline, RedisCmdProofs

\* What a pass of the loop can be given: a frame with its payload, or the
\* zeroed header that libpcap starts with.
Input(f, ts, buf) ==
  /\ f \in Frames \cup {NoFrame}
  /\ ts \in Nat
  /\ f # NoFrame => buf \in [1..(Len(f.data) + Behind) -> Byte]

\* A frame that gets past the guards is one that was delivered; its payload
\* is not empty.
LEMMA AcceptedFrame ==
  ASSUME NEW f \in Frames \cup {NoFrame}, Accepted(f)
  PROVE  /\ f \in Frames /\ f # NoFrame
         /\ f.key \in Directions /\ Rev(f.key) \in Directions /\ Rev(Rev(f.key)) = f.key
         /\ f.data \in Seq(Byte) /\ Len(f.data) \in Nat \ {0}
<1>1. f # NoFrame
  BY DEF Accepted, NoFrame, MinCaplen
<1>2. f \in Frames
  BY <1>1
<1>3. f.key \in Directions /\ f.data \in Seq(Byte)
  BY <1>2, FramesAssumption
<1>4. Rev(f.key) \in Directions /\ Rev(Rev(f.key)) = f.key
  BY <1>3 DEF Directions, Rev
<1>5. Len(f.data) \in Nat \ {0}
  <2>1. f.len \in Nat /\ f.th_len \in Nat
    BY <1>2, FramesAssumption
  <2>2. HasPayload(f)
    BY DEF Accepted
  <2>3. Len(f.data) = f.len - PayloadOffset(f)
    BY <1>2, <2>2, FramesAssumption
  <2>4. PayloadOffset(f) < f.len
    BY <2>2 DEF HasPayload
  <2>5. PayloadOffset(f) \in Nat
    BY <2>1 DEF PayloadOffset
  <2> QED BY <2>1, <2>3, <2>4, <2>5
<1> QED BY <1>1, <1>2, <1>3, <1>4, <1>5

\* The numbers of a line are natural numbers.
LEMMA ReportType ==
  ASSUME NEW k \in Directions, NEW item \in Item, NEW ts \in Nat
  PROVE  Report(k, item, ts) \in Line
<1>1. UIntMod \in Nat \ {0} /\ ULongMod \in Nat \ {0}
  BY UIntModAssumption DEF ULongMod
<1>2. \A t \in Nat : Micros(t) \in Nat
  BY <1>1 DEF Micros
<1>3. item.ts \in Nat /\ item.cmd \in Seq(Byte)
  BY DEF Item
<1>4. Elapsed(item.ts, ts) \in Nat
  <2>1. Micros(ts) - Micros(item.ts) \in Int
    <3>1. Micros(ts) \in Nat /\ Micros(item.ts) \in Nat
      BY <1>2, <1>3, Zenon
    <3> QED BY ONLY <3>1
  <2>2. \A i \in Int, m \in Nat \ {0} : i % m \in Nat
    OBVIOUS
  <2>3. (Micros(ts) - Micros(item.ts)) % ULongMod \in Nat
    BY ONLY <1>1, <2>1, <2>2
  <2> QED BY ONLY <2>3 DEF Elapsed
<1>5. Report(k, item, ts) =
        [cmd |-> item.cmd, r |-> Micros(item.ts), a |-> Micros(ts),
         es |-> Elapsed(item.ts, ts), key |-> k, asked |-> item.ts, answered |-> ts]
  BY DEF Report
<1>6. Micros(item.ts) \in Nat /\ Micros(ts) \in Nat
  BY <1>2, <1>3, Zenon
<1> QED BY ONLY k \in Directions, ts \in Nat, <1>3, <1>4, <1>5, <1>6 DEF Line

\* One pass of the loop keeps the types.
LEMMA PassType ==
  ASSUME TypeOK, NEW f, NEW ts, NEW buf, Input(f, ts, buf),
         pkt_recv(f, ts, buf), running' = running
  PROVE  TypeOK'
<1> USE DEF Input
<1>1. CASE Skip(f, ts, buf)
  BY <1>1 DEF Skip, TypeOK
<1>2. CASE Answer(f, ts, buf)
  <2>1. f.key \in Directions /\ f.key \in DOMAIN table /\ table[f.key] \in Item
    BY <1>2, AcceptedFrame DEF Answer, TypeOK
  <2>2. line' \in Line
    BY <1>2, <2>1, ReportType DEF Answer
  <2>3. /\ DOMAIN table' \subseteq DOMAIN table
        /\ \A k \in DOMAIN table' : table'[k] = table[k]
    BY <1>2 DEF Answer, Without
  <2> QED BY <1>2, <2>2, <2>3 DEF Answer, TypeOK
<1>3. CASE Again(f, ts, buf)
  <2>1. /\ DOMAIN table' = DOMAIN table
        /\ \A k \in DOMAIN table : table'[k] \in Item
    BY <1>3 DEF Again, TypeOK, Item
  <2> QED BY <1>3, <2>1 DEF Again, TypeOK
<1>4. CASE Request(f, ts, buf)
  <2> DEFINE parsed == redis_cmd_parse(buf, Len(f.data))
  <2>1. /\ f \in Frames /\ f # NoFrame /\ Rev(f.key) \in Directions
        /\ Len(f.data) \in Nat \ {0}
    BY <1>4, AcceptedFrame DEF Request
  <2>2. buf \in Seq(Byte) /\ Len(buf) = Len(f.data) + Behind
    <3>1. buf \in [1..(Len(f.data) + Behind) -> Byte] /\ Len(f.data) + Behind \in Nat
      BY <2>1 DEF Behind
    <3> QED BY <3>1
  <2>3. /\ parsed.cmd \in Seq(Byte)
        /\ parsed.buf \in Seq(Byte) /\ Len(parsed.buf) = Len(f.data) + Behind
    BY <2>1, <2>2, ParseType
  <2>4. [ts |-> ts, cmd |-> CmdString(parsed.cmd)] \in Item
    BY <2>3, CmdStringFits DEF Item
  <2> HIDE DEF parsed
  <2>5. \/ table' = Put(table, Rev(f.key), [ts |-> ts, cmd |-> CmdString(parsed.cmd)])
        \/ table' = table
    BY <1>4 DEF Request, parsed
  <2>6. DOMAIN table' \subseteq Directions /\ \A k \in DOMAIN table' : table'[k] \in Item
    BY <2>1, <2>4, <2>5 DEF Put, TypeOK
  <2>7. /\ cap' = [frame |-> f, ts |-> ts, buf |-> parsed.buf]
        /\ line' = NoLine
    BY <1>4 DEF Request, parsed
  <2>8. parsed.buf \in [1..(Len(f.data) + Behind) -> Byte]
    BY <2>3, LenProperties
  <2> QED BY <2>1, <2>6, <2>7, <2>8 DEF TypeOK
<1> QED BY <1>1, <1>2, <1>3, <1>4 DEF pkt_recv

-----------------------------------------------------------------------------
\* The remainder is the one number below the modulus that is a multiple of
\* the modulus away.
LEMMA ModUnique ==
  ASSUME NEW U \in Nat \ {0}, NEW x \in Int, NEW k \in Int, NEW r \in Nat,
         r < U, x = U * k + r
  PROVE  x % U = r
<1> DEFINE q == x \div U
           m == x % U
<1>1. q \in Int /\ m \in Nat /\ m < U /\ x = U * q + m
  OBVIOUS
<1> HIDE DEF q, m
<1>2. U * (k - q) = m - r
  BY <1>1
<1>3. CASE k - q >= 1
  <2>1. U * (k - q) >= U
    BY <1>1, <1>3
  <2> QED BY <1>1, <1>2, <2>1
<1>4. CASE k - q <= -1
  <2>1. U * (k - q) <= -U
    BY <1>1, <1>4
  <2> QED BY <1>1, <1>2, <2>1
<1>5. CASE k = q
  BY <1>1, <1>5 DEF m
<1> QED BY <1>1, <1>3, <1>4, <1>5

\* The difference of two 32-bit counts, taken in 64 bits, is right modulo
\* 2^32, and exact when neither count wrapped between them.
LEMMA ElapsedDifference ==
  ASSUME NEW q \in Nat, NEW a \in Nat
  PROVE  /\ Elapsed(q, a) % UIntMod = (a - q) % UIntMod
         /\ (a \div UIntMod = q \div UIntMod /\ a >= q) => Elapsed(q, a) = a - q
<1> DEFINE U == UIntMod
           qd == q \div U
           ad == a \div U
           qm == q % U
           am == a % U
           d == am - qm
           e == d % (U * U)
           h == d \div (U * U)
<1>1. U \in Nat \ {0}
  BY UIntModAssumption
<1>2. U * U \in Nat \ {0} /\ U * U >= U
  BY <1>1
<1>3. /\ qd \in Int /\ qm \in Nat /\ qm < U /\ q = U * qd + qm
      /\ ad \in Int /\ am \in Nat /\ am < U /\ a = U * ad + am
  BY <1>1
<1>4. Elapsed(q, a) = e
  BY DEF Elapsed, Micros, ULongMod
<1> HIDE DEF U, qd, ad, qm, am
<1>5. d \in Int
  BY <1>3
<1> HIDE DEF d
<1>6. e \in Nat /\ h \in Int /\ d = U * U * h + e
  BY <1>2, <1>5
<1> HIDE DEF e, h
<1>7. e % U = (a - q) % U
  <2> DEFINE r == e % U
             k == e \div U
  <2>1. k \in Int /\ r \in Nat /\ r < U /\ e = U * k + r
    BY <1>1, <1>6
  <2> HIDE DEF r, k
  <2>2. a - q = U * (ad - qd) + d
    BY <1>1, <1>3 DEF d
  <2>3. a - q = U * (ad - qd + U * h + k) + r
    BY <1>1, <1>3, <1>5, <1>6, <2>1, <2>2
  <2>4. ad - qd + U * h + k \in Int /\ a - q \in Int
    BY <1>1, <1>3, <1>6, <2>1
  <2>5. (a - q) % U = r
    BY <1>1, <2>1, <2>3, <2>4, ModUnique
  <2> QED BY <2>5 DEF r
<1>8. (ad = qd /\ a >= q) => e = a - q
  <2> SUFFICES ASSUME ad = qd, a >= q PROVE e = a - q
    OBVIOUS
  <2>1. d = a - q
    BY <1>1, <1>3 DEF d
  <2>2. d \in Nat /\ d < U * U
    <3>1. d < U
      BY <1>1, <1>3 DEF d
    <3>2. d \in Nat
      BY <1>5, <1>3, <2>1
    <3> QED BY <1>1, <1>2, <3>1, <3>2
  <2>3. d % (U * U) = d
    BY <1>2, <2>2
  <2> QED BY <2>1, <2>3 DEF e
<1> QED BY <1>4, <1>7, <1>8 DEF U, ad, qd

-----------------------------------------------------------------------------
\* One pass of the loop keeps a connection from being open both ways.
LEMMA PassOneDirection ==
  ASSUME TypeOK, OneDirection,
         NEW f, NEW ts, NEW buf, Input(f, ts, buf), pkt_recv(f, ts, buf)
  PROVE  OneDirection'
<1>1. CASE Skip(f, ts, buf)
  BY <1>1 DEF Skip, OneDirection
<1>2. CASE Answer(f, ts, buf)
  <2>1. DOMAIN table' \subseteq DOMAIN table
    BY <1>2 DEF Answer, Without
  <2> QED BY <2>1 DEF OneDirection
<1>3. CASE Again(f, ts, buf)
  <2>1. DOMAIN table' = DOMAIN table
    BY <1>3 DEF Again
  <2> QED BY <2>1 DEF OneDirection
<1>4. CASE Request(f, ts, buf)
  <2>1. /\ f.key \notin DOMAIN table /\ Rev(f.key) \notin DOMAIN table
        /\ DOMAIN table' \subseteq DOMAIN table \cup {Rev(f.key)}
    BY <1>4 DEF Request, Put
  <2>2. Rev(Rev(f.key)) = f.key /\ f.key \in Directions
    BY <1>4, AcceptedFrame DEF Request, Input
  <2>3. \A k \in DOMAIN table : k \in Directions /\ Rev(Rev(k)) = k
    BY DEF TypeOK, Directions, Rev
  <2> SUFFICES ASSUME NEW k \in DOMAIN table', Rev(k) \in DOMAIN table'
               PROVE  Rev(k) = k
    BY DEF OneDirection
  <2>4. CASE k \in DOMAIN table
    BY <2>1, <2>2, <2>3, <2>4 DEF OneDirection
  <2>5. CASE k = Rev(f.key)
    BY <2>1, <2>2, <2>5
  <2> QED BY <2>1, <2>4, <2>5
<1> QED BY <1>1, <1>2, <1>3, <1>4 DEF pkt_recv

\* Only accepted frames make entries, and these have a monitored end.
LEMMA PassMonitored ==
  ASSUME MonitoredOnly, NEW f, NEW ts, NEW buf, pkt_recv(f, ts, buf)
  PROVE  MonitoredOnly'
<1>1. DOMAIN table' \subseteq DOMAIN table
      \/ (Accepted(f) /\ DOMAIN table' \subseteq DOMAIN table \cup {Rev(f.key)})
  BY DEF pkt_recv, Skip, Answer, Again, Request, Put, Without
<1>2. CASE DOMAIN table' \subseteq DOMAIN table
  BY <1>2 DEF MonitoredOnly
<1>3. CASE Accepted(f) /\ DOMAIN table' \subseteq DOMAIN table \cup {Rev(f.key)}
  BY <1>3 DEF MonitoredOnly, Accepted, Rev
<1> QED BY <1>1, <1>2, <1>3

\* A line printed in this pass has the right elapsed time.
LEMMA PassElapsed ==
  ASSUME TypeOK, NEW f, NEW ts, NEW buf, Input(f, ts, buf), pkt_recv(f, ts, buf)
  PROVE  ElapsedRight'
<1>1. CASE Answer(f, ts, buf)
  <2> DEFINE q == table[f.key].ts
  <2>1. q \in Nat /\ ts \in Nat
    BY <1>1 DEF Answer, TypeOK, Item, Input
  <2>2. /\ line'.es = Elapsed(q, ts) /\ line'.asked = q /\ line'.answered = ts
    BY <1>1 DEF Answer, Report
  <2> HIDE DEF q
  <2> QED BY <2>1, <2>2, ElapsedDifference DEF ElapsedRight
<1>2. CASE line' = NoLine
  BY <1>2 DEF ElapsedRight
<1> QED BY <1>1, <1>2 DEF pkt_recv, Skip, Again, Request

\* What one pass may do to the entries.
LEMMA PassEntryLife ==
  ASSUME TypeOK, NEW f, NEW ts, NEW buf, Input(f, ts, buf), pkt_recv(f, ts, buf)
  PROVE  /\ \A k \in DOMAIN table \ DOMAIN table' :
              line' # NoLine /\ line'.key = k
         /\ \A k \in DOMAIN table \cap DOMAIN table' :
              table'[k].cmd = table[k].cmd
         /\ line' # NoLine =>
              /\ line'.key \in DOMAIN table \ DOMAIN table'
              /\ line'.cmd = table[line'.key].cmd
              /\ line'.asked = table[line'.key].ts
<1>1. CASE Skip(f, ts, buf)
  BY <1>1 DEF Skip
<1>2. CASE Answer(f, ts, buf)
  <2>1. /\ f.key \in DOMAIN table
        /\ DOMAIN table' = DOMAIN table \ {f.key}
        /\ \A k \in DOMAIN table' : table'[k] = table[k]
    BY <1>2 DEF Answer, Without
  <2>2. /\ line'.key = f.key
        /\ line'.cmd = table[f.key].cmd
        /\ line'.asked = table[f.key].ts
    BY <1>2 DEF Answer, Report
  <2>3. line' \in Line
    BY <1>2, <2>1, AcceptedFrame, ReportType DEF Answer, TypeOK, Input
  <2> QED BY <2>1, <2>2, <2>3, NoLineAssumption
<1>3. CASE Again(f, ts, buf)
  <2>1. /\ DOMAIN table' = DOMAIN table
        /\ \A k \in DOMAIN table : table'[k].cmd = table[k].cmd
    BY <1>3 DEF Again, TypeOK, Item
  <2> QED BY <1>3, <2>1 DEF Again
<1>4. CASE Request(f, ts, buf)
  <2>1. /\ Rev(f.key) \notin DOMAIN table
        /\ DOMAIN table \subseteq DOMAIN table'
        /\ \A k \in DOMAIN table : table'[k] = table[k]
    BY <1>4 DEF Request, Put
  <2> QED BY <1>4, <2>1 DEF Request
<1> QED BY <1>1, <1>2, <1>3, <1>4 DEF pkt_recv

-----------------------------------------------------------------------------
\* A payload and the bytes behind it.
LEMMA PayloadBuffer ==
  ASSUME NEW d \in Seq(Byte), NEW s \in [1..Behind -> Byte]
  PROVE  d \o s \in [1..(Len(d) + Behind) -> Byte]
<1>1. s \in Seq(Byte) /\ Len(s) = Behind
  <2>1. Behind \in Nat
    BY DEF Behind
  <2> QED BY <2>1, FunctionIsSequence
<1>2. d \o s \in Seq(Byte) /\ Len(d \o s) = Len(d) + Len(s)
  BY <1>1, ConcatProperties
<1> QED BY <1>1, <1>2, LenProperties

\* Every step of the tracer is a pass of the loop, or changes neither the
\* table nor what was captured.
LEMMA StepIsPass ==
  ASSUME TypeOK, Next
  PROVE  \/ \E f, ts, buf : Input(f, ts, buf) /\ pkt_recv(f, ts, buf) /\ running' = running
         \/ running' = FALSE /\ line' = NoLine /\ UNCHANGED <<cap, table>>
<1>1. ASSUME NEW f \in Frames, NEW ts \in Times, NEW stale \in Stale, Deliver(f, ts, stale)
      PROVE  Input(f, ts, f.data \o stale)
  <2>1. f.data \in Seq(Byte) /\ ts \in Nat
    BY FramesAssumption, TimesAssumption
  <2>2. stale \in [1..Behind -> Byte]
    BY StaleAssumption
  <2>3. f.data \o stale \in [1..(Len(f.data) + Behind) -> Byte]
    BY <2>1, <2>2, PayloadBuffer
  <2> QED BY <2>1, <2>3 DEF Input
<1>2. Input(cap.frame, cap.ts, cap.buf)
  BY DEF TypeOK, Input
<1> QED BY <1>1, <1>2 DEF Next, Deliver, Timeout, Fail

\* The tracer's state has the types TypeOK says.
THEOREM TypeCorrect == Spec => []TypeOK
<1>1. Init => TypeOK
  <2>1. DOMAIN << >> = {}
    OBVIOUS
  <2> QED BY <2>1 DEF Init, TypeOK
<1>2. TypeOK /\ [Next]_vars => TypeOK'
  <2>1. CASE UNCHANGED vars
    BY <2>1 DEF TypeOK, vars
  <2>2. CASE Next
    <3> SUFFICES ASSUME TypeOK PROVE TypeOK'
      BY <2>2
    <3>1. CASE \E f, ts, buf : Input(f, ts, buf) /\ pkt_recv(f, ts, buf) /\ running' = running
      BY <3>1, PassType
    <3>2. CASE running' = FALSE /\ line' = NoLine /\ UNCHANGED <<cap, table>>
      BY <3>2 DEF TypeOK
    <3> QED BY <2>2, <3>1, <3>2, StepIsPass
  <2> QED BY <2>1, <2>2
<1> QED BY <1>1, <1>2, PTL DEF Spec

Safety == OneDirection /\ MonitoredOnly /\ ElapsedRight

\* The three are inductive together with the types.
THEOREM SafetyCorrect == Spec => []Safety
<1>1. Init => Safety
  <2>1. DOMAIN << >> = {}
    OBVIOUS
  <2> QED BY <2>1 DEF Init, Safety, OneDirection, MonitoredOnly, ElapsedRight
<1>2. TypeOK /\ Safety /\ [Next]_vars => Safety'
  <2>1. CASE UNCHANGED vars
    BY <2>1 DEF Safety, OneDirection, MonitoredOnly, ElapsedRight, vars
  <2>2. CASE Next
    <3> SUFFICES ASSUME TypeOK, Safety PROVE Safety'
      BY <2>2
    <3>1. CASE \E f, ts, buf : Input(f, ts, buf) /\ pkt_recv(f, ts, buf) /\ running' = running
      BY <3>1, PassOneDirection, PassMonitored, PassElapsed DEF Safety
    <3>2. CASE running' = FALSE /\ line' = NoLine /\ UNCHANGED <<cap, table>>
      BY <3>2 DEF Safety, OneDirection, MonitoredOnly, ElapsedRight
    <3> QED BY <2>2, <3>1, <3>2, StepIsPass
  <2> QED BY <2>1, <2>2
<1> QED BY <1>1, <1>2, TypeCorrect, PTL DEF Spec

\* A connection is recorded in one direction at most (the two lookups of
\* pkt_recv).
THEOREM OneDirectionCorrect == Spec => []OneDirection
BY SafetyCorrect, PTL DEF Safety

\* Only connections of the monitored address are recorded.
THEOREM MonitoredOnlyCorrect == Spec => []MonitoredOnly
BY SafetyCorrect, PTL DEF Safety

\* The elapsed time printed by pkt_recv is right modulo 2^32, and exact when
\* the microsecond count did not wrap, whatever the width of unsigned int.
THEOREM ElapsedRightCorrect == Spec => []ElapsedRight
BY SafetyCorrect, PTL DEF Safety

\* An entry keeps its name until it is printed, and is printed once.
THEOREM EntryLifeCorrect == Spec => EntryLife
<1> DEFINE Life ==
      /\ \A k \in DOMAIN table \ DOMAIN table' :
           line' # NoLine /\ line'.key = k
      /\ \A k \in DOMAIN table \cap DOMAIN table' :
           table'[k].cmd = table[k].cmd
      /\ line' # NoLine =>
           /\ line'.key \in DOMAIN table \ DOMAIN table'
           /\ line'.cmd = table[line'.key].cmd
           /\ line'.asked = table[line'.key].ts
<1>1. TypeOK /\ Next => Life
  <2> SUFFICES ASSUME TypeOK, Next PROVE Life
    OBVIOUS
  <2>1. CASE \E f, ts, buf : Input(f, ts, buf) /\ pkt_recv(f, ts, buf) /\ running' = running
    BY <2>1, PassEntryLife
  <2>2. CASE running' = FALSE /\ line' = NoLine /\ UNCHANGED <<cap, table>>
    BY <2>2
  <2> QED BY <2>1, <2>2, StepIsPass
<1>2. TypeOK /\ [Next]_vars => [Life]_vars
  BY <1>1
<1> HIDE DEF Life
<1>3. Spec => [][Life]_vars
  BY <1>2, TypeCorrect, PTL DEF Spec
<1> QED BY <1>3 DEF EntryLife, Life

-----------------------------------------------------------------------------
\* What makes PairsOpposite inductive: the frame a timeout handles again was
\* heard when it came.
CaptureHeard == Accepted(cap.frame) => <<cap.frame.key, cap.ts>> \in heard

HInv == TypeOK /\ PairsOpposite /\ CaptureHeard

\* A pass over a frame that has been heard keeps the pairs.
LEMMA PassPairs ==
  ASSUME HInv, NEW f, NEW ts, NEW buf, Input(f, ts, buf), pkt_recv(f, ts, buf),
         heard \subseteq heard', Accepted(f) => <<f.key, ts>> \in heard'
  PROVE  PairsOpposite' /\ CaptureHeard'
<1> USE DEF HInv, PairsOpposite
<1>1. CaptureHeard'
  BY DEF pkt_recv, Skip, Answer, Again, Request, CaptureHeard
<1>2. CASE Skip(f, ts, buf)
  <2>1. table' = table /\ line' = NoLine
    BY <1>2 DEF Skip
  <2> QED BY <1>1, <2>1
<1>3. CASE Answer(f, ts, buf)
  <2>1. /\ f.key \in DOMAIN table
        /\ DOMAIN table' \subseteq DOMAIN table
        /\ \A k \in DOMAIN table' : table'[k] = table[k]
    BY <1>3 DEF Answer, Without
  <2>2. line'.key = f.key /\ line'.asked = table[f.key].ts /\ line'.answered = ts
    BY <1>3 DEF Answer, Report
  <2>3. <<f.key, ts>> \in heard'
    BY <1>3 DEF Answer
  <2> QED BY <1>1, <2>1, <2>2, <2>3
<1>4. CASE Again(f, ts, buf)
  <2>1. /\ DOMAIN table' = DOMAIN table
        /\ \A k \in DOMAIN table :
             table'[k].ts = IF k = Rev(f.key) THEN ts ELSE table[k].ts
    BY <1>4 DEF Again, TypeOK, Item
  <2>2. Rev(Rev(f.key)) = f.key /\ <<f.key, ts>> \in heard' /\ line' = NoLine
    BY <1>4, AcceptedFrame DEF Again, Input
  <2> QED BY <1>1, <2>1, <2>2
<1>5. CASE Request(f, ts, buf)
  <2>1. /\ Rev(f.key) \notin DOMAIN table
        /\ DOMAIN table' \subseteq DOMAIN table \cup {Rev(f.key)}
        /\ \A k \in DOMAIN table' :
             IF k = Rev(f.key) THEN table'[k].ts = ts
             ELSE k \in DOMAIN table /\ table'[k] = table[k]
    BY <1>5 DEF Request, Put
  <2>2. Rev(Rev(f.key)) = f.key /\ <<f.key, ts>> \in heard' /\ line' = NoLine
    BY <1>5, AcceptedFrame DEF Request, Input
  <2> QED BY <1>1, <2>1, <2>2
<1> QED BY <1>2, <1>3, <1>4, <1>5 DEF pkt_recv

\* Nothing is invented: see PairsOpposite.
THEOREM PairsOppositeCorrect == HSpec => []PairsOpposite
<1>1. HInit => HInv
  <2> SUFFICES ASSUME HInit PROVE HInv
    OBVIOUS
  <2>1. TypeOK
    <3>1. DOMAIN << >> = {}
      OBVIOUS
    <3> QED BY <3>1 DEF HInit, Init, TypeOK
  <2>2. PairsOpposite
    <3>1. DOMAIN << >> = {}
      OBVIOUS
    <3> QED BY <3>1 DEF HInit, Init, PairsOpposite
  <2>3. CaptureHeard
    BY DEF HInit, Init, CaptureHeard, Accepted, NoFrame, MinCaplen
  <2> QED BY <2>1, <2>2, <2>3 DEF HInv
<1>2. HInv /\ [HNext]_hvars => HInv'
  <2> SUFFICES ASSUME HInv, [HNext]_hvars PROVE HInv'
    OBVIOUS
  <2>1. CASE UNCHANGED hvars
    BY <2>1 DEF HInv, TypeOK, PairsOpposite, CaptureHeard, hvars, vars
  <2>2. ASSUME NEW f \in Frames, NEW ts \in Times, NEW stale \in Stale, HDeliver(f, ts, stale)
        PROVE  HInv'
    <3>1. Input(f, ts, f.data \o stale)
      BY FramesAssumption, TimesAssumption, StaleAssumption, PayloadBuffer DEF Input
    <3>2. /\ pkt_recv(f, ts, f.data \o stale) /\ running' = running
          /\ heard \subseteq heard' /\ (Accepted(f) => <<f.key, ts>> \in heard')
      BY <2>2 DEF HDeliver, Deliver
    <3>3. TypeOK'
      BY <3>1, <3>2, PassType DEF HInv
    <3> QED BY <3>1, <3>2, <3>3, PassPairs DEF HInv
  <2>3. CASE Timeout /\ UNCHANGED heard
    <3>1. Input(cap.frame, cap.ts, cap.buf)
      BY DEF HInv, TypeOK, Input
    <3>2. /\ pkt_recv(cap.frame, cap.ts, cap.buf) /\ running' = running
          /\ heard \subseteq heard'
          /\ (Accepted(cap.frame) => <<cap.frame.key, cap.ts>> \in heard')
      BY <2>3 DEF Timeout, HInv, CaptureHeard
    <3>3. TypeOK'
      BY <3>1, <3>2, PassType DEF HInv
    <3> QED BY <3>1, <3>2, <3>3, PassPairs DEF HInv
  <2>4. CASE Fail /\ UNCHANGED heard
    BY <2>4 DEF Fail, HInv, TypeOK, PairsOpposite, CaptureHeard
  <2> QED BY <2>1, <2>2, <2>3, <2>4 DEF HNext
<1>3. HInv => PairsOpposite
  BY DEF HInv
<1> QED BY <1>1, <1>2, <1>3, PTL DEF HSpec

-----------------------------------------------------------------------------
\* The two directions of a connection are no other connection's.
LEMMA ConnsApart ==
  ASSUME NEW c \in Conns
  PROVE  /\ c \in Directions /\ Rev(c) \in Directions /\ Rev(Rev(c)) = c
         /\ c \notin {Rev(d) : d \in Conns}
         /\ \A d \in Conns : Rev(d) = Rev(c) => d = c
<1>1. \A d \in Conns : d \in Directions /\ Rev(Rev(d)) = d
  BY ConnsAssumption DEF Directions, Rev
<1>2. Rev(c) \in Directions
  BY <1>1 DEF Directions, Rev
<1>3. c \notin {Rev(d) : d \in Conns}
  <2> SUFFICES ASSUME NEW d \in Conns, c = Rev(d) PROVE FALSE
    OBVIOUS
  <2>1. Rev(c) = d
    BY <1>1
  <2> QED BY <2>1, ConnsAssumption
<1>4. \A d \in Conns : Rev(d) = Rev(c) => d = c
  BY <1>1
<1> QED BY <1>1, <1>2, <1>3, <1>4

\* A segment of a connection is handled exactly when it has a payload.
LEMMA FrameAccepted ==
  ASSUME NEW c \in Conns, NEW k \in {c, Rev(c)}, NEW d, Segment(k, d) \in Frames
  PROVE  /\ Segment(k, d).key = k /\ Segment(k, d).data = d
         /\ d \in Seq(Byte)
         /\ Accepted(Segment(k, d)) <=> d # << >>
<1> DEFINE f == Segment(k, d)
<1>1. f \in Frames
  OBVIOUS
<1>2. /\ f.key = k /\ f.data = d /\ f.caplen = 54 + Len(d) /\ f.len = 54 + Len(d)
      /\ f.eth = EtherIP /\ f.ip_v = IPv4 /\ f.ip_p = TCP /\ f.th_len = 5
  BY DEF Segment
<1>3. d \in Seq(Byte)
  BY <1>1, <1>2, FramesAssumption
<1> HIDE DEF f
<1>4. Len(d) \in Nat /\ (d = << >> <=> Len(d) = 0)
  BY <1>3, EmptySeq, LenProperties
<1>5. k[1] \in Monitored \/ k[2] \in Monitored
  <2>1. c[1] \in Monitored \/ c[2] \in Monitored
    BY ConnsAssumption
  <2>2. Rev(c)[1] = c[2] /\ Rev(c)[2] = c[1]
    BY DEF Rev
  <2> QED BY <2>1, <2>2
<1>6. PayloadOffset(f) = 54
  BY <1>2 DEF PayloadOffset
<1>7. HasPayload(f) <=> 54 < 54 + Len(d)
  BY <1>2, <1>6 DEF HasPayload
<1>8. Accepted(f) <=> d # << >>
  BY <1>2, <1>4, <1>5, <1>7 DEF Accepted, MinCaplen
<1> QED BY <1>1, <1>2, <1>3, <1>8 DEF f

\* A captured payload is what the handler is given.
LEMMA FrameInput ==
  ASSUME NEW c \in Conns, NEW k \in {c, Rev(c)}, NEW d, Segment(k, d) \in Frames,
         NEW t \in Nat, NEW s \in Stale
  PROVE  /\ Input(Segment(k, d), t, d \o s)
         /\ d # << >> => (d \o s)[1] = d[1]
<1>1. s \in [1..Behind -> Byte]
  BY StaleAssumption
<1>2. d \in Seq(Byte) /\ Segment(k, d) \in Frames /\ Segment(k, d).data = d
  BY FrameAccepted
<1>3. Input(Segment(k, d), t, d \o s)
  BY <1>1, <1>2, PayloadBuffer DEF Input
<1>4. d # << >> => (d \o s)[1] = d[1]
  <2>1. s \in Seq(Byte)
    <3>1. Behind \in Nat
      BY DEF Behind
    <3> QED BY <1>1, <3>1, FunctionIsSequence
  <2>2. d # << >> => 1 \in 1..Len(d)
    BY <1>2, EmptySeq, LenProperties
  <2> QED BY <1>2, <2>1, <2>2, ConcatProperties
<1> QED BY <1>3, <1>4

-----------------------------------------------------------------------------
\* A pass over a frame of c changes no other connection's entry.
Untouched(c) ==
  \A k : k # Rev(c) =>
    /\ k \in DOMAIN table' <=> k \in DOMAIN table
    /\ k \in DOMAIN table => table'[k] = table[k]

\* Such an entry can only have the direction of a reply.
LEMMA UntouchedRoles ==
  ASSUME KeysOfReplies, NEW c \in Conns, Untouched(c)
  PROVE  KeysOfReplies'
BY DEF KeysOfReplies, Untouched

\* Where all entries have it, none has that of a client.
LEMMA RepliesOnly ==
  ASSUME KeysOfReplies, NEW c \in Conns
  PROVE  c \notin DOMAIN table
BY ConnsApart DEF KeysOfReplies

\* What does not begin with a star is refused, and left as it was.
LEMMA PlainRefused ==
  ASSUME NEW buf, NEW len, buf[1] # Star
  PROVE  redis_cmd_parse(buf, len) = Refused(buf)
BY Zenon DEF redis_cmd_parse

\* A pass over a frame without payload.
LEMMA EmptyPass ==
  ASSUME NEW f, NEW ts, NEW buf, pkt_recv(f, ts, buf), ~Accepted(f)
  PROVE  /\ UNCHANGED table /\ line' = NoLine
         /\ cap' = [frame |-> f, ts |-> ts, buf |-> buf]
BY DEF pkt_recv, Skip, Answer, Again, Request

\* A pass over what a server sends: it answers the open entry, or it is no
\* request.
LEMMA ServerPass ==
  ASSUME NEW c \in Conns, c \notin DOMAIN table, NEW f, NEW ts, NEW buf,
         pkt_recv(f, ts, buf), Accepted(f), f.key = Rev(c),
         buf[1] # Star \/ Open(c)
  PROVE  /\ Untouched(c) /\ ~Open(c)'
         /\ cap' = [frame |-> f, ts |-> ts, buf |-> buf]
         /\ Open(c) => line' = Report(Rev(c), table[Rev(c)], ts)
         /\ ~Open(c) => line' = NoLine
<1>1. Rev(f.key) \notin DOMAIN table
  BY ConnsApart
<1>2. CASE Open(c)
  <2>1. Answer(f, ts, buf)
    BY <1>2 DEF pkt_recv, Skip, Again, Request, Open
  <2> QED BY <1>2, <2>1 DEF Answer, Without, Untouched, Open
<1>3. CASE ~Open(c)
  <2>1. Request(f, ts, buf)
    BY <1>1, <1>3 DEF pkt_recv, Skip, Again, Answer, Open
  <2>2. redis_cmd_parse(buf, Len(f.data)) = Refused(buf)
    BY <1>3, PlainRefused
  <2>3. table' = table /\ line' = NoLine /\ cap' = [frame |-> f, ts |-> ts, buf |-> buf]
    BY <2>1, <2>2 DEF Request, Refused
  <2> QED BY <1>3, <2>3 DEF Untouched, Open
<1> QED BY <1>2, <1>3

\* What a pass over what a client sends does: it restarts the clock of the
\* open entry, makes an entry, or is no request.
ClientPassed(c, f, ts, buf) ==
  /\ Untouched(c) /\ line' = NoLine
  /\ cap'.frame = f /\ cap'.ts = ts
  /\ Open(c) \/ buf[1] # Star => cap'.buf = buf
  /\ Open(c) => /\ Open(c)' /\ table'[Rev(c)] = [table[Rev(c)] EXCEPT !.ts = ts]
  /\ ~Open(c) /\ buf[1] # Star => ~Open(c)'
  /\ ~Open(c) /\ redis_cmd_parse(buf, Len(f.data)).ret = 0 /\ ~MallocMayFail =>
       /\ Open(c)'
       /\ table'[Rev(c)] =
            [ts |-> ts, cmd |-> CmdString(redis_cmd_parse(buf, Len(f.data)).cmd)]

\* A captured payload of a client is passed so.
LEMMA ClientPass ==
  ASSUME TypeOK, NEW c \in Conns, c \notin DOMAIN table, NEW f, NEW ts, NEW buf,
         pkt_recv(f, ts, buf), Accepted(f), f.key = c
  PROVE  ClientPassed(c, f, ts, buf)
<1> DEFINE parsed == redis_cmd_parse(buf, Len(f.data))
<1>1. f.key \notin DOMAIN table
  OBVIOUS
<1>2. CASE Open(c)
  <2>1. Again(f, ts, buf)
    BY <1>1, <1>2 DEF pkt_recv, Skip, Answer, Request, Open
  <2>2. /\ table' = [table EXCEPT ![Rev(c)].ts = ts] /\ line' = NoLine
        /\ cap' = [frame |-> f, ts |-> ts, buf |-> buf]
    BY <2>1 DEF Again
  <2>3. table'[Rev(c)] = [table[Rev(c)] EXCEPT !.ts = ts] /\ Rev(c) \in DOMAIN table'
    BY <1>2, <2>2 DEF Open
  <2>4. Untouched(c)
    BY <2>2 DEF Untouched
  <2> QED BY <1>2, <2>2, <2>3, <2>4 DEF Open, ClientPassed
<1>3. CASE ~Open(c)
  <2>1. Request(f, ts, buf)
    BY <1>1, <1>3 DEF pkt_recv, Skip, Again, Answer, Open
  <2>2. /\ line' = NoLine /\ cap' = [frame |-> f, ts |-> ts, buf |-> parsed.buf]
        /\ \/ parsed.ret = 0 /\ table' = Put(table, Rev(c), [ts |-> ts, cmd |-> CmdString(parsed.cmd)])
           \/ parsed.ret = 0 /\ MallocMayFail /\ table' = table
           \/ parsed.ret # 0 /\ table' = table
    BY <2>1 DEF Request
  <2>3. buf[1] # Star => parsed.ret # 0 /\ parsed.buf = buf
    BY PlainRefused DEF Refused
  <2> HIDE DEF parsed
  <2>4. Untouched(c)
    BY <2>2 DEF Untouched, Put
  <2>5. buf[1] # Star => ~Open(c)' /\ cap'.buf = buf
    BY <1>3, <2>2, <2>3 DEF Open
  <2>6. parsed.ret = 0 /\ ~MallocMayFail =>
          Open(c)' /\ table'[Rev(c)] = [ts |-> ts, cmd |-> CmdString(parsed.cmd)]
    BY <2>2 DEF Put, Open
  <2> QED BY <1>3, <2>2, <2>4, <2>5, <2>6 DEF parsed, ClientPassed
<1> QED BY <1>2, <1>3

-----------------------------------------------------------------------------
(***************************************************************************)
(* Clients that wait for their replies: module RedisSession.               *)
(***************************************************************************)
\* Segments that are not the first do not begin like a request; and, in the
\* theorems about pipelines, neither do replies.
PlainChunks == \A d \in Chunks : d = << >> \/ d[1] # Star
PlainReplies == \A d \in Replies : d = << >> \/ d[1] # Star
\* A reply has a payload.
RepliesSayMore == << >> \notin Replies
\* Nothing goes wrong: every packet is captured, every client waits for its
\* reply, malloc gives memory, and servers are what is monitored.
NothingLost ==
  /\ Losing = FALSE /\ Closing = FALSE /\ MidStream = FALSE
  /\ MallocMayFail = FALSE
  /\ \A c \in Conns : c[2] \in Monitored
\* pcap_next_ex does not time out behind a reply that is an array.
NoArrayTimedOut == \A d \in TimedOut \cap Replies : d = << >> \/ d[1] # Star

-----------------------------------------------------------------------------
\* What is sent may be delivered.
LEMMA SegmentAccepted ==
  ASSUME NEW c \in Conns, NEW k \in {c, Rev(c)}, NEW d \in Sent
  PROVE  /\ Segment(k, d) \in Frames
         /\ Segment(k, d).key = k /\ Segment(k, d).data = d
         /\ d \in Seq(Byte)
         /\ Accepted(Segment(k, d)) <=> d # << >>
<1>1. Segment(k, d) \in Frames
  BY SegmentsAssumption
<1> QED BY <1>1, FrameAccepted

LEMMA CaptureInput ==
  ASSUME NEW c \in Conns, NEW k \in {c, Rev(c)}, NEW d \in Sent, NEW t \in Nat,
         NEW s \in Stale
  PROVE  /\ Input(Segment(k, d), t, d \o s)
         /\ d # << >> => (d \o s)[1] = d[1]
<1>1. Segment(k, d) \in Frames
  BY SegmentsAssumption
<1> QED BY <1>1, FrameInput

-----------------------------------------------------------------------------
\* The types of the environment's state.
STypeOK ==
  /\ now \in 0..MaxTime
  /\ waiting \in [Conns -> {NoRequest} \cup [cmd : Cmds, ts : 0..MaxTime]]
  /\ astray \in [Conns -> BOOLEAN]
  /\ requested \in [Conns -> BOOLEAN] /\ misled \in [Conns -> BOOLEAN]

\* What is sent on a connection is captured, or lost.
LEMMA WireIsPass ==
  ASSUME NEW c \in Conns, NEW t, Wire(c, t)
  PROVE  \/ UNCHANGED vars
         \/ \E k \in {c, Rev(c)}, d \in Sent, s \in Stale : Deliver(Segment(k, d), t, s)
<1> DEFINE Sends(k, d) == \E s \in Stale : Deliver(Segment(k, d), t, s)
<1>1. \A k : Acks(k) \subseteq {<< >>, Padding}
  BY DEF Acks
<1>2. ASSUME NEW r \in Requests, Ask(c, r, t)
      PROVE  UNCHANGED vars \/ \E d \in Sent : Sends(c, d)
  BY <1>2 DEF Ask, Catch, Capture, Lose, Sent
<1>3. ASSUME NEW d \in {<< >>, Padding} \cup Chunks \cup {r.data : r \in Requests},
             AskOn(c, d, t)
      PROVE  UNCHANGED vars \/ \E e \in Sent : Sends(c, e)
  BY <1>3 DEF AskOn, Catch, Capture, Lose, Sent
<1>4. ASSUME NEW d \in Replies, Reply(c, d, t)
      PROVE  UNCHANGED vars \/ \E e \in Sent : Sends(Rev(c), e)
  BY <1>4 DEF Reply, Catch, Capture, Lose, Sent
<1>5. Close(c, t) => UNCHANGED vars \/ \E d \in Sent : Sends(c, d)
  BY DEF Close, Catch, Capture, Lose, Sent
<1>6. ASSUME NEW d \in Chunks \cup Replies, ReplyOn(c, d, t)
      PROVE  \E e \in Sent : Sends(Rev(c), e)
  BY <1>6 DEF ReplyOn, Catch, Capture, Sent
<1>7. ASSUME NEW d \in Acks(c), ClientAck(c, d, t)
      PROVE  \E e \in Sent : Sends(c, e)
  BY <1>1, <1>7 DEF ClientAck, Catch, Capture, Sent
<1>8. ASSUME NEW d \in Acks(Rev(c)), ServerAck(c, d, t)
      PROVE  \E e \in Sent : Sends(Rev(c), e)
  BY <1>1, <1>8 DEF ServerAck, Catch, Capture, Sent
<1>9. \/ UNCHANGED vars
      \/ \E d \in Sent : Sends(c, d)
      \/ \E e \in Sent : Sends(Rev(c), e)
  BY <1>2, <1>3, <1>4, <1>5, <1>6, <1>7, <1>8 DEF Wire
<1> QED BY <1>9

\* The history is of booleans.
LEMMA WitnessType ==
  ASSUME NEW f, Witness(f)
  PROVE  requested' \in [Conns -> BOOLEAN] /\ misled' \in [Conns -> BOOLEAN]
BY DEF Witness

\* The environment's types do not depend on the tracer.
LEMMA SessionType ==
  ASSUME STypeOK, [SNext]_svars
  PROVE  STypeOK'
<1>1. CASE UNCHANGED svars
  BY <1>1 DEF STypeOK, svars
<1>2. CASE Pcap
  BY <1>2, WitnessType DEF STypeOK, Pcap
<1>3. ASSUME NEW c \in Conns, NEW t \in now..MaxTime, Wire(c, t)
      PROVE  STypeOK'
  <2>1. now' = t /\ t \in 0..MaxTime
    BY <1>3, MaxTimeAssumption DEF Wire, STypeOK
  <2>2. \/ waiting' = waiting
        \/ waiting' = [waiting EXCEPT ![c] = NoRequest]
        \/ \E r \in Requests : waiting' = [waiting EXCEPT ![c] = [cmd |-> r.cmd, ts |-> t]]
        \/ waiting[c] # NoRequest /\ waiting' = [waiting EXCEPT ![c].ts = t]
    BY <1>3 DEF Wire, Ask, AskOn, Reply, Close, ReplyOn, ClientAck, ServerAck
  <2>3. astray' = astray \/ \E b \in BOOLEAN : astray' = [astray EXCEPT ![c] = b]
    BY <1>3 DEF Wire, Ask, AskOn, Reply, Close, ReplyOn, ClientAck, ServerAck
  <2>4. waiting' \in [Conns -> {NoRequest} \cup [cmd : Cmds, ts : 0..MaxTime]]
    <3>1. \A r \in Requests : r.cmd \in Cmds
      BY DEF Cmds
    <3>2. waiting[c] # NoRequest => [waiting[c] EXCEPT !.ts = t] \in [cmd : Cmds, ts : 0..MaxTime]
      BY <2>1 DEF STypeOK
    <3> QED BY <2>1, <2>2, <3>1, <3>2 DEF STypeOK
  <2>5. UNCHANGED <<requested, misled>> \/ \E f : Witness(f)
    BY <1>3 DEF Wire, Ask, AskOn, Reply, Close, ReplyOn, ClientAck, ServerAck, Catch, Lose
  <2>6. requested' \in [Conns -> BOOLEAN] /\ misled' \in [Conns -> BOOLEAN]
    BY <2>5, WitnessType DEF STypeOK
  <2>7. astray' \in [Conns -> BOOLEAN]
    BY <2>3 DEF STypeOK
  <2> QED BY <2>1, <2>4, <2>6, <2>7 DEF STypeOK
<1> QED BY <1>1, <1>2, <1>3 DEF SNext

\* The environment's initial state.
LEMMA SessionInit ==
  ASSUME SInit
  PROVE  STypeOK
BY MaxTimeAssumption DEF SInit, STypeOK

\* What clients and servers send is what module Tracer lets libpcap deliver:
\* all that is proved of the tracer holds of every session.
THEOREM SessionIsTracer == SSpec => Spec
<1>1. SInit => Init /\ STypeOK
  BY SessionInit DEF SInit
<1>2. STypeOK /\ [SNext]_svars => STypeOK' /\ [Next]_vars
  <2> SUFFICES ASSUME STypeOK, [SNext]_svars PROVE [Next]_vars
    BY SessionType
  <2>1. CASE UNCHANGED svars
    BY <2>1 DEF svars
  <2>2. CASE Pcap
    BY <2>2 DEF Pcap, Next
  <2>3. ASSUME NEW c \in Conns, NEW t \in now..MaxTime, Wire(c, t)
        PROVE  [Next]_vars
    <3>1. t \in Times
      BY MaxTimeAssumption DEF STypeOK
    <3>2. CASE \E k \in {c, Rev(c)}, d \in Sent, s \in Stale : Deliver(Segment(k, d), t, s)
      BY <3>1, <3>2, SegmentAccepted DEF Next
    <3> QED BY <2>3, <3>2, WireIsPass
  <2> QED BY <2>1, <2>2, <2>3 DEF SNext
<1> QED BY <1>1, <1>2, PTL DEF SSpec, Spec

-----------------------------------------------------------------------------
\* The three ways a captured packet of c is handled.
LEMMA NothingHeard ==
  ASSUME NEW c \in Conns, NEW k \in {c, Rev(c)}, NEW t, NEW s,
         Deliver(Segment(k, << >>), t, s)
  PROVE  table' = table /\ line' = NoLine /\ ~Accepted(cap'.frame)
<1>1. ~Accepted(Segment(k, << >>))
  BY SegmentAccepted DEF Sent
<1>2. pkt_recv(Segment(k, << >>), t, Segment(k, << >>).data \o s)
  BY DEF Deliver
<1>3. cap'.frame = Segment(k, << >>) /\ table' = table /\ line' = NoLine
  BY <1>1, <1>2, EmptyPass
<1> QED BY <1>1, <1>3

\* A captured payload of a client.
LEMMA ClientHeard ==
  ASSUME TypeOK, NEW c \in Conns, c \notin DOMAIN table, NEW d \in Sent, d # << >>,
         NEW t \in Nat, NEW s \in Stale, Deliver(Segment(c, d), t, s)
  PROVE  /\ Untouched(c) /\ line' = NoLine
         /\ Accepted(cap'.frame) /\ cap'.frame.key = c /\ cap'.ts = t
         /\ Open(c) => /\ Open(c)' /\ table'[Rev(c)] = [table[Rev(c)] EXCEPT !.ts = t]
         /\ ~Open(c) /\ d[1] # Star => ~Open(c)' /\ cap'.buf[1] # Star
<1> DEFINE f == Segment(c, d)
           buf == d \o s
<1>1. f.key = c /\ f.data = d /\ Accepted(f)
  BY SegmentAccepted
<1>2. buf[1] = d[1]
  BY CaptureInput
<1>3. pkt_recv(f, t, buf)
  BY <1>1 DEF Deliver
<1> HIDE DEF f, buf
<1>5. ClientPassed(c, f, t, buf)
  BY <1>1, <1>3, ClientPass
<1> QED BY <1>1, <1>2, <1>5 DEF ClientPassed

\* A request of a client that has no entry makes one.
LEMMA RequestHeard ==
  ASSUME TypeOK, ~MallocMayFail, NEW c \in Conns, c \notin DOMAIN table, NEW r \in Requests,
         NEW t \in Nat, NEW s \in Stale, Deliver(Segment(c, r.data), t, s), ~Open(c)
  PROVE  r.data # << >> /\ Open(c)' /\ table'[Rev(c)] = [ts |-> t, cmd |-> r.cmd]
<1> DEFINE f == Segment(c, r.data)
           buf == r.data \o s
           parsed == redis_cmd_parse(buf, Len(r.data))
<1>1. r.data # << >> /\ parsed.ret = 0 /\ CmdString(parsed.cmd) = r.cmd
  BY RequestsAssumption, Zenon
<1>2. f.key = c /\ f.data = r.data /\ Accepted(f)
  BY <1>1, SegmentAccepted DEF Sent
<1>3. pkt_recv(f, t, buf)
  BY <1>2 DEF Deliver
<1> HIDE DEF f, buf
<1>4. ClientPassed(c, f, t, buf)
  BY <1>2, <1>3, ClientPass
<1>5. redis_cmd_parse(buf, Len(f.data)) = parsed
  BY <1>2, Zenon
<1>6. Open(c)' /\ table'[Rev(c)] = [ts |-> t, cmd |-> CmdString(parsed.cmd)]
  BY ONLY ~Open(c), ~MallocMayFail, <1>1, <1>4, <1>5 DEF ClientPassed
<1> QED BY ONLY <1>1, <1>6

\* A captured payload of a server.
LEMMA ServerHeard ==
  ASSUME NEW c \in Conns, c \notin DOMAIN table, NEW d \in Sent, d # << >>,
         NEW t \in Nat, NEW s \in Stale, Deliver(Segment(Rev(c), d), t, s),
         d[1] # Star \/ Open(c)
  PROVE  /\ Untouched(c) /\ ~Open(c)'
         /\ Accepted(cap'.frame) /\ cap'.frame = Segment(Rev(c), d)
         /\ cap'.frame.key = Rev(c) /\ cap'.frame.data = d /\ cap'.buf[1] = d[1]
         /\ Open(c) => line' = Report(Rev(c), table[Rev(c)], t)
         /\ ~Open(c) => line' = NoLine
<1> DEFINE f == Segment(Rev(c), d)
           buf == d \o s
<1>1. f.key = Rev(c) /\ f.data = d /\ Accepted(f)
  BY SegmentAccepted
<1>2. buf[1] = d[1]
  BY CaptureInput
<1>3. pkt_recv(f, t, buf)
  BY <1>1 DEF Deliver
<1> HIDE DEF buf
<1>4. /\ Untouched(c) /\ ~Open(c)'
      /\ cap' = [frame |-> f, ts |-> t, buf |-> buf]
      /\ Open(c) => line' = Report(Rev(c), table[Rev(c)], t)
      /\ ~Open(c) => line' = NoLine
  <2> HIDE DEF f
  <2> QED BY <1>1, <1>2, <1>3, ServerPass
<1> HIDE DEF f
<1> QED BY <1>1, <1>2, <1>4 DEF f

-----------------------------------------------------------------------------
\* What a client adds to its request or sends without one: nothing of it is
\* a request.
LEMMA AcksPlain ==
  ASSUME NEW k, NEW d \in Acks(k), d # << >>
  PROVE  d \in Sent /\ d[1] # Star
<1>1. Padding[1] # Star
  BY DEF Padding, NUL, Star
<1> QED BY <1>1 DEF Acks, Sent

\* What the environment does to the connection a step is about.
LEMMA WireFrame ==
  ASSUME STypeOK, NEW c \in Conns, NEW t, Wire(c, t)
  PROVE  \A e \in Conns \ {c} : waiting'[e] = waiting[e] /\ astray'[e] = astray[e]
<1>1. waiting \in [Conns -> {NoRequest} \cup [cmd : Cmds, ts : 0..MaxTime]]
      /\ astray \in [Conns -> BOOLEAN]
  BY DEF STypeOK
<1>2. \/ waiting' = waiting
      \/ \E w : waiting' = [waiting EXCEPT ![c] = w]
  BY DEF Wire, Ask, AskOn, Reply, Close, ReplyOn, ClientAck, ServerAck
<1>3. \/ astray' = astray
      \/ \E b : astray' = [astray EXCEPT ![c] = b]
  BY DEF Wire, Ask, AskOn, Reply, Close, ReplyOn, ClientAck, ServerAck
<1> QED BY <1>1, <1>2, <1>3

-----------------------------------------------------------------------------
(***************************************************************************)
(* When packets are lost, connections closed or requests sent before the   *)
(* capture began.  A server's array may then find no entry, and make one   *)
(* that has the direction of its client.                                   *)
(***************************************************************************)
RequestData == {r.data : r \in Requests}

\* A pass over a frame of c changes no other connection's entries.
Apart(c) ==
  \A k : k \notin {c, Rev(c)} =>
    /\ k \in DOMAIN table' <=> k \in DOMAIN table
    /\ k \in DOMAIN table => table'[k] = table[k]

\* What the history says of the entry the wrong way round: it is that of an
\* array that came without a request.  Where none came, a request that was
\* heard has its entry.
Led(c) ==
  /\ c \in DOMAIN table => misled[c] /\ ~requested[c]
  /\ requested[c] /\ ~misled[c] => Open(c)

\* The entry of a connection is that of what its client waits for.
Fresh(c) ==
  Open(c) /\ ~astray[c] =>
    waiting[c] # NoRequest /\ table[Rev(c)].cmd = waiting[c].cmd

\* A frame of c that the handler may be given: a client's that is no request
\* does not begin like one, and its request has its entry or was not parsed
\* yet; a server's begins with a star only if it is an array.
Fit(c, f, buf) ==
  \/ f.key = c /\ f.data \notin RequestData /\ buf[1] # Star
  \/ f.key = c /\ f.data \in RequestData /\ (Open(c) \/ \E s \in Stale : buf = f.data \o s)
  \/ f.key = Rev(c) /\ (IsArray(f) \/ buf[1] # Star)

\* The request d is what the client of c waits for.
Wants(c, d) ==
  /\ waiting[c] # NoRequest
  /\ \E r \in Requests : d = r.data /\ waiting[c].cmd = r.cmd

\* What a timeout handles again.
CapFit(c) ==
  Accepted(cap.frame) /\ cap.frame.key \in {c, Rev(c)} =>
    /\ Fit(c, cap.frame, cap.buf)
    /\ cap.frame.key = c /\ cap.frame.data \in RequestData =>
         requested[c] /\ (Open(c) \/ astray[c] \/ Wants(c, cap.frame.data))
CapKnown ==
  \/ ~Accepted(cap.frame) /\ cap.frame.data = << >>
  \/ /\ Accepted(cap.frame) /\ cap.frame.data # << >>
     /\ \E c \in Conns : cap.frame.key \in {c, Rev(c)}

Known(c) == Led(c) /\ Fresh(c) /\ CapFit(c)
LossyInv == STypeOK /\ CapKnown /\ \A c \in Conns : Known(c)

-----------------------------------------------------------------------------
\* A request begins with a star.
LEMMA RequestBegins ==
  ASSUME NEW c \in Conns, NEW r \in Requests, NEW s \in Stale
  PROVE  r.data # << >> /\ r.data[1] = Star
<1> DEFINE parsed == redis_cmd_parse(r.data \o s, Len(r.data))
<1>1. r.data # << >>
  BY RequestsAssumption
<1>2. parsed.ret = 0
  BY RequestsAssumption, Zenon
<1>3. ASSUME (r.data \o s)[1] # Star
      PROVE  FALSE
  <2>1. parsed = Refused(r.data \o s)
    BY <1>3, PlainRefused
  <2> QED BY <1>2, <2>1 DEF Refused
<1>4. (r.data \o s)[1] = r.data[1]
  <2>1. r.data \in Sent /\ 0 \in Nat
    BY DEF Sent
  <2> QED BY <1>1, <2>1, CaptureInput
<1> QED BY <1>1, <1>2, <1>3, <1>4

\* An entry the wrong way round: what the client sends takes it for an answer,
\* what the server sends restarts its clock.
LEMMA WrongPass ==
  ASSUME OneDirection, NEW c \in Conns, c \in DOMAIN table,
         NEW f, NEW ts, NEW buf, pkt_recv(f, ts, buf), Accepted(f),
         f.key \in {c, Rev(c)}
  PROVE  /\ Apart(c) /\ ~Open(c) /\ ~Open(c)'
         /\ cap' = [frame |-> f, ts |-> ts, buf |-> buf]
         /\ f.key = c => c \notin DOMAIN table'
<1>0. ~Open(c) /\ c # Rev(c) /\ Rev(Rev(c)) = c
  BY ConnsApart DEF OneDirection, Open
<1>1. CASE f.key = c
  <2>1. Answer(f, ts, buf)
    BY <1>1 DEF pkt_recv, Skip, Again, Request
  <2> QED BY <1>0, <1>1, <2>1 DEF Answer, Without, Apart, Open
<1>2. CASE f.key = Rev(c)
  <2>1. Again(f, ts, buf)
    BY <1>0, <1>2 DEF pkt_recv, Skip, Answer, Request, Open
  <2> QED BY <1>0, <1>2, <2>1 DEF Again, Apart, Open
<1> QED BY <1>1, <1>2

\* A server's frame that finds no entry may make one the wrong way round.
LEMMA ArrayPass ==
  ASSUME NEW c \in Conns, c \notin DOMAIN table, ~Open(c),
         NEW f, NEW ts, NEW buf, pkt_recv(f, ts, buf), Accepted(f), f.key = Rev(c)
  PROVE  Apart(c) /\ ~Open(c)' /\ cap'.frame = f
<1>0. c # Rev(c) /\ Rev(Rev(c)) = c
  BY ConnsApart
<1>1. Request(f, ts, buf)
  BY <1>0 DEF pkt_recv, Skip, Again, Answer, Open
<1>2. cap'.frame = f /\ (table' = table \/ \E item : table' = Put(table, c, item))
  BY <1>0, <1>1 DEF Request
<1> QED BY <1>0, <1>2 DEF Put, Apart, Open

\* What the history makes of a frame of c.
LEMMA Witnessed ==
  ASSUME NEW c \in Conns, NEW f, Witness(f)
  PROVE  /\ f.key = c => /\ requested'[c] <=> f.data \in RequestData \/ requested[c]
                         /\ misled'[c] <=> misled[c]
         /\ f.key = Rev(c) /\ f.data # << >> =>
              /\ ~requested'[c]
              /\ misled'[c] <=> \/ IsArray(f) /\ ~requested[c]
                                \/ misled[c] /\ (IsArray(f) \/ ~requested[c])
         /\ f.key \notin {c, Rev(c)} \/ (f.data = << >> /\ << >> \notin RequestData) =>
              (requested'[c] <=> requested[c]) /\ (misled'[c] <=> misled[c])
<1>0. c # Rev(c)
  BY ConnsApart
<1>1. requested'[c] <=> Requesting(c, f) \/ (requested[c] /\ ~Answering(c, f))
  BY DEF Witness
<1>2. misled'[c] <=> \/ Answering(c, f) /\ IsArray(f) /\ ~requested[c]
                     \/ misled[c] /\ ~(Answering(c, f) /\ ~IsArray(f) /\ requested[c])
  BY DEF Witness
<1>3. Requesting(c, f) <=> f.key = c /\ f.data \in RequestData
  BY DEF Requesting, RequestData
<1>4. Answering(c, f) <=> f.key = Rev(c) /\ f.data # << >>
  BY DEF Answering
<1>5. CASE f.key = c
  BY <1>0, <1>1, <1>2, <1>3, <1>4, <1>5
<1>6. CASE f.key = Rev(c) /\ f.data # << >>
  BY <1>0, <1>1, <1>2, <1>3, <1>4, <1>6
<1>7. CASE f.key \notin {c, Rev(c)} \/ (f.data = << >> /\ << >> \notin RequestData)
  <2>1. ~Requesting(c, f) /\ ~Answering(c, f)
    BY <1>3, <1>4, <1>7
  <2>2. (requested'[c] <=> requested[c]) /\ (misled'[c] <=> misled[c])
    BY <1>1, <1>2, <2>1
  <2> QED BY <1>7, <2>2, <1>0, <1>5
<1> QED BY <1>5, <1>6, <1>7

\* One pass over a frame of c, and what it leaves: only a request of the client
\* that finds no entry makes one that has the direction of a reply.
Passed(c, f, buf) ==
  /\ Apart(c) /\ Led(c)' /\ cap'.frame = f
  /\ \/ cap'.buf = buf
     \/ f.key = c /\ f.data \in RequestData /\ Open(c)'
     \/ f.key = Rev(c) /\ IsArray(f)
  /\ f.key = c /\ f.data \in RequestData => requested'[c]
  /\ f.key = Rev(c) => ~Open(c)'
  /\ f.key = c /\ Open(c) => Open(c)'
  /\ Open(c)' =>
       \/ Open(c) /\ table'[Rev(c)].cmd = table[Rev(c)].cmd
       \/ /\ ~Open(c) /\ f.data \in RequestData
          /\ \A r \in Requests : f.data = r.data => table'[Rev(c)].cmd = r.cmd

\* An entry the wrong way round is no more, or is still that of an array.
LEMMA WrongPassed ==
  ASSUME OneDirection, NEW c \in Conns, Led(c), c \in DOMAIN table,
         NEW f, NEW ts, NEW buf, pkt_recv(f, ts, buf), Accepted(f), f.data # << >>,
         f.key \in {c, Rev(c)}, Witness(f)
  PROVE  Passed(c, f, buf)
<1>1. /\ Apart(c) /\ ~Open(c) /\ ~Open(c)'
      /\ cap' = [frame |-> f, ts |-> ts, buf |-> buf]
      /\ f.key = c => c \notin DOMAIN table'
  BY WrongPass
<1>2. misled[c] /\ ~requested[c]
  BY DEF Led
<1>3. CASE f.key = c
  BY <1>1, <1>2, <1>3, Witnessed DEF Passed, Led
<1>4. CASE f.key = Rev(c)
  BY <1>1, <1>2, <1>4, Witnessed, ConnsApart DEF Passed, Led
<1> QED BY <1>3, <1>4

\* What a client sends, where there is none.
LEMMA ClientPasses ==
  ASSUME TypeOK, ~MallocMayFail, NEW c \in Conns, Led(c), c \notin DOMAIN table,
         NEW f, NEW ts, NEW buf, pkt_recv(f, ts, buf), Accepted(f),
         f.key = c, Fit(c, f, buf), Witness(f)
  PROVE  Passed(c, f, buf)
<1> DEFINE parsed == redis_cmd_parse(buf, Len(f.data))
<1>0. c # Rev(c)
  BY ConnsApart
<1>1. ClientPassed(c, f, ts, buf)
  BY ClientPass
<1>2. Untouched(c) /\ cap'.frame = f
  BY <1>1 DEF ClientPassed
<1>3. Apart(c) /\ c \notin DOMAIN table'
  BY <1>0, <1>2 DEF Untouched, Apart
<1>4. /\ requested'[c] <=> f.data \in RequestData \/ requested[c]
      /\ misled'[c] <=> misled[c]
  BY Witnessed
<1>5. CASE Open(c)
  <2>1. cap'.buf = buf /\ Open(c)' /\ table'[Rev(c)] = [table[Rev(c)] EXCEPT !.ts = ts]
    BY <1>1, <1>5 DEF ClientPassed
  <2>2. table'[Rev(c)].cmd = table[Rev(c)].cmd
    BY <1>5, <2>1 DEF TypeOK, Item, Open
  <2> QED BY <1>0, <1>2, <1>3, <1>4, <1>5, <2>1, <2>2 DEF Passed, Led
<1>6. CASE ~Open(c) /\ f.data \in RequestData
  <2>1. PICK s \in Stale : buf = f.data \o s
    BY <1>0, <1>6 DEF Fit
  <2>2. ASSUME NEW r \in Requests, f.data = r.data
        PROVE  parsed.ret = 0 /\ CmdString(parsed.cmd) = r.cmd
    BY <2>1, <2>2, RequestsAssumption, Zenon
  <2>3. PICK r \in Requests : f.data = r.data
    BY <1>6 DEF RequestData
  <2>4. Open(c)' /\ table'[Rev(c)] = [ts |-> ts, cmd |-> CmdString(parsed.cmd)]
    BY <1>1, <1>6, <2>2, <2>3 DEF ClientPassed
  <2> HIDE DEF parsed
  <2>5. \A q \in Requests : f.data = q.data => table'[Rev(c)].cmd = q.cmd
    BY <2>2, <2>4
  <2> QED BY <1>0, <1>2, <1>3, <1>4, <1>6, <2>4, <2>5 DEF Passed, Led
<1>7. CASE ~Open(c) /\ f.data \notin RequestData
  <2>1. ~Open(c)' /\ cap'.buf = buf
    BY <1>0, <1>1, <1>7 DEF ClientPassed, Fit
  <2> QED BY <1>0, <1>2, <1>3, <1>4, <1>7, <2>1 DEF Passed, Led
<1> QED BY <1>5, <1>6, <1>7

\* What a server sends, where there is none.
LEMMA ServerPasses ==
  ASSUME NEW c \in Conns, Led(c), c \notin DOMAIN table,
         NEW f, NEW ts, NEW buf, pkt_recv(f, ts, buf), Accepted(f), f.data # << >>,
         f.key = Rev(c), Fit(c, f, buf), Witness(f)
  PROVE  Passed(c, f, buf)
<1>0. c # Rev(c)
  BY ConnsApart
<1>1. /\ ~requested'[c]
      /\ misled'[c] <=> \/ IsArray(f) /\ ~requested[c]
                        \/ misled[c] /\ (IsArray(f) \/ ~requested[c])
  BY Witnessed
<1>2. CASE buf[1] # Star \/ Open(c)
  <2>1. Untouched(c) /\ ~Open(c)' /\ cap' = [frame |-> f, ts |-> ts, buf |-> buf]
    BY <1>2, ServerPass
  <2>2. Apart(c) /\ c \notin DOMAIN table'
    BY <1>0, <2>1 DEF Untouched, Apart
  <2> QED BY <1>0, <1>1, <2>1, <2>2 DEF Passed, Led
<1>3. CASE buf[1] = Star /\ ~Open(c)
  <2>1. Apart(c) /\ ~Open(c)' /\ cap'.frame = f
    BY <1>3, ArrayPass
  <2>2. IsArray(f)
    BY <1>0, <1>3 DEF Fit
  <2>3. misled'[c]
    BY <1>1, <1>3, <2>2 DEF Led
  <2> QED BY <1>0, <1>1, <2>1, <2>2, <2>3 DEF Passed, Led
<1> QED BY <1>2, <1>3

\* What either sends.
LEMMA PassIsPassed ==
  ASSUME TypeOK, OneDirection, ~MallocMayFail, NEW c \in Conns, Led(c),
         NEW f, NEW ts, NEW buf, pkt_recv(f, ts, buf), Accepted(f), f.data # << >>,
         f.key \in {c, Rev(c)}, Fit(c, f, buf), Witness(f)
  PROVE  Passed(c, f, buf)
<1>1. CASE c \in DOMAIN table
  BY <1>1, WrongPassed
<1>2. CASE c \notin DOMAIN table /\ f.key = c
  BY <1>2, ClientPasses
<1>3. CASE c \notin DOMAIN table /\ f.key = Rev(c)
  BY <1>3, ServerPasses
<1> QED BY <1>1, <1>2, <1>3

-----------------------------------------------------------------------------
\* The client of c waits for what it waited for, if it did.
Keeps(c) ==
  /\ astray'[c] <=> astray[c]
  /\ waiting[c] # NoRequest => waiting'[c] # NoRequest /\ waiting'[c].cmd = waiting[c].cmd

\* A step of the environment hands a packet of c to the tracer, or none; a
\* client asks only for what it then waits for.
WireIs(c, t) ==
  \/ UNCHANGED <<vars, requested, misled>> /\ (astray'[c] \/ Keeps(c))
  \/ \E k \in {c, Rev(c)}, d \in Sent, s \in Stale :
       /\ Deliver(Segment(k, d), t, s) /\ Witness(Segment(k, d))
       /\ \/ d = << >> /\ (astray'[c] \/ Keeps(c))
          \/ d # << >> /\ k = Rev(c)
          \/ /\ d # << >> /\ k = c /\ Keeps(c)
             /\ d \in RequestData => Wants(c, d)'
             /\ d \notin RequestData => d[1] # Star

LEMMA WireCases ==
  ASSUME PlainChunks, RepliesSayMore, STypeOK, NEW c \in Conns, NEW t \in Nat, Wire(c, t)
  PROVE  WireIs(c, t)
<1>w. /\ waiting \in [Conns -> {NoRequest} \cup [cmd : Cmds, ts : 0..MaxTime]]
      /\ astray \in [Conns -> BOOLEAN]
  BY DEF STypeOK
<1>1. ASSUME NEW r \in Requests, Ask(c, r, t)
      PROVE  WireIs(c, t)
  <2>1. waiting[c] = NoRequest /\ waiting'[c] = [cmd |-> r.cmd, ts |-> t] /\ astray' = astray
    BY <1>1, <1>w DEF Ask
  <2>2. waiting'[c] # NoRequest /\ waiting'[c].cmd = r.cmd
    BY <2>1, NoRequestAssumption DEF Cmds
  <2>3. Keeps(c) /\ Wants(c, r.data)'
    BY <2>1, <2>2 DEF Keeps, Wants
  <2>4. r.data \in Sent /\ r.data \in RequestData /\ r.data # << >>
    BY RequestsAssumption DEF Sent, RequestData
  <2> QED BY <1>1, <2>3, <2>4 DEF Ask, Catch, Capture, Lose, WireIs
<1>2. ASSUME NEW d, AskOn(c, d, t)
      PROVE  WireIs(c, t)
  <2>1. waiting[c] # NoRequest /\ waiting'[c] # NoRequest /\ waiting'[c].cmd = waiting[c].cmd
    <3>1. waiting[c] # NoRequest /\ waiting[c] \in [cmd : Cmds, ts : 0..MaxTime]
      BY <1>2, <1>w DEF AskOn
    <3>2. waiting'[c] \in {waiting[c], [waiting[c] EXCEPT !.ts = t]}
      BY <1>2, <1>w DEF AskOn
    <3>3. waiting'[c] \in [cmd : Cmds, ts : Nat] /\ waiting'[c].cmd = waiting[c].cmd
      BY <3>1, <3>2, MaxTimeAssumption
    <3> QED BY <3>1, <3>3, NoRequestAssumption
  <2>2. Keeps(c)
    BY <1>2, <2>1 DEF Keeps, AskOn
  <2>3. d \in Sent
    BY <1>2 DEF AskOn, Sent, Acks
  <2>4. CASE Lose
    BY <2>2, <2>4 DEF Lose, WireIs
  <2>5. ASSUME NEW s \in Stale, Deliver(Segment(c, d), t, s), Witness(Segment(c, d)),
               d # << >>
        PROVE  WireIs(c, t)
    <3>1. CASE d \in Acks(c) \cup Chunks
      <4>1. d[1] # Star
        BY <2>5, <3>1, AcksPlain DEF PlainChunks
      <4>2. d \notin RequestData
        BY <4>1, RequestBegins DEF RequestData
      <4> QED BY <2>2, <2>3, <2>5, <4>1, <4>2 DEF WireIs
    <3>2. ASSUME NEW q \in Requests, q.cmd = waiting[c].cmd, d = q.data
          PROVE  WireIs(c, t)
      <4>1. Wants(c, d)' /\ d \in RequestData
        BY <2>1, <3>2 DEF Wants, RequestData
      <4> QED BY <2>2, <2>3, <2>5, <4>1 DEF WireIs
    <3> QED BY <1>2, <3>1, <3>2 DEF AskOn
  <2>6. ASSUME NEW s \in Stale, Deliver(Segment(c, d), t, s), Witness(Segment(c, d)),
               d = << >>
        PROVE  WireIs(c, t)
    BY <2>2, <2>3, <2>6 DEF WireIs
  <2> QED BY <1>2, <2>4, <2>5, <2>6 DEF AskOn, Catch, Capture
<1>3. ASSUME NEW d \in Replies, Reply(c, d, t)
      PROVE  WireIs(c, t)
  <2>1. d \in Sent /\ d # << >>
    BY DEF Sent, RepliesSayMore
  <2>2. CASE Lose /\ astray' = [astray EXCEPT ![c] = TRUE]
    BY <1>w, <2>2 DEF Lose, WireIs
  <2> QED BY <1>3, <2>1, <2>2 DEF Reply, Catch, Capture, WireIs
<1>4. CASE Close(c, t)
  <2>1. astray'[c] /\ << >> \in Sent
    BY <1>4, <1>w DEF Close, Sent
  <2> QED BY <1>4, <2>1 DEF Close, Catch, Capture, Lose, WireIs
<1>5. ASSUME NEW d \in Chunks \cup Replies, ReplyOn(c, d, t)
      PROVE  WireIs(c, t)
  BY <1>5 DEF ReplyOn, Catch, Capture, Sent, Keeps, WireIs
<1>6. ASSUME NEW d \in Acks(c), ClientAck(c, d, t)
      PROVE  WireIs(c, t)
  <2>1. d \in Sent /\ Keeps(c)
    BY <1>6 DEF ClientAck, Acks, Sent, Keeps
  <2>2. ASSUME NEW s \in Stale, d # << >>
        PROVE  d[1] # Star /\ d \notin RequestData
    BY <2>2, AcksPlain, RequestBegins DEF RequestData
  <2> QED BY <1>6, <2>1, <2>2 DEF ClientAck, Catch, Capture, WireIs
<1>7. ASSUME NEW d \in Acks(Rev(c)), ServerAck(c, d, t)
      PROVE  WireIs(c, t)
  <2>1. d \in Sent /\ Keeps(c)
    BY <1>7 DEF ServerAck, Acks, Sent, Keeps
  <2> QED BY <1>7, <2>1 DEF ServerAck, Catch, Capture, WireIs
<1> QED BY <1>1, <1>2, <1>3, <1>4, <1>5, <1>6, <1>7 DEF Wire

\* A step about one connection leaves what is known of the others.
LEMMA OthersKnown ==
  ASSUME NEW c \in Conns, NEW e \in Conns, e # c, Known(e), Apart(c),
         waiting'[e] = waiting[e], astray'[e] <=> astray[e],
         requested'[e] <=> requested[e], misled'[e] <=> misled[e],
         \/ UNCHANGED cap
         \/ cap'.frame.key \in {c, Rev(c)}
         \/ ~Accepted(cap'.frame)
  PROVE  Known(e)'
<1>1. e \notin {c, Rev(c)} /\ Rev(e) \notin {c, Rev(c)}
  BY ConnsApart, ConnsAssumption
<1>2. /\ e \in DOMAIN table' <=> e \in DOMAIN table
      /\ Open(e)' <=> Open(e)
      /\ Open(e) => table'[Rev(e)] = table[Rev(e)]
  BY <1>1 DEF Apart, Open
<1>3. Led(e)'
  BY <1>2 DEF Known, Led
<1>4. Fresh(e)'
  BY <1>2 DEF Known, Fresh
<1>5. CapFit(e)'
  <2>1. CASE UNCHANGED cap
    BY <1>2, <2>1 DEF Known, CapFit, Fit, Wants
  <2>2. CASE cap'.frame.key \in {c, Rev(c)}
    BY <1>1, <2>2 DEF CapFit
  <2>3. CASE ~Accepted(cap'.frame)
    BY <2>3 DEF CapFit
  <2> QED BY <2>1, <2>2, <2>3
<1> QED BY <1>3, <1>4, <1>5 DEF Known

\* What is known of c after a pass over its frame.
LEMMA PassedKnown ==
  ASSUME NEW c \in Conns, Fresh(c), NEW f, NEW buf, Accepted(f), f.data # << >>,
         f.key \in {c, Rev(c)}, Fit(c, f, buf), Passed(c, f, buf),
         f.key = c => /\ Keeps(c)
                      /\ f.data \in RequestData =>
                           Open(c) \/ astray'[c] \/ Wants(c, f.data)'
  PROVE  CapKnown' /\ Known(c)'
<1>0. c # Rev(c)
  BY ConnsApart
<1>1. cap'.frame = f /\ Led(c)'
  BY DEF Passed
<1>2. CapKnown'
  BY <1>1 DEF CapKnown
<1>3. CASE f.key = Rev(c)
  <2>1. ~Open(c)' /\ (cap'.buf = buf \/ IsArray(f))
    BY <1>0, <1>3 DEF Passed
  <2>2. IsArray(f) \/ cap'.buf[1] # Star
    BY <1>0, <1>3, <2>1 DEF Fit
  <2> QED BY <1>0, <1>1, <1>2, <1>3, <2>1, <2>2 DEF Known, Fresh, CapFit, Fit, IsArray
<1>4. CASE f.key = c
  <2>1. /\ cap'.buf = buf \/ (f.data \in RequestData /\ Open(c)')
        /\ f.data \in RequestData => requested'[c]
        /\ Open(c) => Open(c)'
        /\ Open(c)' =>
             \/ Open(c) /\ table'[Rev(c)].cmd = table[Rev(c)].cmd
             \/ /\ ~Open(c) /\ f.data \in RequestData
                /\ \A r \in Requests : f.data = r.data => table'[Rev(c)].cmd = r.cmd
    BY <1>0, <1>4 DEF Passed
  <2>2. Fit(c, f, cap.buf)'
    BY <1>0, <1>4, <2>1 DEF Fit
  <2>3. CapFit(c)'
    BY <1>0, <1>1, <1>4, <2>1, <2>2 DEF CapFit
  <2>4. ASSUME Open(c)', ~astray'[c]
        PROVE  waiting'[c] # NoRequest /\ table'[Rev(c)].cmd = waiting'[c].cmd
    <3>1. CASE Open(c) /\ table'[Rev(c)].cmd = table[Rev(c)].cmd
      BY <1>4, <2>4, <3>1 DEF Fresh, Keeps
    <3>2. CASE ~Open(c) /\ f.data \in RequestData
               /\ \A r \in Requests : f.data = r.data => table'[Rev(c)].cmd = r.cmd
      BY <1>4, <2>4, <3>2 DEF Wants
    <3> QED BY <2>1, <2>4, <3>1, <3>2
  <2>5. Fresh(c)'
    BY <2>4 DEF Fresh
  <2> QED BY <1>1, <1>2, <2>3, <2>5 DEF Known
<1> QED BY <1>3, <1>4

\* What is known of c where nothing is handled.
LEMMA UnheardKnown ==
  ASSUME NEW c \in Conns, Known(c), astray'[c] \/ Keeps(c), table' = table,
         requested'[c] <=> requested[c], misled'[c] <=> misled[c],
         UNCHANGED cap \/ ~Accepted(cap'.frame)
  PROVE  Apart(c) /\ Known(c)'
<1>1. Apart(c) /\ Led(c)'
  BY DEF Apart, Known, Led, Open
<1>2. Fresh(c)'
  BY DEF Known, Fresh, Open, Keeps
<1>3. CapFit(c)'
  <2>1. ASSUME NEW d, astray[c] \/ Wants(c, d)
        PROVE  astray'[c] \/ Wants(c, d)'
    BY <2>1 DEF Keeps, Wants
  <2>2. CASE UNCHANGED cap
    BY <2>1, <2>2 DEF Known, CapFit, Fit, Open
  <2>3. CASE ~Accepted(cap'.frame)
    BY <2>3 DEF CapFit
  <2> QED BY <2>2, <2>3
<1> QED BY <1>1, <1>2, <1>3 DEF Known

-----------------------------------------------------------------------------
\* A captured packet of c.
LEMMA CaughtKnown ==
  ASSUME TypeOK, OneDirection, ~MallocMayFail, NEW c \in Conns, Known(c),
         NEW k \in {c, Rev(c)}, NEW d \in Sent, d # << >>,
         NEW t \in Nat, NEW s \in Stale,
         Deliver(Segment(k, d), t, s), Witness(Segment(k, d)),
         k = c => /\ Keeps(c)
                  /\ d \in RequestData => Wants(c, d)'
                  /\ d \notin RequestData => d[1] # Star
  PROVE  Apart(c) /\ CapKnown' /\ Known(c)' /\ cap'.frame.key \in {c, Rev(c)}
<1> DEFINE f == Segment(k, d)
           buf == d \o s
<1>0. c # Rev(c)
  BY ConnsApart
<1>1. f.key = k /\ f.data = d /\ Accepted(f)
  BY SegmentAccepted
<1>2. buf[1] = d[1]
  BY CaptureInput
<1>3. pkt_recv(f, t, buf) /\ Witness(f)
  BY <1>1 DEF Deliver
<1>4. Fit(c, f, buf)
  BY <1>0, <1>1, <1>2 DEF Fit, IsArray
<1> HIDE DEF f, buf
<1>5. Passed(c, f, buf)
  BY <1>1, <1>3, <1>4, PassIsPassed DEF Known
<1>6. CapKnown' /\ Known(c)'
  BY <1>1, <1>4, <1>5, PassedKnown DEF Known
<1> QED BY <1>1, <1>5, <1>6 DEF Passed

\* A step on the wire.
LEMMA WireKnown ==
  ASSUME PlainChunks, RepliesSayMore, ~MallocMayFail, TypeOK, OneDirection,
         LossyInv, NEW c \in Conns, NEW t \in Nat, Wire(c, t)
  PROVE  CapKnown' /\ \A e \in Conns : Known(e)'
<1>0. STypeOK /\ CapKnown /\ \A e \in Conns : Known(e)
  BY DEF LossyInv
<1>1. \A e \in Conns \ {c} : waiting'[e] = waiting[e] /\ (astray'[e] <=> astray[e])
  BY <1>0, WireFrame
<1>2. CASE UNCHANGED <<vars, requested, misled>> /\ (astray'[c] \/ Keeps(c))
  <2>1. UNCHANGED <<cap, table, requested, misled>>
    BY <1>2 DEF vars
  <2>2. Apart(c) /\ Known(c)'
    BY <1>0, <1>2, <2>1, UnheardKnown
  <2>3. \A e \in Conns \ {c} : Known(e)'
    BY <1>0, <1>1, <2>1, <2>2, OthersKnown
  <2>4. CapKnown'
    BY <1>0, <2>1 DEF CapKnown
  <2> QED BY <2>2, <2>3, <2>4
<1>3. ASSUME NEW k \in {c, Rev(c)}, NEW d \in Sent, NEW s \in Stale,
             Deliver(Segment(k, d), t, s), Witness(Segment(k, d)),
             \/ d = << >> /\ (astray'[c] \/ Keeps(c))
             \/ d # << >> /\ k = Rev(c)
             \/ /\ d # << >> /\ k = c /\ Keeps(c)
                /\ d \in RequestData => Wants(c, d)'
                /\ d \notin RequestData => d[1] # Star
      PROVE  CapKnown' /\ \A e \in Conns : Known(e)'
  <2>0. Segment(k, d).key = k /\ Segment(k, d).data = d /\ c # Rev(c)
    BY SegmentAccepted, ConnsApart
  <2>1. ASSUME NEW e \in Conns \ {c}
        PROVE  (requested'[e] <=> requested[e]) /\ (misled'[e] <=> misled[e])
    <3>1. k \notin {e, Rev(e)}
      BY ConnsApart, ConnsAssumption
    <3> QED BY <1>3, <2>0, <3>1, Witnessed
  <2>2. CASE d = << >>
    <3>1. table' = table /\ ~Accepted(cap'.frame) /\ cap'.frame = Segment(k, << >>)
      <4>1. ~Accepted(Segment(k, << >>))
        BY <1>3, <2>2, SegmentAccepted
      <4>2. pkt_recv(Segment(k, << >>), t, Segment(k, << >>).data \o s)
        BY <1>3, <2>2 DEF Deliver
      <4>3. cap'.frame = Segment(k, << >>) /\ table' = table
        BY <4>1, <4>2, EmptyPass
      <4> QED BY <4>1, <4>3
    <3>2. CapKnown'
      BY <2>0, <2>2, <3>1 DEF CapKnown
    <3>3. << >> \notin RequestData
      BY RequestsAssumption DEF RequestData
    <3>4. (requested'[c] <=> requested[c]) /\ (misled'[c] <=> misled[c])
      BY <1>3, <2>0, <2>2, <3>3, Witnessed
    <3>5. Apart(c) /\ Known(c)'
      BY <1>0, <1>3, <2>2, <3>1, <3>4, UnheardKnown
    <3>6. \A e \in Conns \ {c} : Known(e)'
      BY <1>0, <1>1, <2>1, <3>1, <3>5, OthersKnown
    <3> QED BY <3>2, <3>5, <3>6
  <2>3. CASE d # << >>
    <3>1. Apart(c) /\ CapKnown' /\ Known(c)' /\ cap'.frame.key \in {c, Rev(c)}
      BY <1>0, <1>3, <2>0, <2>3, CaughtKnown
    <3>2. \A e \in Conns \ {c} : Known(e)'
      BY <1>0, <1>1, <2>1, <3>1, OthersKnown
    <3> QED BY <3>1, <3>2
  <2> QED BY <2>2, <2>3
<1>4. WireIs(c, t)
  BY <1>0, WireCases
<1> QED BY <1>2, <1>3, <1>4 DEF WireIs

\* A frame handled again after a timeout.
LEMMA TimeoutKnown ==
  ASSUME ~MallocMayFail, TypeOK, OneDirection, LossyInv, Timeout, Witness(cap.frame),
         UNCHANGED <<now, waiting, astray>>
  PROVE  CapKnown' /\ \A e \in Conns : Known(e)'
<1>0. STypeOK /\ CapKnown /\ \A e \in Conns : Known(e)
  BY DEF LossyInv
<1>1. pkt_recv(cap.frame, cap.ts, cap.buf)
  BY DEF Timeout
<1>2. \A e \in Conns : Keeps(e)
  BY DEF Keeps
<1>3. CASE ~Accepted(cap.frame)
  <2>1. table' = table /\ cap'.frame = cap.frame /\ cap.frame.data = << >>
    BY <1>0, <1>1, <1>3, EmptyPass DEF CapKnown
  <2>2. << >> \notin RequestData
    BY RequestsAssumption DEF RequestData
  <2>3. \A e \in Conns : (requested'[e] <=> requested[e]) /\ (misled'[e] <=> misled[e])
    BY <2>1, <2>2, Witnessed
  <2>4. CapKnown'
    BY <1>3, <2>1 DEF CapKnown
  <2>5. \A e \in Conns : Known(e)'
    BY <1>0, <1>2, <1>3, <2>1, <2>3, UnheardKnown
  <2> QED BY <2>4, <2>5
<1>4. CASE Accepted(cap.frame)
  <2>1. PICK c \in Conns : cap.frame.key \in {c, Rev(c)}
    BY <1>0, <1>4 DEF CapKnown
  <2>2. cap.frame.data # << >>
    BY <1>0, <1>4 DEF CapKnown
  <2>3. Led(c) /\ Fresh(c) /\ CapFit(c)
    BY <1>0 DEF Known
  <2>4. Fit(c, cap.frame, cap.buf)
    BY <1>4, <2>1, <2>3 DEF CapFit
  <2>5. Passed(c, cap.frame, cap.buf)
    BY <1>1, <1>4, <2>1, <2>2, <2>3, <2>4, PassIsPassed
  <2>6. cap.frame.key = c /\ cap.frame.data \in RequestData =>
          Open(c) \/ astray'[c] \/ Wants(c, cap.frame.data)
    BY <1>4, <2>3 DEF CapFit
  <2>7. CapKnown' /\ Known(c)'
    <3>1. \A d : Wants(c, d) => Wants(c, d)'
      BY DEF Wants
    <3> QED BY <1>2, <1>4, <2>1, <2>2, <2>3, <2>4, <2>5, <2>6, <3>1, PassedKnown
  <2>8. ASSUME NEW e \in Conns \ {c}
        PROVE  (requested'[e] <=> requested[e]) /\ (misled'[e] <=> misled[e])
    <3>1. cap.frame.key \notin {e, Rev(e)}
      BY <2>1, ConnsApart, ConnsAssumption
    <3> QED BY <3>1, Witnessed
  <2>9. Apart(c) /\ cap'.frame = cap.frame
    BY <2>5 DEF Passed
  <2>10. \A e \in Conns \ {c} : Known(e)'
    BY <1>0, <2>1, <2>8, <2>9, OthersKnown
  <2> QED BY <2>7, <2>10
<1> QED BY <1>3, <1>4

\* Every step keeps what is known.
LEMMA LossyStep ==
  ASSUME PlainChunks, RepliesSayMore, ~MallocMayFail, TypeOK, OneDirection,
         LossyInv, [SNext]_svars
  PROVE  LossyInv'
<1>0. STypeOK /\ STypeOK' /\ CapKnown /\ \A e \in Conns : Known(e)
  BY SessionType DEF LossyInv
<1>1. CASE UNCHANGED <<cap, table, waiting, astray, requested, misled>>
  BY <1>0, <1>1 DEF LossyInv, CapKnown, Known, Led, Fresh, CapFit, Fit, Wants, Open
<1>2. CASE Timeout /\ Witness(cap.frame) /\ UNCHANGED <<now, waiting, astray>>
  BY <1>0, <1>2, TimeoutKnown DEF LossyInv
<1>3. ASSUME NEW c \in Conns, NEW t \in now..MaxTime, Wire(c, t)
      PROVE  LossyInv'
  <2>1. t \in Nat
    BY <1>0, MaxTimeAssumption DEF STypeOK
  <2> QED BY <1>0, <1>3, <2>1, WireKnown DEF LossyInv
<1> QED BY <1>1, <1>2, <1>3 DEF SNext, Pcap, Fail, svars, vars

\* The invariant behind the three theorems below.
LEMMA LossyAlways ==
  ASSUME PlainChunks, RepliesSayMore, ~MallocMayFail
  PROVE  SSpec => []LossyInv
<1>1. SInit => LossyInv
  <2>1. DOMAIN << >> = {}
    OBVIOUS
  <2> QED BY <2>1, SessionInit
          DEF SInit, Init, LossyInv, CapKnown, Known, Led, Fresh, CapFit, Open,
              Accepted, NoFrame, MinCaplen
<1>2. TypeOK /\ OneDirection /\ LossyInv /\ [SNext]_svars => LossyInv'
  BY LossyStep
<1>3. SSpec => []TypeOK /\ []OneDirection
  BY SessionIsTracer, TypeCorrect, OneDirectionCorrect, PTL
<1> QED BY <1>1, <1>2, <1>3, PTL DEF SSpec

\* An entry has the direction of a request only after an array reply whose
\* request pkt_recv was not given, whatever is lost, closed, handled again or
\* under way when the capture begins.
THEOREM RolesRightCorrect ==
  ASSUME PlainChunks, RepliesSayMore, ~MallocMayFail
  PROVE  SSpec => []RolesRight
<1>1. LossyInv => RolesRight
  BY DEF LossyInv, Known, Led, RolesRight
<1> QED BY <1>1, LossyAlways, PTL

\* A stale entry is that of a reply that was lost or never came: pkt_recv
\* makes no other one, in whatever order it handles what is captured and
\* however often it handles a frame again.
THEOREM StaleOnlyAfterLossCorrect ==
  ASSUME PlainChunks, RepliesSayMore, ~MallocMayFail
  PROVE  SSpec => []StaleOnlyAfterLoss
<1>1. LossyInv => StaleOnlyAfterLoss
  BY DEF LossyInv, Known, Fresh, StaleOnlyAfterLoss
<1> QED BY <1>1, LossyAlways, PTL

\* A line has the name of the request that is being answered, unless a reply
\* was lost or never came since the last one captured; and it takes what a
\* client sends for the answer only after an array reply to a request that
\* was not heard.
THEOREM MisnamedOnlyAfterLossCorrect ==
  ASSUME PlainChunks, RepliesSayMore, ~MallocMayFail
  PROVE  SSpec => MisnamedOnlyAfterLoss
<1> DEFINE printed == DOMAIN table \ DOMAIN table'
           Named ==
      \A c \in Conns :
        /\ c \in printed => misled[c]
        /\ Rev(c) \in printed /\ ~astray[c] =>
             /\ waiting[c] # NoRequest
             /\ line'.key = Rev(c) /\ line'.cmd = waiting[c].cmd
           Life ==
      /\ \A k \in DOMAIN table \ DOMAIN table' :
           line' # NoLine /\ line'.key = k
      /\ \A k \in DOMAIN table \cap DOMAIN table' :
           table'[k].cmd = table[k].cmd
      /\ line' # NoLine =>
           /\ line'.key \in DOMAIN table \ DOMAIN table'
           /\ line'.cmd = table[line'.key].cmd
           /\ line'.asked = table[line'.key].ts
<1>1. LossyInv /\ [Life]_vars => [Named]_svars
  <2> SUFFICES ASSUME LossyInv, [Life]_vars PROVE Named
    OBVIOUS
  <2>0. \A c \in Conns : Led(c) /\ Fresh(c)
    BY DEF LossyInv, Known
  <2>1. CASE UNCHANGED vars
    BY <2>1 DEF vars
  <2>2. CASE Life
    BY <2>0, <2>2 DEF Led, Fresh, Open
  <2> QED BY <2>1, <2>2
<1>2. SSpec => []LossyInv
  BY LossyAlways
<1>3. SSpec => EntryLife
  BY SessionIsTracer, EntryLifeCorrect
<1>4. SSpec => [][Life]_vars
  BY <1>3 DEF EntryLife
<1> HIDE DEF Named, Life
<1>5. SSpec => [][Named]_svars
  BY <1>1, <1>2, <1>4, PTL
<1> QED BY <1>5 DEF MisnamedOnlyAfterLoss, Named


-----------------------------------------------------------------------------
(***************************************************************************)
(* When nothing is lost.                                                   *)
(***************************************************************************)
\* The entry of a connection is what its client waits for.
Sync(c) ==
  /\ Open(c) <=> waiting[c] # NoRequest
  /\ Open(c) => table[Rev(c)] = waiting[c]

\* InSync, connection by connection.
LEMMA InSyncParts == InSync <=> KeysOfReplies /\ \A c \in Conns : Sync(c)
<1>1. InSync => KeysOfReplies /\ \A c \in Conns : Sync(c)
  BY ConnsApart DEF InSync, KeysOfReplies, Sync, Open
<1>2. KeysOfReplies /\ (\A c \in Conns : Sync(c)) => InSync
  BY DEF InSync, KeysOfReplies, Sync, Open
<1> QED BY <1>1, <1>2

\* What makes InSync inductive: a request that a timeout handles again has its
\* entry.  (Handled again without one, it is parsed after its numbers were
\* overwritten, and its entry has another name.)
CapOpen ==
  \A c \in Conns :
    Accepted(cap.frame) /\ cap.frame.key = c /\ cap.buf[1] = Star => Open(c)

\* Besides, a frame of a client that a timeout handles again has the time of
\* its entry, and one of a server finds no entry and is the frame that was
\* captured.
CapTime ==
  \A c \in Conns :
    Accepted(cap.frame) /\ cap.frame.key = c /\ Open(c) => table[Rev(c)].ts = cap.ts
CapServer ==
  Accepted(cap.frame) =>
    \E c \in Conns :
      \/ cap.frame.key = c
      \/ /\ cap.frame.key = Rev(c) /\ ~Open(c)
         /\ cap.frame.data # << >> /\ cap.buf[1] = cap.frame.data[1]
         /\ cap.frame.data \in Replies \/ cap.frame.data[1] # Star
CapSync == CapOpen /\ CapTime /\ CapServer

SyncInv == STypeOK /\ TypeOK /\ InSync /\ CapSync

\* What a step about c means for the log.
Logged(c, t) ==
  \/ /\ line' = NoLine
     /\ \/ waiting' = waiting
        \/ /\ waiting[c] = NoRequest
           /\ \E cmd \in Cmds : waiting' = [waiting EXCEPT ![c] = [cmd |-> cmd, ts |-> t]]
        \/ /\ waiting[c] # NoRequest
           /\ waiting' = [waiting EXCEPT ![c].ts = t]
  \/ /\ waiting[c] # NoRequest
     /\ waiting' = [waiting EXCEPT ![c] = NoRequest]
     /\ line' = Report(Rev(c), waiting[c], t)

\* A client of which nothing is lost is heard, and its entry is up to date.
LEMMA ClientSync ==
  ASSUME TypeOK, KeysOfReplies, CapSync, NEW c \in Conns, Sync(c),
         NEW d \in Sent, d # << >>, NEW t \in Nat, NEW s \in Stale,
         Deliver(Segment(c, d), t, s), Open(c) \/ d[1] # Star
  PROVE  /\ Untouched(c) /\ CapSync' /\ line' = NoLine
         /\ Open(c)' <=> Open(c)
         /\ Open(c) => table'[Rev(c)] = [waiting[c] EXCEPT !.ts = t]
<1>1. /\ Untouched(c) /\ line' = NoLine
      /\ Accepted(cap'.frame) /\ cap'.frame.key = c /\ cap'.ts = t
      /\ Open(c) => /\ Open(c)' /\ table'[Rev(c)] = [table[Rev(c)] EXCEPT !.ts = t]
      /\ ~Open(c) /\ d[1] # Star => ~Open(c)' /\ cap'.buf[1] # Star
  BY ClientHeard, RepliesOnly
<1>2. Open(c) => table[Rev(c)] \in Item
  BY DEF TypeOK, Open
<1>3. Open(c) => table'[Rev(c)].ts = t
  BY <1>1, <1>2 DEF Item
<1>4. CapSync'
  BY <1>1, <1>3 DEF CapSync, CapOpen, CapTime, CapServer
<1> QED BY <1>1, <1>4 DEF Sync

\* A packet without payload changes nothing.
LEMMA EmptySync ==
  ASSUME CapSync, NEW c \in Conns, NEW k \in {c, Rev(c)}, Sync(c),
         NEW t \in Nat, NEW s \in Stale, Deliver(Segment(k, << >>), t, s)
  PROVE  Untouched(c) /\ CapSync' /\ line' = NoLine /\ table' = table
<1>1. table' = table /\ line' = NoLine /\ ~Accepted(cap'.frame)
  BY NothingHeard
<1> QED BY <1>1 DEF Untouched, CapSync, CapOpen, CapTime, CapServer

\* A server of which nothing is lost answers what its client waits for.
LEMMA ServerSync ==
  ASSUME TypeOK, KeysOfReplies, CapSync, NEW c \in Conns, Sync(c),
         NEW d \in Sent, d # << >>, NEW t \in Nat, NEW s \in Stale,
         Deliver(Segment(Rev(c), d), t, s), d[1] # Star \/ (Open(c) /\ d \in Replies)
  PROVE  /\ Untouched(c) /\ CapSync' /\ ~Open(c)'
         /\ Open(c) => line' = Report(Rev(c), waiting[c], t)
         /\ ~Open(c) => line' = NoLine
<1>1. /\ Untouched(c) /\ ~Open(c)'
      /\ cap'.frame.key = Rev(c) /\ cap'.frame.data = d /\ cap'.buf[1] = d[1]
      /\ Open(c) => line' = Report(Rev(c), table[Rev(c)], t)
      /\ ~Open(c) => line' = NoLine
  BY ServerHeard, RepliesOnly
<1>2. Rev(c) \notin Conns
  BY ConnsAssumption
<1>3. CapSync'
  BY <1>1, <1>2 DEF CapSync, CapOpen, CapTime, CapServer
<1> QED BY <1>1, <1>3 DEF Sync

\* A step on the wire keeps the entry of its connection in step, and is
\* logged as it should be.
LEMMA WireSync ==
  ASSUME PlainChunks, RepliesSayMore, NothingLost,
         SyncInv, NEW c \in Conns, NEW t \in Nat, Wire(c, t)
  PROVE  Untouched(c) /\ CapSync' /\ Sync(c)' /\ Logged(c, t)
<1>0. TypeOK /\ KeysOfReplies /\ CapSync /\ Sync(c) /\ STypeOK
  BY InSyncParts DEF SyncInv
<1>w. waiting \in [Conns -> {NoRequest} \cup [cmd : Cmds, ts : 0..MaxTime]]
  BY <1>0 DEF STypeOK
<1>n. Losing = FALSE /\ Closing = FALSE /\ ~MallocMayFail /\ Acks(Rev(c)) = {<< >>}
  BY DEF NothingLost, Acks, Rev
<1>1. ASSUME NEW r \in Requests, Ask(c, r, t)
      PROVE  Untouched(c) /\ CapSync' /\ Sync(c)' /\ Logged(c, t)
  <2>1. /\ waiting[c] = NoRequest
        /\ waiting' = [waiting EXCEPT ![c] = [cmd |-> r.cmd, ts |-> t]]
        /\ waiting'[c] = [cmd |-> r.cmd, ts |-> t] /\ r.cmd \in Cmds
    BY <1>1, <1>w DEF Ask, Cmds
  <2>2. waiting'[c] # NoRequest
    BY <2>1, NoRequestAssumption
  <2>3. PICK s \in Stale : Deliver(Segment(c, r.data), t, s)
    BY <1>1, <1>n DEF Ask, Catch, Capture, Lose
  <2>4. ~Open(c) /\ r.data \in Sent
    BY <1>0, <2>1 DEF Sync, Sent
  <2>5. r.data # << >> /\ Open(c)' /\ table'[Rev(c)] = [ts |-> t, cmd |-> r.cmd]
    BY <1>0, <1>n, <2>3, <2>4, RequestHeard, RepliesOnly
  <2>6. /\ Untouched(c) /\ line' = NoLine
        /\ cap'.frame.key = c /\ cap'.ts = t
    BY <1>0, <2>3, <2>4, <2>5, ClientHeard, RepliesOnly
  <2>7. CapSync'
    <3>1. table'[Rev(c)].ts = t
      BY <2>5
    <3> QED BY <2>5, <2>6, <3>1 DEF CapSync, CapOpen, CapTime, CapServer
  <2>8. table'[Rev(c)] = waiting'[c]
    BY <2>1, <2>5
  <2>9. Sync(c)'
    BY <2>2, <2>5, <2>8 DEF Sync
  <2> QED BY <2>1, <2>6, <2>7, <2>9 DEF Logged
<1>2. ASSUME NEW d, AskOn(c, d, t)
      PROVE  Untouched(c) /\ CapSync' /\ Sync(c)' /\ Logged(c, t)
  <2>1. /\ waiting[c] # NoRequest /\ waiting[c] \in [cmd : Cmds, ts : 0..MaxTime]
        /\ Open(c) /\ table[Rev(c)] = waiting[c]
    BY <1>0, <1>2, <1>w DEF AskOn, Sync
  <2>2. d \in Sent
    BY <1>2 DEF AskOn, Sent, Acks
  <2>3. PICK s \in Stale : Deliver(Segment(c, d), t, s)
    BY <1>2, <1>n DEF AskOn, Catch, Capture, Lose
  <2>4. CASE d = << >>
    <3>1. waiting' = waiting
      BY <1>2, <2>4 DEF AskOn
    <3>2. Untouched(c) /\ CapSync' /\ line' = NoLine /\ table' = table
      BY <1>0, <2>3, <2>4, EmptySync
    <3> QED BY <1>0, <3>1, <3>2 DEF Sync, Open, Logged
  <2>5. CASE d # << >>
    <3>1. waiting' = [waiting EXCEPT ![c].ts = t]
          /\ waiting'[c] = [waiting[c] EXCEPT !.ts = t]
      BY <1>2, <1>w, <2>5 DEF AskOn
    <3>2. waiting'[c] # NoRequest
      <4>1. waiting'[c] \in [cmd : Cmds, ts : Nat]
        BY <2>1, <3>1
      <4> QED BY <4>1, NoRequestAssumption
    <3>3. /\ Untouched(c) /\ CapSync' /\ line' = NoLine
          /\ Open(c)' /\ table'[Rev(c)] = [waiting[c] EXCEPT !.ts = t]
      BY <1>0, <2>1, <2>2, <2>3, <2>5, ClientSync
    <3>4. Sync(c)'
      BY <3>1, <3>2, <3>3 DEF Sync
    <3> QED BY <2>1, <3>1, <3>3, <3>4 DEF Logged
  <2> QED BY <2>4, <2>5
<1>3. ASSUME NEW d \in Replies, Reply(c, d, t)
      PROVE  Untouched(c) /\ CapSync' /\ Sync(c)' /\ Logged(c, t)
  <2>1. /\ waiting[c] # NoRequest /\ Open(c)
        /\ waiting' = [waiting EXCEPT ![c] = NoRequest] /\ waiting'[c] = NoRequest
    BY <1>0, <1>3, <1>w DEF Reply, Sync
  <2>2. PICK s \in Stale : Deliver(Segment(Rev(c), d), t, s)
    BY <1>3, <1>n DEF Reply, Catch, Capture, Lose
  <2>3. d \in Sent /\ d # << >>
    BY DEF Sent, RepliesSayMore
  <2>4. /\ Untouched(c) /\ CapSync' /\ ~Open(c)'
        /\ line' = Report(Rev(c), waiting[c], t)
    BY <1>0, <2>1, <2>2, <2>3, ServerSync
  <2> QED BY <2>1, <2>4 DEF Sync, Logged
<1>4. ~Close(c, t)
  BY <1>n DEF Close
<1>5. ASSUME NEW d \in Chunks, ReplyOn(c, d, t)
      PROVE  Untouched(c) /\ CapSync' /\ Sync(c)' /\ Logged(c, t)
  <2>1. waiting[c] = NoRequest /\ waiting' = waiting /\ ~Open(c) /\ d \in Sent
    BY <1>0, <1>5 DEF ReplyOn, Sync, Sent
  <2>2. PICK s \in Stale : Deliver(Segment(Rev(c), d), t, s)
    BY <1>5 DEF ReplyOn, Catch, Capture
  <2>3. CASE d = << >>
    <3>1. Untouched(c) /\ CapSync' /\ line' = NoLine /\ table' = table
      BY <1>0, <2>2, <2>3, EmptySync
    <3> QED BY <1>0, <2>1, <3>1 DEF Sync, Open, Logged
  <2>4. CASE d # << >>
    <3>1. d[1] # Star
      BY <2>4 DEF PlainChunks
    <3>2. Untouched(c) /\ CapSync' /\ ~Open(c)' /\ line' = NoLine
      BY <1>0, <2>1, <2>2, <2>4, <3>1, ServerSync
    <3> QED BY <2>1, <3>2 DEF Sync, Logged
  <2> QED BY <2>3, <2>4
<1>6. ASSUME NEW d \in Acks(c), ClientAck(c, d, t)
      PROVE  Untouched(c) /\ CapSync' /\ Sync(c)' /\ Logged(c, t)
  <2>1. waiting[c] = NoRequest /\ waiting' = waiting /\ ~Open(c) /\ d \in Sent
    BY <1>0, <1>6 DEF ClientAck, Sync, Sent, Acks
  <2>2. PICK s \in Stale : Deliver(Segment(c, d), t, s)
    BY <1>6 DEF ClientAck, Catch, Capture
  <2>3. CASE d = << >>
    <3>1. Untouched(c) /\ CapSync' /\ line' = NoLine /\ table' = table
      BY <1>0, <2>2, <2>3, EmptySync
    <3> QED BY <1>0, <2>1, <3>1 DEF Sync, Open, Logged
  <2>4. CASE d # << >>
    <3>1. d[1] # Star
      BY <2>4, AcksPlain
    <3>2. Untouched(c) /\ CapSync' /\ line' = NoLine /\ ~Open(c)'
      BY <1>0, <2>1, <2>2, <2>4, <3>1, ClientSync
    <3> QED BY <2>1, <3>2 DEF Sync, Logged
  <2> QED BY <2>3, <2>4
<1>7. ASSUME NEW d \in Acks(Rev(c)), ServerAck(c, d, t)
      PROVE  Untouched(c) /\ CapSync' /\ Sync(c)' /\ Logged(c, t)
  <2>1. d = << >> /\ waiting' = waiting
    BY <1>7, <1>n DEF ServerAck
  <2>2. PICK s \in Stale : Deliver(Segment(Rev(c), d), t, s)
    BY <1>7 DEF ServerAck, Catch, Capture
  <2>3. Untouched(c) /\ CapSync' /\ line' = NoLine /\ table' = table
    BY <1>0, <2>1, <2>2, EmptySync
  <2> QED BY <1>0, <2>1, <2>3 DEF Sync, Open, Logged
<1> QED BY <1>n, <1>1, <1>2, <1>3, <1>4, <1>5, <1>6, <1>7 DEF Wire


\* A step about one connection leaves the others in step.
LEMMA OthersSync ==
  ASSUME NEW c \in Conns, NEW e \in Conns, e # c, Sync(e), Untouched(c),
         waiting'[e] = waiting[e]
  PROVE  Sync(e)'
<1>1. Rev(e) # Rev(c)
  BY ConnsApart
<1> QED BY <1>1 DEF Sync, Untouched, Open

\* A timeout changes nothing that can be seen: the frame that is handled
\* again has the time of its entry, or it has no entry and is no request.
LEMMA TimeoutSync ==
  ASSUME NoArrayTimedOut, SyncInv, cap.frame.data \in TimedOut, Timeout,
         UNCHANGED <<now, waiting, astray>>
  PROVE  InSync' /\ line' = NoLine /\ CapSync'
<1>0. TypeOK /\ KeysOfReplies /\ CapOpen /\ CapTime /\ CapServer /\ InSync
      /\ \A c \in Conns : Sync(c)
  BY InSyncParts DEF SyncInv, CapSync
<1>1. pkt_recv(cap.frame, cap.ts, cap.buf)
  BY DEF Timeout
<1>2. CASE ~Accepted(cap.frame)
  <2>1. table' = table /\ line' = NoLine /\ cap'.frame = cap.frame
    BY <1>1, <1>2, EmptyPass
  <2> QED BY <1>0, <1>2, <2>1 DEF CapSync, CapOpen, CapTime, CapServer, InSync, Open
<1>3. ASSUME NEW c \in Conns, Untouched(c), Sync(c)'
      PROVE  InSync'
  <2>1. \A e \in Conns : Sync(e)'
    BY <1>0, <1>3, OthersSync
  <2>2. KeysOfReplies'
    BY <1>0, <1>3, UntouchedRoles
  <2> QED BY <2>1, <2>2 DEF InSync, KeysOfReplies, Sync, Open
<1>4. ASSUME NEW c \in Conns, Accepted(cap.frame), cap.frame.key = c
      PROVE  InSync' /\ line' = NoLine /\ CapSync'
  <2>0. ClientPassed(c, cap.frame, cap.ts, cap.buf)
    BY <1>0, <1>1, <1>4, ClientPass, RepliesOnly
  <2>1. /\ Untouched(c) /\ line' = NoLine
        /\ cap'.frame = cap.frame /\ cap'.ts = cap.ts
        /\ Open(c) \/ cap.buf[1] # Star => cap'.buf = cap.buf
        /\ Open(c) => /\ Open(c)' /\ table'[Rev(c)] = [table[Rev(c)] EXCEPT !.ts = cap.ts]
        /\ ~Open(c) /\ cap.buf[1] # Star => ~Open(c)'
    BY <2>0 DEF ClientPassed
  <2>2. ~Open(c) => cap.buf[1] # Star
    BY <1>0, <1>4 DEF CapOpen
  <2>3. Open(c) => table'[Rev(c)] = table[Rev(c)] /\ table[Rev(c)].ts = cap.ts
    <3>1. Open(c) => table[Rev(c)] \in Item /\ table[Rev(c)].ts = cap.ts
      BY <1>0, <1>4 DEF CapTime, TypeOK, Open
    <3> QED BY <2>1, <3>1 DEF Item
  <2>4. Sync(c)'
    BY <1>0, <2>1, <2>2, <2>3 DEF Sync
  <2>5. CapSync'
    BY <1>4, <2>1, <2>2, <2>3 DEF CapSync, CapOpen, CapTime, CapServer
  <2> QED BY <1>3, <2>1, <2>4, <2>5
<1>5. ASSUME NEW c \in Conns, Accepted(cap.frame), cap.frame.key = Rev(c), ~Open(c),
             cap.frame.data # << >>, cap.buf[1] = cap.frame.data[1],
             cap.frame.data \in Replies \/ cap.frame.data[1] # Star
      PROVE  InSync' /\ line' = NoLine /\ CapSync'
  <2>1. cap.buf[1] # Star
    BY <1>5 DEF NoArrayTimedOut
  <2>2. /\ Untouched(c) /\ ~Open(c)' /\ line' = NoLine
        /\ cap'.frame = cap.frame /\ cap'.buf = cap.buf
    BY <1>0, <1>1, <1>5, <2>1, ServerPass, RepliesOnly
  <2>3. Sync(c)'
    BY <1>0, <1>5, <2>2 DEF Sync
  <2>4. CapSync'
    BY <1>5, <2>2, ConnsAssumption DEF CapSync, CapOpen, CapTime, CapServer
  <2> QED BY <1>3, <2>2, <2>3, <2>4
<1> QED BY <1>0, <1>2, <1>4, <1>5 DEF CapServer

\* The invariant, and what each step means for the log.
LEMMA SyncStep ==
  ASSUME PlainChunks, RepliesSayMore, NothingLost, NoArrayTimedOut,
         SyncInv, TypeOK', [SNext]_svars
  PROVE  /\ SyncInv'
         /\ \/ UNCHANGED <<now, waiting, line>>
            \/ UNCHANGED <<now, waiting>> /\ line' = NoLine
            \/ \E c \in Conns, t \in now..MaxTime : now' = t /\ Logged(c, t)
<1>0. STypeOK' /\ CapSync /\ InSync
  BY SessionType DEF SyncInv
<1>1. CASE UNCHANGED svars
  BY <1>0, <1>1 DEF SyncInv, InSync, CapSync, CapOpen, CapTime, CapServer, Open, svars, vars
<1>2. CASE Fail /\ UNCHANGED <<now, waiting, astray>>
  BY <1>0, <1>2 DEF SyncInv, InSync, CapSync, CapOpen, CapTime, CapServer, Open, Fail
<1>3. CASE cap.frame.data \in TimedOut /\ Timeout /\ UNCHANGED <<now, waiting, astray>>
  BY <1>0, <1>3, TimeoutSync DEF SyncInv
<1>4. ASSUME NEW c \in Conns, NEW t \in now..MaxTime, Wire(c, t)
      PROVE  SyncInv' /\ now' = t /\ Logged(c, t)
  <2>0. STypeOK /\ t \in Nat
    BY MaxTimeAssumption DEF SyncInv, STypeOK
  <2>1. Untouched(c) /\ CapSync' /\ Sync(c)' /\ Logged(c, t)
    BY <1>4, <2>0, WireSync
  <2>2. \A e \in Conns \ {c} : waiting'[e] = waiting[e]
    BY <1>4, <2>0, WireFrame
  <2>3. KeysOfReplies /\ \A e \in Conns : Sync(e)
    BY <1>0, InSyncParts
  <2>4. \A e \in Conns : Sync(e)'
    BY <2>1, <2>2, <2>3, OthersSync
  <2>5. KeysOfReplies'
    BY <2>1, <2>3, UntouchedRoles
  <2>6. InSync'
    BY <2>4, <2>5 DEF InSync, KeysOfReplies, Sync, Open
  <2>7. now' = t
    BY <1>4 DEF Wire
  <2> QED BY <1>0, <2>1, <2>6, <2>7 DEF SyncInv
<1> QED BY <1>1, <1>2, <1>3, <1>4 DEF SNext, Pcap, svars, vars

\* The invariant holds before the first packet.
LEMMA SyncInit ==
  ASSUME NothingLost, SInit, TypeOK
  PROVE  SyncInv /\ waiting = [c \in Conns |-> NoRequest]
<1>1. DOMAIN << >> = {}
  OBVIOUS
<1>2. waiting = [c \in Conns |-> NoRequest]
  BY DEF SInit, NothingLost
<1>3. InSync
  BY <1>1, <1>2 DEF SInit, Init, InSync, Open
<1>4. CapSync
  BY DEF SInit, Init, CapSync, CapOpen, CapTime, CapServer, Accepted, NoFrame, MinCaplen
<1> QED BY <1>2, <1>3, <1>4, SessionInit DEF SyncInv

\* And ever after.
LEMMA SyncAlways ==
  ASSUME PlainChunks, RepliesSayMore, NothingLost, NoArrayTimedOut
  PROVE  SSpec => []SyncInv
<1>1. SInit /\ TypeOK => SyncInv
  BY SyncInit
<1>2. SyncInv /\ TypeOK' /\ [SNext]_svars => SyncInv'
  BY SyncStep
<1>3. SSpec => []TypeOK
  BY SessionIsTracer, TypeCorrect, PTL
<1> QED BY <1>1, <1>2, <1>3, PTL DEF SSpec

\* When nothing is lost, the port table is the clients' state: pkt_recv keeps
\* one entry for every client that waits, with the name of what it asked for
\* and the time it was last heard, through retransmissions, acknowledgements
\* and timeouts.
THEOREM InSyncCorrect ==
  ASSUME PlainChunks, RepliesSayMore, NothingLost, NoArrayTimedOut
  PROVE  SSpec => []InSync
<1>1. SSpec => []SyncInv
  BY SyncAlways
<1>2. SyncInv => InSync
  BY DEF SyncInv
<1> QED BY <1>1, <1>2, PTL

-----------------------------------------------------------------------------
\* A printed line as the log has it.
LEMMA LineLogged ==
  ASSUME NEW c \in Conns, NEW w \in [cmd : Cmds, ts : Nat], NEW t \in Nat,
         w \in Item, line' = Report(Rev(c), w, t)
  PROVE  /\ line' # NoLine
         /\ Rev(line'.key) = c /\ line'.cmd = w.cmd
         /\ line'.es % UIntMod = (t - w.ts) % UIntMod
<1>1. Rev(c) \in Directions /\ Rev(Rev(c)) = c
  BY ConnsApart
<1>2. line' \in Line
  BY <1>1, ReportType
<1>3. line'.key = Rev(c) /\ line'.cmd = w.cmd /\ line'.es = Elapsed(w.ts, t)
  BY DEF Report
<1>4. Elapsed(w.ts, t) % UIntMod = (t - w.ts) % UIntMod
  BY ElapsedDifference DEF Item
<1> QED BY <1>1, <1>2, <1>3, <1>4, NoLineAssumption

\* When nothing is lost, what the tracer prints is the log of LatencyLog: a
\* line for every reply, with the name of the command and the time since the
\* client was last heard, modulo 2^32 microseconds; and no other line.
THEOREM ImplementsLog ==
  ASSUME PlainChunks, RepliesSayMore, NothingLost, NoArrayTimedOut
  PROVE  SSpec => LogSpec
<1>1. SInit /\ TypeOK => Log!LInit
  <2> SUFFICES ASSUME SInit, TypeOK PROVE Log!LInit
    OBVIOUS
  <2>1. waiting = [c \in Conns |-> NoRequest]
    BY SyncInit
  <2> QED BY <2>1 DEF SInit, Init, Log!LInit
<1>2. SyncInv /\ TypeOK' /\ [SNext]_svars => [Log!LNext]_(Log!lvars)
  <2> SUFFICES ASSUME SyncInv, TypeOK', [SNext]_svars PROVE [Log!LNext]_(Log!lvars)
    OBVIOUS
  <2>0. STypeOK /\ TypeOK /\ InSync
    BY DEF SyncInv
  <2>1. CASE UNCHANGED <<now, waiting, line>>
    BY <2>1 DEF Log!lvars
  <2>2. CASE UNCHANGED <<now, waiting>> /\ line' = NoLine
    <3>1. now' = now /\ now \in 0..MaxTime /\ now >= now
      BY <2>0, <2>2, MaxTimeAssumption DEF STypeOK
    <3>2. Log!Quiet
      BY <2>2 DEF Log!Quiet
    <3> QED BY <3>1, <3>2 DEF Log!LNext
  <2>3. ASSUME NEW c \in Conns, NEW t \in now..MaxTime, now' = t, Logged(c, t)
        PROVE  Log!LNext
    <3>1. t \in 0..MaxTime /\ t >= now /\ t \in Nat
      BY <2>0, MaxTimeAssumption DEF STypeOK
    <3>2. CASE line' = NoLine /\ waiting' = waiting
      <4>1. Log!Quiet
        BY <3>2 DEF Log!Quiet
      <4> QED BY <2>3, <3>1, <4>1 DEF Log!LNext
    <3>3. ASSUME NEW cmd \in Cmds, line' = NoLine, waiting[c] = NoRequest,
                 waiting' = [waiting EXCEPT ![c] = [cmd |-> cmd, ts |-> t]]
          PROVE  Log!LNext
      <4>1. Log!Ask(c, cmd)
        BY <2>3, <3>3 DEF Log!Ask
      <4> QED BY <2>3, <3>1, <4>1 DEF Log!LNext
    <3>4. CASE /\ line' = NoLine /\ waiting[c] # NoRequest
               /\ waiting' = [waiting EXCEPT ![c].ts = t]
      <4>1. Log!AskOn(c)
        BY <2>3, <3>4 DEF Log!AskOn
      <4> QED BY <2>3, <3>1, <4>1 DEF Log!LNext
    <3>5. CASE /\ waiting[c] # NoRequest
               /\ waiting' = [waiting EXCEPT ![c] = NoRequest]
               /\ line' = Report(Rev(c), waiting[c], t)
      <4>1. waiting[c] \in [cmd : Cmds, ts : Nat]
        BY <2>0, <3>5, MaxTimeAssumption DEF STypeOK
      <4>2. waiting[c] \in Item
        BY <2>0, <3>5, InSyncParts DEF Sync, TypeOK, Open
      <4>3. /\ line' # NoLine
            /\ Rev(line'.key) = c /\ line'.cmd = waiting[c].cmd
            /\ line'.es % UIntMod = (t - waiting[c].ts) % UIntMod
        BY <3>1, <3>5, <4>1, <4>2, LineLogged
      <4>4. Log!Tell(c)
        BY <2>3, <3>5, <4>3 DEF Log!Tell
      <4> QED BY <2>3, <3>1, <4>4 DEF Log!LNext
    <3> QED BY <2>3, <3>2, <3>3, <3>4, <3>5 DEF Logged
  <2> QED BY <2>1, <2>2, <2>3, SyncStep
<1>3. SSpec => []TypeOK
  BY SessionIsTracer, TypeCorrect, PTL
<1>4. SSpec => []SyncInv
  BY SyncAlways
<1> QED BY <1>1, <1>2, <1>3, <1>4, PTL DEF SSpec, LogSpec, Log!LSpec

-----------------------------------------------------------------------------
(***************************************************************************)
(* Clients that do not: module RedisPipeline.                              *)
(***************************************************************************)
PCmds == {r.cmd : r \in Requests}
Asked == [cmd : PCmds, ts : 0..MaxTime]

PTypeOK ==
  /\ now \in 0..MaxTime
  /\ pending \in [Conns -> Seq(Asked)]
  /\ since \in [Conns -> Nat]
  /\ \A c \in Conns : since[c] <= Len(pending[c])

\* Requests are in the order of their times, which are past.
InOrder(s, t) ==
  \A i \in 1..Len(s) : /\ s[i].ts <= t
                       /\ \A j \in i..Len(s) : s[i].ts <= s[j].ts

\* The entry of one connection.
Burst(c) ==
  IF since[c] = 0 THEN ~Open(c)
  ELSE Open(c) /\ table[Rev(c)] = [cmd |-> OldestSince(c).cmd, ts |-> Last(pending[c]).ts]

\* A timeout handles again the latest segment of a client, at the time its
\* entry has, or a reply, which is no request and has no entry.
CapBurst ==
  Accepted(cap.frame) =>
    \E c \in Conns :
      \/ cap.frame.key = c /\ Open(c) /\ table[Rev(c)].ts = cap.ts
      \/ cap.frame.key = Rev(c) /\ ~Open(c) /\ cap.buf[1] # Star

BurstInv ==
  /\ TypeOK /\ KeysOfReplies /\ PTypeOK /\ CapBurst
  /\ \A c \in Conns : Burst(c) /\ InOrder(pending[c], now)

\* What a line says of the reply on c that the step handles.
LineRight(c) ==
  (line' # NoLine /\ line'.key = Rev(c) /\ now' < UIntMod) =>
    /\ line'.es <= now' - Head(pending[c]).ts
    /\ \E i \in DOMAIN pending[c] : pending[c][i].cmd = line'.cmd
    /\ since[c] = Len(pending[c]) => line'.cmd = Head(pending[c]).cmd
    /\ Len(pending[c]) = 1 => line'.es = now' - Head(pending[c]).ts

-----------------------------------------------------------------------------
\* A request or two of a client.
LEMMA BatchIs ==
  ASSUME NEW batch \in Batches
  PROVE  /\ Len(batch) \in Nat /\ 1 <= Len(batch) /\ batch \in Seq(Requests) /\ batch[1] \in Requests
         /\ DOMAIN batch = 1..Len(batch)
         /\ \A i \in 1..Len(batch) : batch[i] \in Requests
<1>1. ASSUME NEW r \in Requests, batch = <<r>>
      PROVE  batch \in Seq(Requests) /\ Len(batch) = 1 /\ batch[1] \in Requests
  BY <1>1
<1>2. ASSUME NEW r \in Requests, NEW q \in Requests, batch = <<r, q>>
      PROVE  /\ batch \in Seq(Requests) /\ Len(batch) = 2
             /\ batch[1] \in Requests /\ batch[2] \in Requests
  BY <1>2
<1>3. batch \in Seq(Requests) /\ Len(batch) \in Nat /\ 1 <= Len(batch) /\ batch[1] \in Requests
  BY <1>1, <1>2 DEF Batches
<1> QED BY <1>3

\* What a step on the wire hands to the tracer.
LEMMA SendIs ==
  ASSUME NEW c \in Conns, NEW batch \in Batches, NEW t, Send(c, batch, t)
  PROVE  \E s \in Stale :
           /\ Deliver(Segment(c, DataOf(batch)), t, s)
           /\ Segment(c, DataOf(batch)) \in Frames
BY BatchFramesAssumption DEF Send, Capture

LEMMA ReplyIs ==
  ASSUME NEW c \in Conns, NEW n, NEW d \in Replies, NEW t, PReply(c, n, d, t)
  PROVE  \E s \in Stale :
           Deliver(Segment(Rev(c), d), t, s) /\ Segment(Rev(c), d) \in Frames
<1>1. Segment(Rev(c), d) \in Frames
  BY BatchFramesAssumption
<1>2. Capture(Rev(c), d, t)
  BY DEF PReply
<1> QED BY <1>1, <1>2 DEF Capture

\* The clients' state has its types.
LEMMA PipelineType ==
  ASSUME PTypeOK, [PNext]_pvars
  PROVE  PTypeOK'
<1>1. CASE UNCHANGED pvars
  BY <1>1 DEF PTypeOK, pvars
<1>2. CASE PPcap
  BY <1>2 DEF PTypeOK, PPcap
<1>3. ASSUME NEW c \in Conns, NEW t \in now..MaxTime, PWire(c, t)
      PROVE  PTypeOK'
  <2>1. now' = t /\ t \in 0..MaxTime
    BY <1>3, MaxTimeAssumption DEF PWire, PTypeOK
  <2>2. /\ pending \in [Conns -> Seq(Asked)] /\ since \in [Conns -> Nat]
        /\ pending[c] \in Seq(Asked) /\ since[c] \in Nat /\ since[c] <= Len(pending[c])
        /\ Len(pending[c]) \in Nat
    BY DEF PTypeOK
  <2>3. ASSUME NEW p \in Seq(Asked), NEW n \in Nat, n <= Len(p),
               pending' = [pending EXCEPT ![c] = p], since' = [since EXCEPT ![c] = n]
        PROVE  PTypeOK'
    BY <2>1, <2>2, <2>3 DEF PTypeOK
  <2>4. ASSUME NEW batch \in Batches, Send(c, batch, t) PROVE PTypeOK'
    <3> DEFINE more == [i \in DOMAIN batch |-> [cmd |-> batch[i].cmd, ts |-> t]]
    <3>1. Len(batch) \in Nat /\ DOMAIN batch = 1..Len(batch)
          /\ \A i \in DOMAIN batch : batch[i].cmd \in PCmds
      BY BatchIs DEF PCmds
    <3>2. more \in Seq(Asked) /\ Len(more) = Len(batch)
      <4>1. more \in [1..Len(batch) -> Asked]
        BY <2>1, <3>1 DEF Asked
      <4> HIDE DEF more
      <4> QED BY <3>1, <4>1, FunctionIsSequence
    <3>3. pending' = [pending EXCEPT ![c] = pending[c] \o more]
          /\ since' = [since EXCEPT ![c] = since[c] + Len(batch)]
      BY <2>4 DEF Send
    <3> HIDE DEF more
    <3>4. pending[c] \o more \in Seq(Asked) /\ Len(pending[c] \o more) = Len(pending[c]) + Len(batch)
      <4>1. pending[c] \in Seq(Asked) /\ more \in Seq(Asked)
        BY <2>2, <3>2
      <4>2. pending[c] \o more \in Seq(Asked) /\ Len(pending[c] \o more) = Len(pending[c]) + Len(more)
        BY <4>1, ConcatProperties, Zenon
      <4> QED BY <3>2, <4>2
    <3>5. since[c] + Len(batch) \in Nat /\ since[c] + Len(batch) <= Len(pending[c]) + Len(batch)
      BY <2>2, <3>1
    <3> QED BY <2>3, <3>3, <3>4, <3>5
  <2>5. ASSUME NEW n \in 1..MaxPending, NEW d \in Replies, PReply(c, n, d, t) PROVE PTypeOK'
    <3> DEFINE rest == SubSeq(pending[c], n + 1, Len(pending[c]))
    <3>1. rest \in Seq(Asked) /\ Len(rest) \in Nat
      <4>1. n \in Nat \ {0}
        BY MaxTimeAssumption
      <4>2. \A i \in (n + 1)..Len(pending[c]) : pending[c][i] \in Asked
        BY <2>2, <4>1
      <4>3. n + 1 \in Int /\ Len(pending[c]) \in Int
        BY <2>2, <4>1
      <4>4. rest \in Seq(Asked)
        BY <4>2, <4>3, SubSeqProperties
      <4> HIDE DEF rest
      <4> QED BY <4>4
    <3>2. pending' = [pending EXCEPT ![c] = rest] /\ since' = [since EXCEPT ![c] = 0]
      BY <2>5 DEF PReply
    <3> HIDE DEF rest
    <3>3. 0 \in Nat /\ 0 <= Len(rest)
      BY <3>1
    <3> QED BY <2>3, <3>1, <3>2, <3>3
  <2> QED BY <1>3, <2>4, <2>5 DEF PWire
<1> QED BY <1>1, <1>2, <1>3 DEF PNext

\* Pipelines are what module Tracer lets libpcap deliver.
THEOREM PipelineIsTracer == PSpec => Spec
<1>1. PInit => Init /\ PTypeOK
  BY MaxTimeAssumption DEF PInit, PTypeOK
<1>2. PTypeOK /\ [PNext]_pvars => PTypeOK' /\ [Next]_vars
  <2> SUFFICES ASSUME PTypeOK, [PNext]_pvars PROVE [Next]_vars
    BY PipelineType
  <2>1. CASE UNCHANGED pvars
    BY <2>1 DEF pvars
  <2>2. CASE PPcap
    BY <2>2 DEF PPcap, Next
  <2>3. ASSUME NEW c \in Conns, NEW t \in now..MaxTime, PWire(c, t)
        PROVE  [Next]_vars
    <3>1. t \in Times
      BY MaxTimeAssumption DEF PTypeOK
    <3> QED BY <2>3, <3>1, SendIs, ReplyIs DEF PWire, Next
  <2> QED BY <2>1, <2>2, <2>3 DEF PNext
<1> QED BY <1>1, <1>2, PTL DEF PSpec, Spec


-----------------------------------------------------------------------------
\* What is under way has a time.
LEMMA AskedTimes ==
  ASSUME NEW p \in Seq(Asked), NEW i \in 1..Len(p)
  PROVE  p[i].ts \in Nat /\ p[i].ts <= MaxTime
<1>1. \A a \in Asked : a.ts \in Nat /\ a.ts <= MaxTime
  BY MaxTimeAssumption DEF Asked
<1>2. p[i] \in Asked
  OBVIOUS
<1> QED BY <1>1, <1>2

\* What is under way of a segment of requests.
Stamped(batch, t) == [i \in DOMAIN batch |-> [cmd |-> batch[i].cmd, ts |-> t]]

\* p with a segment of requests more is q, if n of p are newer than a reply.
MoreIs(p, n, batch, t, q) ==
  /\ Len(q) = Len(p) + Len(batch)
  /\ q[Len(q)].ts = t
  /\ n = 0 => q[(Len(p) - n) + 1].cmd = batch[1].cmd
  /\ n # 0 => q[(Len(p) - n) + 1] = p[(Len(p) - n) + 1]
  /\ \A u \in Nat : InOrder(p, u) /\ u <= t => InOrder(q, t)

\* A request or two more, sent at t: the last has that time, and the first since
\* the last reply is still the first.
LEMMA MoreAsked ==
  ASSUME NEW p \in Seq(Asked), NEW n \in Nat, n <= Len(p), NEW batch \in Batches,
         NEW t \in 0..MaxTime, NEW q,
         q = p \o Stamped(batch, t)
  PROVE  MoreIs(p, n, batch, t, q)
<1> DEFINE more == Stamped(batch, t)
<1>0. MaxTime \in Nat
  BY MaxTimeAssumption
<1>1. /\ Len(batch) \in Nat /\ 1 <= Len(batch) /\ DOMAIN batch = 1..Len(batch)
      /\ \A i \in 1..Len(batch) : batch[i].cmd \in PCmds
  BY BatchIs DEF PCmds
<1>2. more \in Seq(Asked) /\ Len(more) = Len(batch)
  <2>1. more \in [1..Len(batch) -> Asked]
    BY <1>1 DEF Asked, Stamped
  <2> HIDE DEF more
  <2> QED BY <1>1, <2>1, FunctionIsSequence
<1>3. \A i \in 1..Len(batch) : more[i].ts = t /\ more[i].cmd = batch[i].cmd
  BY <1>1 DEF Stamped
<1>4. q = p \o more
  OBVIOUS
<1> HIDE DEF more
<1>5. /\ Len(q) = Len(p) + Len(batch) /\ Len(p) \in Nat
      /\ \A i \in 1..(Len(p) + Len(batch)) :
            q[i] = IF i <= Len(p) THEN p[i] ELSE more[i - Len(p)]
  <2>1. /\ Len(p \o more) = Len(p) + Len(more)
        /\ \A i \in 1..(Len(p) + Len(more)) :
              (p \o more)[i] = IF i <= Len(p) THEN p[i] ELSE more[i - Len(p)]
    BY <1>2, ConcatProperties
  <2> QED BY <1>2, <1>4, <2>1, LenProperties
<1>6. q[Len(q)].ts = t
  BY <1>1, <1>3, <1>5
<1>7. /\ n = 0 => q[(Len(p) - n) + 1].cmd = batch[1].cmd
      /\ n # 0 => q[(Len(p) - n) + 1] = p[(Len(p) - n) + 1]
  <2>1. CASE n = 0
    <3>1. Len(p) + 1 \in 1..(Len(p) + Len(batch)) /\ ~(Len(p) + 1 <= Len(p)) /\ (Len(p) + 1) - Len(p) = 1
      BY <1>1, <1>5
    <3>2. q[Len(p) + 1] = more[1] /\ 1 \in 1..Len(batch)
      BY <1>1, <1>5, <3>1
    <3>3. (Len(p) - n) + 1 = Len(p) + 1
      BY <1>5, <2>1
    <3> QED BY <1>3, <2>1, <3>2, <3>3
  <2>2. CASE n # 0
    <3>1. (Len(p) - n) + 1 \in 1..(Len(p) + Len(batch)) /\ (Len(p) - n) + 1 <= Len(p)
      BY <1>1, <1>5, <2>2
    <3> QED BY <1>5, <2>2, <3>1
  <2> QED BY <2>1, <2>2
<1>8. ASSUME NEW u \in Nat, InOrder(p, u), u <= t
      PROVE  InOrder(q, t)
  <2>1. \A i \in 1..Len(p) : p[i].ts \in Nat
    BY AskedTimes, Zenon
  <2>2. \A i \in 1..Len(p) : p[i].ts <= t
    BY <1>0, <1>8, <2>1 DEF InOrder
  <2>3. \A i \in 1..Len(q) : q[i].ts = IF i <= Len(p) THEN p[i].ts ELSE t
    <3> SUFFICES ASSUME NEW i \in 1..Len(q)
                 PROVE  q[i].ts = IF i <= Len(p) THEN p[i].ts ELSE t
      OBVIOUS
    <3>1. q[i] = IF i <= Len(p) THEN p[i] ELSE more[i - Len(p)]
      BY <1>5
    <3>2. ~(i <= Len(p)) => i - Len(p) \in 1..Len(batch)
      BY <1>1, <1>5
    <3> QED BY <1>3, <3>1, <3>2
  <2>4. \A i \in 1..Len(p) : \A j \in i..Len(p) : p[i].ts <= p[j].ts
    BY <1>8 DEF InOrder
  <2> SUFFICES ASSUME NEW i \in 1..Len(q)
               PROVE  q[i].ts <= t /\ \A j \in i..Len(q) : q[i].ts <= q[j].ts
    BY DEF InOrder
  <2>5. q[i].ts <= t
    BY <1>0, <1>5, <2>2, <2>3
  <2>6. ASSUME NEW j \in i..Len(q) PROVE q[i].ts <= q[j].ts
    BY <1>0, <1>1, <1>5, <2>2, <2>3, <2>4, <2>5
  <2> QED BY <2>5, <2>6
<1> QED BY <1>5, <1>6, <1>7, <1>8 DEF MoreIs

\* The requests that the replies leave are in order.
LEMMA LessAsked ==
  ASSUME NEW p \in Seq(Asked), NEW n \in Nat, NEW u \in Nat, NEW t \in Nat,
         InOrder(p, u), u <= t
  PROVE  InOrder(SubSeq(p, n + 1, Len(p)), t)
<1> DEFINE q == SubSeq(p, n + 1, Len(p))
<1>0. MaxTime \in Nat /\ Len(p) \in Nat
  BY MaxTimeAssumption, LenProperties
<1>1. /\ Len(q) = IF n + 1 <= Len(p) THEN Len(p) - n ELSE 0
      /\ \A i \in 1..Len(q) : q[i] = p[n + i]
  <2>1. /\ Len(q) = IF n + 1 <= Len(p) THEN Len(p) - (n + 1) + 1 ELSE 0
        /\ \A i \in 1..(Len(p) - (n + 1) + 1) : q[i] = p[(n + 1) + i - 1]
    BY <1>0, SubSeqProperties
  <2> HIDE DEF q
  <2>2. \A i \in 1..Len(q) : (n + 1) + i - 1 = n + i /\ i \in 1..(Len(p) - (n + 1) + 1)
    BY <1>0, <2>1
  <2> QED BY <1>0, <2>1, <2>2
<1> HIDE DEF q
<1>2. \A i \in 1..Len(p) : p[i].ts \in Nat
  BY AskedTimes, Zenon
<1>3. \A i \in 1..Len(q) : n + i \in 1..Len(p)
  BY <1>0, <1>1
<1>4. \A i \in 1..Len(q) : q[i].ts <= t
  BY <1>1, <1>2, <1>3 DEF InOrder
<1>5. \A i \in 1..Len(q) : \A j \in i..Len(q) : q[i].ts <= q[j].ts
  <2>1. \A i \in 1..Len(q) : \A j \in i..Len(q) : n + j \in (n + i)..Len(p) /\ j \in 1..Len(q)
    BY <1>0, <1>1
  <2> QED BY <1>1, <1>3, <2>1 DEF InOrder
<1> QED BY <1>4, <1>5 DEF q, InOrder


-----------------------------------------------------------------------------
\* An entry whose clock is restarted.
LEMMA Restarted ==
  ASSUME NEW item \in Item, NEW t
  PROVE  [item EXCEPT !.ts = t] = [cmd |-> item.cmd, ts |-> t]
BY DEF Item

\* The burst of c, its entry named.
LEMMA BurstParts ==
  ASSUME NEW c \in Conns
  PROVE  Burst(c) <=>
           /\ since[c] = 0 => ~Open(c)
           /\ since[c] # 0 => /\ Open(c)
                              /\ table[Rev(c)] = [cmd |-> OldestSince(c).cmd,
                                                  ts |-> Last(pending[c]).ts]
BY DEF Burst

\* A segment of requests: the first makes the entry if there is none, and
\* all restart its clock if there is one.
LEMMA SendBurst ==
  ASSUME BurstInv, ~MallocMayFail, NEW c \in Conns, NEW batch \in Batches,
         NEW t \in now..MaxTime, Send(c, batch, t), now' = t
  PROVE  /\ Untouched(c) /\ line' = NoLine
         /\ Burst(c)' /\ InOrder(pending[c], now)' /\ CapBurst'
<1>0. /\ TypeOK /\ KeysOfReplies /\ PTypeOK /\ Burst(c) /\ InOrder(pending[c], now)
      /\ t \in 0..MaxTime /\ t \in Nat /\ now \in Nat /\ now <= t
      /\ pending[c] \in Seq(Asked) /\ since[c] \in Nat /\ since[c] <= Len(pending[c])
      /\ Len(pending[c]) \in Nat /\ Len(batch) \in Nat /\ 1 <= Len(batch)
  <2>1. MaxTime \in Nat
    BY MaxTimeAssumption
  <2>2. Len(batch) \in Nat /\ 1 <= Len(batch)
    BY BatchIs
  <2> QED BY <2>1, <2>2 DEF BurstInv, PTypeOK
<1> DEFINE d == DataOf(batch)
           f == Segment(c, d)
<1>1. PICK s \in Stale : Deliver(f, t, s) /\ f \in Frames
  BY SendIs
<1> DEFINE buf == d \o s
           parsed == redis_cmd_parse(buf, Len(d))
           q == pending[c] \o Stamped(batch, t)
<1>2. d # << >> /\ parsed.ret = 0 /\ CmdString(parsed.cmd) = batch[1].cmd
  BY BatchesAssumption, Zenon
<1>3. f.key = c /\ f.data = d /\ Accepted(f)
  BY <1>1, <1>2, FrameAccepted
<1>4. pkt_recv(f, t, buf)
  BY <1>1, <1>3 DEF Deliver
<1>5. q = pending[c] \o Stamped(batch, t)
  OBVIOUS
<1>6. /\ pending' = [pending EXCEPT ![c] = q]
      /\ since' = [since EXCEPT ![c] = since[c] + Len(batch)]
  BY DEF Send, Stamped
<1> HIDE DEF q
<1>7. /\ Len(q) = Len(pending[c]) + Len(batch)
      /\ q[Len(q)].ts = t
      /\ since[c] = 0 => q[(Len(pending[c]) - since[c]) + 1].cmd = batch[1].cmd
      /\ since[c] # 0 => q[(Len(pending[c]) - since[c]) + 1] =
                          pending[c][(Len(pending[c]) - since[c]) + 1]
      /\ InOrder(q, t)
  <2>1. MoreIs(pending[c], since[c], batch, t, q)
    BY <1>0, <1>5, MoreAsked, Zenon
  <2> QED BY <1>0, <2>1 DEF MoreIs
<1> HIDE DEF d, f, buf
<1>8. pending'[c] = q /\ since'[c] = since[c] + Len(batch)
  BY <1>0, <1>6 DEF PTypeOK
<1>9. ClientPassed(c, f, t, buf)
  BY <1>0, <1>3, <1>4, ClientPass, RepliesOnly
<1>10. Untouched(c) /\ line' = NoLine /\ cap'.frame = f /\ cap'.ts = t
  BY <1>9 DEF ClientPassed
<1>11. Open(c)' /\ table'[Rev(c)] = [cmd |-> q[(Len(pending[c]) - since[c]) + 1].cmd, ts |-> t]
  <2>1. CASE since[c] = 0
    <3>1. ~Open(c)
      BY <1>0, <2>1, BurstParts
    <3>2. redis_cmd_parse(buf, Len(f.data)) = parsed
      BY <1>3, Zenon
    <3>3. Open(c)' /\ table'[Rev(c)] = [ts |-> t, cmd |-> CmdString(parsed.cmd)]
      BY ONLY ~MallocMayFail, <3>1, <3>2, <1>2, <1>9 DEF ClientPassed
    <3>4. table'[Rev(c)] = [ts |-> t, cmd |-> batch[1].cmd]
      BY <1>2, <3>3, Zenon
    <3> HIDE DEF parsed
    <3> QED BY <1>7, <2>1, <3>3, <3>4
  <2>2. CASE since[c] # 0
    <3>1. Open(c) /\ table[Rev(c)] = [cmd |-> OldestSince(c).cmd, ts |-> Last(pending[c]).ts]
      BY <1>0, <2>2, BurstParts
    <3>2. table[Rev(c)].cmd = OldestSince(c).cmd
      BY <3>1
    <3>3. OldestSince(c).cmd = q[(Len(pending[c]) - since[c]) + 1].cmd
      BY <1>7, <2>2 DEF OldestSince
    <3>4. Open(c)' /\ table'[Rev(c)] = [table[Rev(c)] EXCEPT !.ts = t]
      BY <1>9, <3>1 DEF ClientPassed
    <3>5. table[Rev(c)] \in Item
      BY <1>0, <3>1 DEF TypeOK, Open
    <3>6. table'[Rev(c)] = [cmd |-> table[Rev(c)].cmd, ts |-> t]
      BY <3>4, <3>5, Restarted
    <3> QED BY <3>2, <3>3, <3>4, <3>6
  <2> QED BY <2>1, <2>2
<1>12. Burst(c)'
  <2>1. since'[c] # 0
    <3>1. since[c] \in Nat /\ Len(batch) \in Nat /\ 1 <= Len(batch)
      BY <1>0, Zenon
    <3>2. since[c] + Len(batch) # 0
      BY ONLY <3>1
    <3> QED BY ONLY <1>8, <3>2
  <2>2. Len(pending'[c]) - since'[c] + 1 = (Len(pending[c]) - since[c]) + 1
    <3>1. Len(pending'[c]) = Len(pending[c]) + Len(batch)
      BY <1>7, <1>8, Zenon
    <3>2. \A i, j, k \in Nat : (i + k) - (j + k) + 1 = (i - j) + 1
      OBVIOUS
    <3>3. Len(pending[c]) \in Nat /\ since[c] \in Nat /\ Len(batch) \in Nat
      BY <1>0, Zenon
    <3>4. (Len(pending[c]) + Len(batch)) - (since[c] + Len(batch)) + 1 = (Len(pending[c]) - since[c]) + 1
      BY ONLY <3>2, <3>3
    <3> QED BY ONLY <1>8, <3>1, <3>4
  <2>3. OldestSince(c)' = q[(Len(pending[c]) - since[c]) + 1]
    BY <1>8, <2>2 DEF OldestSince
  <2>4. Last(pending[c])' = q[Len(q)]
    BY <1>8 DEF Last
  <2>5. table'[Rev(c)] = [cmd |-> OldestSince(c)'.cmd, ts |-> Last(pending[c])'.ts]
    BY <1>7, <1>11, <2>3, <2>4
  <2> QED BY <1>11, <2>1, <2>5 DEF Burst
<1>13. InOrder(pending[c], now)'
  BY <1>7, <1>8
<1>14. CapBurst'
  <2>1. cap'.frame.key = c /\ Open(c)' /\ table'[Rev(c)].ts = cap'.ts
    BY <1>3, <1>10, <1>11
  <2> QED BY <2>1 DEF CapBurst
<1> QED BY <1>10, <1>12, <1>13, <1>14

\* A segment of replies: it takes the entry there is.
LEMMA ReplyBurst ==
  ASSUME PlainReplies, RepliesSayMore, BurstInv, NEW c \in Conns, NEW n \in 1..MaxPending,
         NEW d \in Replies, NEW t \in now..MaxTime, PReply(c, n, d, t), now' = t
  PROVE  /\ Untouched(c)
         /\ Open(c) => line' = Report(Rev(c), table[Rev(c)], t)
         /\ ~Open(c) => line' = NoLine
         /\ Burst(c)' /\ InOrder(pending[c], now)' /\ CapBurst'
<1>0. /\ KeysOfReplies /\ InOrder(pending[c], now)
      /\ t \in Nat /\ now \in Nat /\ now <= t /\ n \in Nat
      /\ pending[c] \in Seq(Asked) /\ c \in DOMAIN pending /\ c \in DOMAIN since
  BY MaxTimeAssumption DEF BurstInv, PTypeOK
<1> DEFINE f == Segment(Rev(c), d)
           rest == SubSeq(pending[c], n + 1, Len(pending[c]))
<1>1. PICK s \in Stale : Deliver(f, t, s) /\ f \in Frames
  BY ReplyIs
<1> DEFINE buf == d \o s
<1>2. d # << >> /\ d[1] # Star
  BY DEF PlainReplies, RepliesSayMore
<1>3. f.key = Rev(c) /\ f.data = d /\ Accepted(f)
  BY <1>1, <1>2, FrameAccepted
<1>4. pkt_recv(f, t, buf)
  BY <1>1, <1>3 DEF Deliver
<1>5. buf[1] # Star
  BY <1>0, <1>1, <1>2, FrameInput
<1>6. pending' = [pending EXCEPT ![c] = rest] /\ since' = [since EXCEPT ![c] = 0]
  BY DEF PReply
<1>7. InOrder(rest, t)
  BY <1>0, LessAsked
<1> HIDE DEF f, buf, rest
<1>8. /\ Untouched(c) /\ ~Open(c)'
      /\ cap' = [frame |-> f, ts |-> t, buf |-> buf]
      /\ Open(c) => line' = Report(Rev(c), table[Rev(c)], t)
      /\ ~Open(c) => line' = NoLine
  BY <1>0, <1>3, <1>4, <1>5, ServerPass, RepliesOnly
<1>9. since'[c] = 0 /\ pending'[c] = rest
  BY <1>0, <1>6
<1>10. Burst(c)'
  BY <1>8, <1>9 DEF Burst
<1>11. InOrder(pending[c], now)'
  BY <1>7, <1>9
<1>12. CapBurst'
  BY <1>3, <1>5, <1>8 DEF CapBurst
<1> QED BY <1>8, <1>10, <1>11, <1>12

\* The bursts of other connections.
LEMMA OthersBurst ==
  ASSUME PTypeOK, NEW c \in Conns, NEW e \in Conns, e # c, Burst(e), Untouched(c),
         pending'[e] = pending[e], since'[e] = since[e]
  PROVE  Burst(e)'
<1>1. Rev(e) # Rev(c)
  BY ConnsApart
<1>2. /\ Open(e)' <=> Open(e)
      /\ Open(e) => table'[Rev(e)] = table[Rev(e)]
  BY <1>1 DEF Untouched, Open
<1> QED BY <1>2 DEF Burst, OldestSince

\* A timeout changes nothing that was handled before.
LEMMA TimeoutBurst ==
  ASSUME BurstInv, Timeout, UNCHANGED <<now, pending, since>>
  PROVE  line' = NoLine /\ KeysOfReplies' /\ CapBurst' /\ \A c \in Conns : Burst(c)'
<1>0. TypeOK /\ KeysOfReplies /\ PTypeOK /\ CapBurst /\ \A c \in Conns : Burst(c)
  BY DEF BurstInv
<1>1. pkt_recv(cap.frame, cap.ts, cap.buf)
  BY DEF Timeout
<1>2. CASE ~Accepted(cap.frame)
  <2>1. table' = table /\ line' = NoLine /\ cap'.frame = cap.frame
    BY <1>1, <1>2, EmptyPass
  <2> QED BY <1>0, <1>2, <2>1 DEF KeysOfReplies, CapBurst, Burst, OldestSince, Open
<1>3. ASSUME NEW c \in Conns, Untouched(c), Burst(c)'
      PROVE  KeysOfReplies' /\ \A e \in Conns : Burst(e)'
  BY <1>0, <1>3, OthersBurst, UntouchedRoles
<1>4. ASSUME NEW c \in Conns, Accepted(cap.frame), cap.frame.key = c, Open(c),
             table[Rev(c)].ts = cap.ts
      PROVE  line' = NoLine /\ CapBurst' /\ Untouched(c) /\ Burst(c)'
  <2>1. ClientPassed(c, cap.frame, cap.ts, cap.buf)
    BY <1>0, <1>1, <1>4, ClientPass, RepliesOnly
  <2>2. /\ Untouched(c) /\ line' = NoLine /\ cap'.frame = cap.frame /\ cap'.ts = cap.ts
        /\ Open(c)' /\ table'[Rev(c)] = [table[Rev(c)] EXCEPT !.ts = cap.ts]
    BY <1>4, <2>1 DEF ClientPassed
  <2>3. table[Rev(c)] \in Item
    BY <1>0, <1>4 DEF TypeOK, Open
  <2>4. table'[Rev(c)] = table[Rev(c)]
    BY <1>4, <2>2, <2>3 DEF Item
  <2>5. Burst(c)'
    BY <1>0, <1>4, <2>2, <2>4 DEF Burst, OldestSince
  <2>6. CapBurst'
    BY <1>4, <2>2, <2>4 DEF CapBurst
  <2> QED BY <2>2, <2>5, <2>6
<1>5. ASSUME NEW c \in Conns, Accepted(cap.frame), cap.frame.key = Rev(c), ~Open(c),
             cap.buf[1] # Star
      PROVE  line' = NoLine /\ CapBurst' /\ Untouched(c) /\ Burst(c)'
  <2>1. /\ Untouched(c) /\ ~Open(c)' /\ line' = NoLine
        /\ cap' = [frame |-> cap.frame, ts |-> cap.ts, buf |-> cap.buf]
    BY <1>0, <1>1, <1>5, ServerPass, RepliesOnly
  <2>2. Burst(c)'
    BY <1>0, <1>5, <2>1 DEF Burst
  <2>3. CapBurst'
    BY <1>5, <2>1 DEF CapBurst
  <2> QED BY <2>1, <2>2, <2>3
<1> QED BY <1>0, <1>2, <1>3, <1>4, <1>5 DEF CapBurst


-----------------------------------------------------------------------------
\* Every step keeps the invariant.
LEMMA BurstStep ==
  ASSUME PlainReplies, RepliesSayMore, ~MallocMayFail, BurstInv, TypeOK', [PNext]_pvars
  PROVE  BurstInv'
<1>0. /\ TypeOK /\ KeysOfReplies /\ PTypeOK /\ CapBurst
      /\ \A c \in Conns : Burst(c) /\ InOrder(pending[c], now)
  BY DEF BurstInv
<1>1. PTypeOK'
  BY <1>0, PipelineType
<1>2. CASE UNCHANGED <<cap, table, now, pending, since>>
  BY <1>0, <1>1, <1>2 DEF BurstInv, KeysOfReplies, CapBurst, Burst, OldestSince, Open
<1>3. CASE Timeout /\ UNCHANGED <<now, pending, since>>
  BY <1>0, <1>1, <1>3, TimeoutBurst DEF BurstInv
<1>4. ASSUME NEW c \in Conns, NEW t \in now..MaxTime, now' = t,
             Untouched(c), Burst(c)', InOrder(pending[c], now)', CapBurst',
             \A e \in Conns \ {c} : pending'[e] = pending[e] /\ since'[e] = since[e]
      PROVE  BurstInv'
  <2>1. KeysOfReplies'
    BY <1>0, <1>4, UntouchedRoles
  <2>2. \A e \in Conns \ {c} : Burst(e)'
    BY <1>0, <1>4, OthersBurst
  <2>3. now \in Nat /\ t \in Nat /\ now <= t
    BY <1>0, MaxTimeAssumption DEF PTypeOK
  <2>4. \A e \in Conns \ {c} : InOrder(pending[e], now)'
    <3>1. \A e \in Conns : \A i \in 1..Len(pending[e]) : pending[e][i].ts \in Nat
      BY <1>0, AskedTimes DEF PTypeOK
    <3>2. \A e \in Conns : InOrder(pending[e], t)
      BY <1>0, <2>3, <3>1 DEF InOrder
    <3> QED BY <1>4, <3>2
  <2> QED BY <1>1, <1>4, <2>1, <2>2, <2>4 DEF BurstInv
<1>5. ASSUME NEW c \in Conns, NEW t \in now..MaxTime, PWire(c, t)
      PROVE  BurstInv'
  <2>1. now' = t
    BY <1>5 DEF PWire
  <2>2. ASSUME NEW batch \in Batches, Send(c, batch, t) PROVE BurstInv'
    <3>1. \A e \in Conns \ {c} : pending'[e] = pending[e] /\ since'[e] = since[e]
      BY <1>0, <2>2 DEF Send, PTypeOK
    <3>2. Untouched(c) /\ Burst(c)' /\ InOrder(pending[c], now)' /\ CapBurst'
      BY <2>1, <2>2, SendBurst
    <3> QED BY <1>4, <2>1, <3>1, <3>2
  <2>3. ASSUME NEW n \in 1..MaxPending, NEW d \in Replies, PReply(c, n, d, t) PROVE BurstInv'
    <3>1. \A e \in Conns \ {c} : pending'[e] = pending[e] /\ since'[e] = since[e]
      BY <1>0, <2>3 DEF PReply, PTypeOK
    <3>2. Untouched(c) /\ Burst(c)' /\ InOrder(pending[c], now)' /\ CapBurst'
      BY <2>1, <2>3, ReplyBurst
    <3> QED BY <1>4, <2>1, <3>1, <3>2
  <2> QED BY <1>5, <2>2, <2>3 DEF PWire
<1> QED BY <1>2, <1>3, <1>5 DEF PNext, PPcap, Fail, pvars, vars

\* The invariant behind the two theorems below.
LEMMA BurstAlways ==
  ASSUME PlainReplies, RepliesSayMore, ~MallocMayFail
  PROVE  PSpec => []BurstInv
<1>1. PInit /\ TypeOK => BurstInv
  <2> SUFFICES ASSUME PInit, TypeOK PROVE BurstInv
    OBVIOUS
  <2>1. DOMAIN table = {} /\ ~Accepted(cap.frame)
    BY DEF PInit, Init, Accepted, NoFrame, MinCaplen
  <2>2. PTypeOK
    BY MaxTimeAssumption DEF PInit, PTypeOK
  <2>3. \A c \in Conns : since[c] = 0 /\ ~Open(c) /\ InOrder(pending[c], now)
    BY <2>1 DEF PInit, Open, InOrder
  <2> QED BY <2>1, <2>2, <2>3 DEF BurstInv, KeysOfReplies, CapBurst, Burst
<1>2. BurstInv /\ TypeOK' /\ [PNext]_pvars => BurstInv'
  BY BurstStep
<1>3. PSpec => []TypeOK
  BY PipelineIsTracer, TypeCorrect, PTL
<1> QED BY <1>1, <1>2, <1>3, PTL DEF PSpec

\* A connection has an entry while requests have been sent since the last
\* reply, named for the first of these, with the time of the last: what one
\* entry a connection, deleted by any reply, comes to when the client does
\* not wait.
THEOREM OneEntryABurstCorrect ==
  ASSUME PlainReplies, RepliesSayMore, ~MallocMayFail
  PROVE  PSpec => []OneEntryABurst
<1>1. BurstInv => OneEntryABurst
  BY DEF BurstInv, OneEntryABurst, Burst
<1> QED BY <1>1, BurstAlways, PTL

-----------------------------------------------------------------------------
\* The time a line says, when the count of microseconds has not wrapped.
LEMMA ElapsedUnwrapped ==
  ASSUME NEW q \in Nat, NEW a \in Nat, q <= a, a < UIntMod
  PROVE  Elapsed(q, a) = a - q
<1>1. UIntMod \in Nat \ {0}
  BY UIntModAssumption
<1>2. q \div UIntMod = 0 /\ a \div UIntMod = 0
  BY <1>1
<1> QED BY <1>2, ElapsedDifference

\* What the reply that takes the entry of c gives rise to.
LEMMA ReplyLine ==
  ASSUME BurstInv, NEW c \in Conns, NEW t \in now..MaxTime, now' = t, Open(c),
         line' = Report(Rev(c), table[Rev(c)], t)
  PROVE  LineRight(c)
<1> DEFINE p == pending[c]
           oldest == (Len(p) - since[c]) + 1
<1>0. /\ p \in Seq(Asked) /\ Len(p) \in Nat /\ since[c] \in Nat /\ since[c] <= Len(p)
      /\ InOrder(p, now) /\ now \in Nat /\ t \in Nat /\ now <= t
  BY MaxTimeAssumption DEF BurstInv, PTypeOK
<1>1. since[c] # 0 /\ table[Rev(c)] = [cmd |-> OldestSince(c).cmd, ts |-> Last(p).ts]
  BY DEF BurstInv, Burst
<1>2. OldestSince(c) = p[oldest] /\ Last(p) = p[Len(p)] /\ Head(p) = p[1]
  BY <1>0 DEF OldestSince, Last
<1> HIDE DEF p
<1>3. 1 \in 1..Len(p) /\ Len(p) \in 1..Len(p) /\ oldest \in 1..Len(p)
  BY <1>0, <1>1
<1>4. /\ p[1].ts \in Nat /\ p[Len(p)].ts \in Nat
      /\ p[1].ts <= p[Len(p)].ts /\ p[Len(p)].ts <= now
  <2>1. p[1].ts \in Nat /\ p[Len(p)].ts \in Nat
    BY <1>0, <1>3, AskedTimes
  <2>2. p[1].ts <= p[Len(p)].ts
    BY <1>0, <1>3 DEF InOrder
  <2>3. p[Len(p)].ts <= now
    BY <1>0, <1>3 DEF InOrder
  <2> QED BY <2>1, <2>2, <2>3
<1>5. /\ line'.cmd = p[oldest].cmd
      /\ line'.es = Elapsed(p[Len(p)].ts, t)
  BY <1>1, <1>2 DEF Report
<1>6. now' < UIntMod => line'.es = t - p[Len(p)].ts
  <2>1. p[Len(p)].ts \in Nat /\ p[Len(p)].ts <= t
    BY <1>0, <1>4
  <2>2. t < UIntMod => Elapsed(p[Len(p)].ts, t) = t - p[Len(p)].ts
    BY <1>0, <2>1, ElapsedUnwrapped, Zenon
  <2> QED BY <1>5, <2>2
<1>7. now' < UIntMod => line'.es <= now' - p[1].ts
  BY <1>0, <1>4, <1>6
<1>8. since[c] = Len(p) => oldest = 1
  BY <1>0
<1>9. DOMAIN p = 1..Len(p)
  BY <1>0
<1> HIDE DEF oldest
<1>10. \E i \in DOMAIN p : p[i].cmd = line'.cmd
  BY <1>3, <1>5, <1>9
<1>11. since[c] = Len(p) => line'.cmd = Head(p).cmd
  BY <1>2, <1>5, <1>8
<1>12. Len(p) = 1 /\ now' < UIntMod => line'.es = now' - Head(p).ts
  BY <1>2, <1>6
<1> QED BY <1>2, <1>7, <1>10, <1>11, <1>12 DEF p, LineRight

\* Every line is right.
LEMMA LineStep ==
  ASSUME PlainReplies, RepliesSayMore, ~MallocMayFail, BurstInv, PNext
  PROVE  \A c \in Conns : LineRight(c)
<1>1. CASE line' = NoLine
  BY <1>1 DEF LineRight
<1>2. CASE PPcap
  <2>1. line' = NoLine
    BY <1>2, TimeoutBurst DEF PPcap, Fail
  <2> QED BY <1>1, <2>1
<1>3. ASSUME NEW e \in Conns, NEW t \in now..MaxTime, PWire(e, t), line' # NoLine
      PROVE  \A c \in Conns : LineRight(c)
  <2>1. now' = t
    BY <1>3 DEF PWire
  <2>2. PICK n \in 1..MaxPending, d \in Replies : PReply(e, n, d, t)
    BY <1>3, <2>1, SendBurst DEF PWire
  <2>3. Open(e) /\ line' = Report(Rev(e), table[Rev(e)], t)
    BY <1>3, <2>1, <2>2, ReplyBurst
  <2>4. LineRight(e)
    BY <2>1, <2>3, ReplyLine
  <2>5. line'.key = Rev(e)
    BY <2>3 DEF Report
  <2>6. \A c \in Conns \ {e} : line'.key # Rev(c)
    BY <2>5, ConnsApart
  <2> QED BY <2>4, <2>6 DEF LineRight
<1> QED BY <1>1, <1>2, <1>3 DEF PNext

\* What the tracer prints of a client that pipelines: never more time than it
\* has waited, the name of a request under way, that of the oldest if all
\* were sent since the last reply, and all of it right if it waits for one.
THEOREM LineOfPipelineCorrect ==
  ASSUME PlainReplies, RepliesSayMore, ~MallocMayFail
  PROVE  PSpec => LineOfPipeline
<1>1. BurstInv /\ [PNext]_pvars => [\A c \in Conns : LineRight(c)]_pvars
  BY LineStep
<1>2. PSpec => [][\A c \in Conns : LineRight(c)]_pvars
  BY <1>1, BurstAlways, PTL DEF PSpec
<1> QED BY <1>2 DEF LineOfPipeline, LineRight
=============================================================================
