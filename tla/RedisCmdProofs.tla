--------------------------- MODULE RedisCmdProofs ---------------------------
(***************************************************************************)
(* What redis_cmd_parse returns and touches, and that it recognises its    *)
(* grammar, for every payload and whatever lies behind it.                 *)
(***************************************************************************)
EXTENDS RedisGrammar, FiniteSetTheorems, SequenceTheorems, WellFoundedInduction, TLAPS

\* A function on 1..n is a sequence of length n.
LEMMA FunctionIsSequence ==
  ASSUME NEW n \in Nat, NEW S, NEW s \in [1..n -> S]
  PROVE  s \in Seq(S) /\ Len(s) = n
OBVIOUS

\* A set of natural numbers that is not empty has a least element, and Min
\* is it.
LEMMA MinOfNats ==
  ASSUME NEW T \in SUBSET Nat, T # {}
  PROVE  Min(T) \in T /\ \A y \in T : Min(T) <= y
<1>1. \E x \in T : \A y \in T : ~(<<y, x>> \in OpToRel(<, Nat))
  BY WFMin, NatLessThanWellFounded, Zenon
<1>2. \E x \in T : \A y \in T : ~(y < x)
  BY <1>1 DEF OpToRel
<1>3. \E x \in T : \A y \in T : x <= y
  BY <1>2
<1> QED BY <1>3 DEF Min

\* The scanning loop stops inside the bytes it is given.
LEMMA FirstCRLFBounds ==
  ASSUME NEW buf, NEW p, NEW n \in Int
  PROVE  /\ FirstCRLF(buf, p, n) \in Nat
         /\ n >= 0 => FirstCRLF(buf, p, n) <= n
         /\ n <= 0 => FirstCRLF(buf, p, n) = 0
<1> DEFINE hits == {i \in 0..(n - 1) : buf[p + i] = CR /\ buf[p + i + 1] = LF}
<1>1. hits \in SUBSET Nat
  OBVIOUS
<1>2. hits # {} => Min(hits) \in hits
  BY <1>1, MinOfNats
<1> QED BY <1>2 DEF FirstCRLF

\* Reading a number overwrites one byte of the buffer; a number that is
\* accepted ends inside its n bytes, so that what is left is no less than none.
LEMMA NumberLineType ==
  ASSUME NEW buf \in Seq(Byte), NEW p \in Nat \ {0}, NEW n \in Int
  PROVE  LET read == NumberLine(buf, p, n)
         IN  /\ read.buf \in Seq(Byte) /\ Len(read.buf) = Len(buf)
             /\ read.next \in Nat \ {0} /\ read.left \in Int
             /\ read.next + read.left = p + n
             /\ read.ok => read.left >= 0
<1> DEFINE i == FirstCRLF(buf, p, n)
           read == NumberLine(buf, p, n)
<1>1. i \in Nat
  BY FirstCRLFBounds
<1>2. /\ read.buf = [buf EXCEPT ![p + i] = NUL]
      /\ read.next = p + i + 2 /\ read.left = n - i - 2
      /\ read.ok => n >= i + 2
  BY Zenon DEF NumberLine
<1>3. read.buf \in [1..Len(buf) -> Byte]
  <2>1. buf \in [1..Len(buf) -> Byte]
    BY LenProperties
  <2>2. NUL \in Byte
    BY DEF NUL, Byte
  <2> QED BY <1>2, <2>1, <2>2
<1>4. read.buf \in Seq(Byte) /\ Len(read.buf) = Len(buf)
  BY <1>3, LenProperties
<1> HIDE DEF i, read
<1>5. /\ read.next \in Nat \ {0} /\ read.left \in Int
      /\ read.next + read.left = p + n
      /\ read.ok => read.left >= 0
  BY <1>1, <1>2
<1> QED BY <1>4, <1>5 DEF read

\* Whatever the payload and whatever lies behind it: the parser answers 0 or
\* -1, what it leaves is as long as what it was given, and the name it copies
\* comes from inside the payload.
THEOREM ParseType ==
  ASSUME NEW buf \in Seq(Byte), NEW len \in Nat \ {0}, Len(buf) = len + Behind
  PROVE  LET parsed == redis_cmd_parse(buf, len)
         IN  /\ parsed.ret \in {0, -1}
             /\ parsed.cmd \in Seq(Byte) /\ Len(parsed.cmd) <= len
             /\ parsed.buf \in Seq(Byte) /\ Len(parsed.buf) = len + Behind
<1> DEFINE argc == NumberLine(buf, 2, len - 1)
           bulk == NumberLine(argc.buf, argc.next + 1, argc.left - 1)
           n == FirstCRLF(bulk.buf, bulk.next, bulk.left)
           whole == n < bulk.left
           name == SubSeq(bulk.buf, bulk.next, bulk.next + n - 1)
           parsed == redis_cmd_parse(buf, len)
<1>1. /\ argc.buf \in Seq(Byte) /\ Len(argc.buf) = len + Behind
      /\ argc.next \in Nat \ {0} /\ argc.left \in Int
      /\ argc.next + argc.left = len + 1
  BY NumberLineType
<1>2. /\ bulk.buf \in Seq(Byte) /\ Len(bulk.buf) = len + Behind
      /\ bulk.next \in Nat \ {0} /\ bulk.left \in Int
      /\ bulk.next + bulk.left = len + 1
  <2> DEFINE p == argc.next + 1
             m == argc.left - 1
             b == argc.buf
             read == NumberLine(b, p, m)
  <2> HIDE DEF argc
  <2>1. b \in Seq(Byte) /\ p \in Nat \ {0} /\ m \in Int /\ p + m = len + 1
    BY <1>1
  <2> HIDE DEF b, p, m
  <2>2. /\ read.buf \in Seq(Byte) /\ Len(read.buf) = Len(b)
        /\ read.next \in Nat \ {0} /\ read.left \in Int
        /\ read.next + read.left = p + m
    BY <2>1, NumberLineType
  <2>3. bulk = read
    BY DEF b, p, m
  <2>4. Len(b) = len + Behind
    BY <1>1 DEF b
  <2> HIDE DEF bulk, read
  <2> QED BY <2>1, <2>2, <2>3, <2>4
<1>3. n \in Nat
  BY <1>2, FirstCRLFBounds
<1>4. whole => name \in Seq(Byte) /\ Len(name) <= len
  <2> HIDE DEF argc, bulk, n
  <2> SUFFICES ASSUME whole PROVE name \in Seq(Byte) /\ Len(name) <= len
    OBVIOUS
  <2>1. bulk.next + n - 1 \in Int /\ bulk.next + n - 1 <= len
    BY <1>2, <1>3
  <2>2. \A i \in bulk.next..(bulk.next + n - 1) : bulk.buf[i] \in Byte
    BY <1>2, <2>1, ElementOfSeq DEF Behind
  <2> DEFINE last == bulk.next + n - 1
  <2>3. /\ SubSeq(bulk.buf, bulk.next, last) \in Seq(Byte)
        /\ Len(SubSeq(bulk.buf, bulk.next, last)) =
             IF bulk.next <= last THEN last - bulk.next + 1 ELSE 0
    <3> HIDE DEF last
    <3>1. last \in Int /\ \A i \in bulk.next..last : bulk.buf[i] \in Byte
      BY <2>1, <2>2 DEF last
    <3> QED BY <1>2, <3>1, SubSeqProperties
  <2> QED BY <1>2, <1>3, <2>1, <2>3
<1>5. /\ parsed.ret \in {0, -1}
      /\ parsed.cmd \in IF whole THEN {<< >>, name} ELSE {<< >>}
      /\ parsed.buf \in {buf, argc.buf, bulk.buf}
  <2> HIDE DEF argc, bulk, n
  <2>1. CASE buf[1] # Star
    BY <2>1, Zenon DEF redis_cmd_parse, Refused, parsed
  <2>2. CASE buf[1] = Star
    <3>1. parsed = BehindArgc(argc)
      BY <2>2, Zenon DEF redis_cmd_parse, parsed, argc
    <3>2. \/ parsed = Refused(argc.buf)
          \/ parsed = BehindBulk(bulk)
      BY <3>1, Zenon DEF BehindArgc, bulk
    <3>3. \/ parsed = Refused(argc.buf)
          \/ parsed = Refused(bulk.buf)
          \/ parsed = Name(bulk, n)
      BY <3>2, Zenon DEF BehindBulk, n
    <3> HIDE DEF parsed
    <3>4. CASE parsed = Name(bulk, n)
      <4>1. whole \/ n >= bulk.left
        BY <1>2, <1>3
      <4> QED BY <3>4, <4>1 DEF Name, Refused
    <3> QED BY <3>3, <3>4 DEF Refused
  <2> QED BY <2>1, <2>2
<1>6. << >> \in Seq(Byte) /\ Len(<< >>) <= len
  BY EmptySeq
<1> HIDE DEF argc, bulk, n, name, parsed
<1>7. parsed.cmd \in Seq(Byte) /\ Len(parsed.cmd) <= len
  BY <1>4, <1>5, <1>6
<1>8. parsed.buf \in Seq(Byte) /\ Len(parsed.buf) = len + Behind
  BY <1>1, <1>2, <1>5
<1> QED BY <1>5, <1>7, <1>8 DEF parsed

\* The name stored in an entry fits the field, has no NUL in it and is a
\* beginning of the name that was parsed.
THEOREM CmdStringFits ==
  ASSUME NEW cmd \in Seq(Byte)
  PROVE  LET s == CmdString(cmd)
         IN  /\ s \in Seq(Byte)
             /\ Len(s) <= CmdSize /\ Len(s) <= Len(cmd)
             /\ \A i \in 1..Len(s) : s[i] = cmd[i] /\ s[i] # NUL
<1> DEFINE ends == {i \in DOMAIN cmd : cmd[i] = NUL \/ i > CmdSize}
           s == CmdString(cmd)
<1>1. DOMAIN cmd = 1..Len(cmd) /\ Len(cmd) \in Nat
  BY LenProperties
<1>2. CASE ends = {}
  <2>1. s = cmd
    BY <1>2 DEF CmdString
  <2>2. \A i \in 1..Len(cmd) : cmd[i] # NUL /\ i <= CmdSize
    BY <1>1, <1>2 DEF CmdSize
  <2>3. Len(cmd) <= CmdSize
    BY <1>1, <2>2 DEF CmdSize
  <2> QED BY <1>1, <2>1, <2>2, <2>3
<1>3. CASE ends # {}
  <2> DEFINE m == Min(ends)
  <2>1. ends \in SUBSET Nat
    BY <1>1
  <2>2. m \in ends /\ \A y \in ends : m <= y
    BY <1>3, <2>1, MinOfNats, Zenon
  <2>3. s = SubSeq(cmd, 1, m - 1)
    BY <1>3, Zenon DEF CmdString
  <2> HIDE DEF s, m
  <2>4. m \in 1..Len(cmd)
    BY <1>1, <2>2
  <2>5. \A i \in 1..(m - 1) : cmd[i] \in Byte /\ cmd[i] # NUL /\ i <= CmdSize
    BY <1>1, <2>2, <2>4, ElementOfSeq DEF CmdSize
  <2>6. m - 1 <= CmdSize
    BY <2>4, <2>5 DEF CmdSize
  <2>7. /\ s \in Seq(Byte)
        /\ Len(s) = IF 1 <= m - 1 THEN m - 1 - 1 + 1 ELSE 0
        /\ \A i \in 1..(m - 1 - 1 + 1) : s[i] = cmd[1 + i - 1]
    BY <2>3, <2>4, <2>5, SubSeqProperties
  <2>8. /\ Len(s) = m - 1
        /\ \A i \in 1..(m - 1) : s[i] = cmd[i]
    BY <2>4, <2>7
  <2> QED BY <2>4, <2>5, <2>6, <2>7, <2>8 DEF s
<1> QED BY <1>2, <1>3

-----------------------------------------------------------------------------
\* The line ends are a finite set, all of them in front of what is behind.
LEMMA LineendsFinite ==
  ASSUME NEW buf, NEW len \in Nat
  PROVE  /\ Lineends(buf, len) \in SUBSET (1..len) /\ IsFiniteSet(Lineends(buf, len))
         /\ Lines(buf, len) \in Nat
<1>1. Lineends(buf, len) \in SUBSET (1..len)
  BY DEF Lineends
<1>2. IsFiniteSet(1..len)
  BY FS_Interval
<1> QED BY <1>1, <1>2, FS_Subset, FS_CardinalityType DEF Lines

\* The n-th line end is the only one with n up to it.
LEMMA EndIs ==
  ASSUME NEW buf, NEW len \in Nat, NEW n \in Nat \ {0}, NEW e \in Lineends(buf, len),
         Cardinality({j \in Lineends(buf, len) : j <= e}) = n
  PROVE  End(buf, len, n) = e /\ Lines(buf, len) >= n
<1> DEFINE E == Lineends(buf, len)
           Upto(i) == {j \in E : j <= i}
<1>1. E \in SUBSET (1..len) /\ IsFiniteSet(E)
  BY LineendsFinite
<1> HIDE DEF E
<1>2. \A i \in E : IsFiniteSet(Upto(i)) /\ Cardinality(Upto(i)) <= Cardinality(E)
  BY <1>1, FS_Subset
<1>3. ASSUME NEW i \in E, NEW k \in E, i < k PROVE Cardinality(Upto(i)) # Cardinality(Upto(k))
  <2>1. i \in Nat /\ k \in Nat /\ \A j \in E : j \in Nat
    BY <1>1
  <2>2. Upto(i) \in SUBSET Upto(k)
    <3>1. \A j \in E : j <= i => j <= k
      BY <1>3, <2>1
    <3> QED BY <3>1, Zenon
  <2>3. k \in Upto(k) /\ k \notin Upto(i)
    BY <1>3, <2>1
  <2> QED BY <1>2, <2>2, <2>3, FS_Subset
<1>4. \A i \in E : Cardinality(Upto(i)) = n => i = e
  <2> SUFFICES ASSUME NEW i \in E, Cardinality(Upto(i)) = n PROVE i = e
    OBVIOUS
  <2>1. Cardinality(Upto(e)) = n /\ e \in E
    BY DEF E
  <2>2. ~(i < e) /\ ~(e < i)
    BY <1>3, <2>1
  <2> QED BY <1>1, <2>1, <2>2
<1>5. Cardinality(Upto(e)) = n /\ e \in E
  BY DEF E
<1>6. End(buf, len, n) = e
  <2>1. End(buf, len, n) = CHOOSE i \in E : Cardinality(Upto(i)) = n
    BY Zenon DEF End, E
  <2> QED BY <1>4, <1>5, <2>1
<1>7. Lines(buf, len) >= n
  BY <1>2, <1>5 DEF Lines, E
<1> QED BY <1>6, <1>7

\* How many there are in sets of one, two and three.
LEMMA Cards ==
  ASSUME NEW a, NEW b, NEW c
  PROVE  /\ IsFiniteSet({a}) /\ Cardinality({a}) = 1
         /\ IsFiniteSet({a, b}) /\ Cardinality({a, b}) \in Nat
         /\ Cardinality({a, b}) = IF a = b THEN 1 ELSE 2
         /\ a # b /\ c \notin {a, b} => Cardinality({a, b, c}) = 3
<1>1. IsFiniteSet({a}) /\ Cardinality({a}) = 1
  BY FS_Singleton, Zenon
<1>2. /\ IsFiniteSet({a} \cup {b})
      /\ Cardinality({a} \cup {b}) = IF b \in {a} THEN Cardinality({a}) ELSE Cardinality({a}) + 1
  BY <1>1, FS_AddElement, Zenon
<1>3. {a, b} = {a} \cup {b} /\ {a, b, c} = {a, b} \cup {c}
  OBVIOUS
<1>4. IsFiniteSet({a, b}) /\ Cardinality({a, b}) = IF a = b THEN 1 ELSE 2
  BY <1>1, <1>2, <1>3
<1>5. Cardinality({a, b} \cup {c}) =
        IF c \in {a, b} THEN Cardinality({a, b}) ELSE Cardinality({a, b}) + 1
  BY <1>4, FS_AddElement, Zenon
<1> QED BY <1>1, <1>3, <1>4, <1>5

\* The least of the line ends is the first.
LEMMA FirstEnd ==
  ASSUME NEW buf, NEW len \in Nat, NEW a \in Lineends(buf, len),
         \A j \in Lineends(buf, len) : a <= j
  PROVE  End(buf, len, 1) = a /\ Lines(buf, len) >= 1
<1> DEFINE E == Lineends(buf, len)
<1>1. E \in SUBSET (1..len)
  BY LineendsFinite
<1>2. {j \in E : j <= a} = {a}
  BY <1>1
<1>3. Cardinality({j \in E : j <= a}) = 1
  BY <1>2, Cards
<1> QED BY <1>3, EndIs

\* The least of the others is the second.
LEMMA SecondEnd ==
  ASSUME NEW buf, NEW len \in Nat,
         NEW a \in Lineends(buf, len), \A j \in Lineends(buf, len) : a <= j,
         NEW b \in Lineends(buf, len) \ {a}, \A j \in Lineends(buf, len) \ {a} : b <= j
  PROVE  End(buf, len, 2) = b /\ Lines(buf, len) >= 2
<1> DEFINE E == Lineends(buf, len)
<1>1. E \in SUBSET (1..len)
  BY LineendsFinite
<1>2. {j \in E : j <= b} = {a, b}
  BY <1>1
<1>3. Cardinality({a, b}) = 2
  <2>1. a # b
    OBVIOUS
  <2> QED BY ONLY <2>1, Cards
<1>4. Cardinality({j \in E : j <= b}) = 2
  BY ONLY <1>2, <1>3
<1> QED BY <1>4, EndIs

\* The least of those that are left is the third.
LEMMA ThirdEnd ==
  ASSUME NEW buf, NEW len \in Nat,
         NEW a \in Lineends(buf, len), \A j \in Lineends(buf, len) : a <= j,
         NEW b \in Lineends(buf, len) \ {a}, \A j \in Lineends(buf, len) \ {a} : b <= j,
         NEW c \in Lineends(buf, len) \ {a, b}, \A j \in Lineends(buf, len) \ {a, b} : c <= j
  PROVE  End(buf, len, 3) = c /\ Lines(buf, len) >= 3
<1> DEFINE E == Lineends(buf, len)
<1>1. E \in SUBSET (1..len)
  BY LineendsFinite
<1>2. {j \in E : j <= c} = {a, b, c}
  BY <1>1
<1>3. Cardinality({a, b, c}) = 3
  <2>1. a # b /\ c \notin {a, b}
    OBVIOUS
  <2> QED BY ONLY <2>1, Cards
<1>4. Cardinality({j \in E : j <= c}) = 3
  BY ONLY <1>2, <1>3
<1> QED BY <1>4, EndIs

\* When all line ends are among a few, there are no more lines than these.
LEMMA FewLines ==
  ASSUME NEW buf, NEW len \in Nat
  PROVE  /\ Lineends(buf, len) = {} => ~(Lines(buf, len) >= 1)
         /\ \A a : Lineends(buf, len) \subseteq {a} => ~(Lines(buf, len) >= 2)
         /\ \A a, b : Lineends(buf, len) \subseteq {a, b} => ~(Lines(buf, len) >= 3)
<1> DEFINE E == Lineends(buf, len)
<1>1. IsFiniteSet(E) /\ Lines(buf, len) = Cardinality(E) /\ Cardinality(E) \in Nat
  BY LineendsFinite DEF Lines
<1> HIDE DEF E
<1>2. E = {} => ~(Cardinality(E) >= 1)
  BY FS_EmptySet
<1>3. ASSUME NEW a, E \subseteq {a} PROVE ~(Cardinality(E) >= 2)
  <2>1. IsFiniteSet({a}) /\ Cardinality({a}) = 1
    BY Cards
  <2>2. Cardinality(E) <= Cardinality({a})
    BY <1>3, <2>1, FS_Subset
  <2> QED BY <1>1, <2>1, <2>2
<1>4. ASSUME NEW a, NEW b, E \subseteq {a, b} PROVE ~(Cardinality(E) >= 3)
  <2>1. IsFiniteSet({a, b}) /\ Cardinality({a, b}) \in {1, 2}
    BY Cards
  <2>2. Cardinality(E) <= Cardinality({a, b})
    BY <1>4, <2>1, FS_Subset
  <2> QED BY <1>1, <2>1, <2>2
<1> QED BY <1>1, <1>2, <1>3, <1>4 DEF E

\* The scanning loop from p to the end of the payload finds the first line
\* end from there on.
LEMMA ScanIs ==
  ASSUME NEW buf, NEW len \in Nat, NEW p \in Nat \ {0}, NEW n \in Int, p + n = len + 1
  PROVE  LET later == {j \in Lineends(buf, len) : j >= p}
             at == p + FirstCRLF(buf, p, n)
         IN  /\ later # {} => at \in later /\ \A j \in later : at <= j
             /\ later = {} => FirstCRLF(buf, p, n) = IF n > 0 THEN n ELSE 0
<1> DEFINE later == {j \in Lineends(buf, len) : j >= p}
           hits == {i \in 0..(n - 1) : buf[p + i] = CR /\ buf[p + i + 1] = LF}
           i0 == FirstCRLF(buf, p, n)
<1>1. \A i \in hits : p + i \in later
  BY DEF Lineends
<1>2. \A j \in later : j - p \in hits /\ j \in Nat
  <2> SUFFICES ASSUME NEW j \in later PROVE j - p \in hits /\ j \in Nat
    OBVIOUS
  <2>1. j \in 1..len /\ j >= p /\ buf[j] = CR /\ buf[j + 1] = LF
    BY DEF Lineends
  <2>2. j - p \in 0..(n - 1) /\ p + (j - p) = j /\ p + (j - p) + 1 = j + 1
    BY <2>1
  <2> QED BY <2>1, <2>2
<1>3. hits \in SUBSET Nat
  OBVIOUS
<1>4. hits # {} => i0 \in hits /\ \A y \in hits : i0 <= y
  <2>1. hits # {} => i0 = Min(hits)
    BY Zenon DEF FirstCRLF
  <2> QED BY <1>3, <2>1, MinOfNats
<1>5. hits = {} => i0 = IF n > 0 THEN n ELSE 0
  BY Zenon DEF FirstCRLF
<1> HIDE DEF hits, later, i0
<1>6. ASSUME later # {} PROVE p + i0 \in later /\ \A j \in later : p + i0 <= j
  <2>1. hits # {}
    BY <1>2, <1>6
  <2>2. i0 \in hits /\ (\A y \in hits : i0 <= y) /\ i0 \in Nat
    BY <1>3, <1>4, <2>1
  <2>3. \A j \in later : i0 <= j - p /\ j \in Nat
    BY <1>2, <2>2
  <2> QED BY <1>1, <2>2, <2>3
<1>7. later = {} => hits = {}
  BY <1>1
<1> QED BY <1>5, <1>6, <1>7 DEF later, i0

\* What is read of a number at p: it ends at the first of the line ends
\* behind p, if there is one.
ReadUpto(buf, len, p, later, read) ==
  /\ later = {} => ~read.ok
  /\ \A e \in later : (\A j \in later : e <= j) =>
       /\ read.ok <=> e < len /\ Atoi(SubSeq(buf, p, e - 1)) # 0
       /\ read.num = Atoi(SubSeq(buf, p, e - 1))
       /\ read.buf = [buf EXCEPT ![e] = NUL]
       /\ read.next = e + 2 /\ read.left = len - e - 1

\* NumberLine reads so.
LEMMA NumberLineIs ==
  ASSUME NEW buf \in Seq(Byte), NEW len \in Nat, NEW p \in Nat \ {0}, NEW n \in Int,
         p + n = len + 1,
         NEW later, later = {j \in Lineends(buf, len) : j >= p},
         NEW read, read = NumberLine(buf, p, n)
  PROVE  ReadUpto(buf, len, p, later, read)
<1> DEFINE i == FirstCRLF(buf, p, n)
<1>1. /\ read.ok <=> n >= i + 2 /\ Atoi(SubSeq(buf, p, p + i - 1)) # 0
      /\ read.num = Atoi(SubSeq(buf, p, p + i - 1))
      /\ read.buf = [buf EXCEPT ![p + i] = NUL]
      /\ read.next = p + i + 2 /\ read.left = n - i - 2
  BY Zenon DEF NumberLine
<1>2. /\ later # {} => p + i \in later /\ \A j \in later : p + i <= j
      /\ later = {} => i = IF n > 0 THEN n ELSE 0
  BY ScanIs
<1>3. i \in Nat
  BY FirstCRLFBounds
<1>4. \A j \in later : j \in Nat
  BY DEF Lineends
<1> HIDE DEF i
<1>5. later = {} => ~read.ok
  <2>1. later = {} => ~(n >= i + 2)
    BY ONLY <1>2, <1>3, n \in Int
  <2> QED BY ONLY <1>1, <2>1
<1>6. ASSUME NEW e \in later, \A j \in later : e <= j
      PROVE  /\ p + i = e /\ p + i - 1 = e - 1 /\ p + i + 2 = e + 2
             /\ n - i - 2 = len - e - 1 /\ (n >= i + 2 <=> e < len)
  <2>1. p + i <= e /\ e <= p + i /\ e \in Nat
    BY <1>2, <1>4, <1>6
  <2> QED BY <1>3, <2>1
<1>7. ASSUME NEW e \in later, \A j \in later : e <= j
      PROVE  /\ read.ok <=> e < len /\ Atoi(SubSeq(buf, p, e - 1)) # 0
             /\ read.num = Atoi(SubSeq(buf, p, e - 1))
             /\ read.buf = [buf EXCEPT ![e] = NUL]
             /\ read.next = e + 2 /\ read.left = len - e - 1
  <2>1. /\ p + i = e /\ p + i - 1 = e - 1 /\ p + i + 2 = e + 2
        /\ n - i - 2 = len - e - 1 /\ (n >= i + 2 <=> e < len)
    BY <1>6, <1>7
  <2> QED BY ONLY <1>1, <2>1
<1> QED BY ONLY <1>5, <1>7 DEF ReadUpto

\* over is buf without the line end e, whose CR is overwritten.
Overwritten(buf, len, e, over) ==
  /\ over \in Seq(Byte) /\ Len(over) = len + Behind
  /\ \A i \in 1..(len + Behind) : i # e => over[i] = buf[i]
  /\ Lineends(over, len) = Lineends(buf, len) \ {e}

\* A NUL does that.
LEMMA OverwrittenEnd ==
  ASSUME NEW buf \in Seq(Byte), NEW len \in Nat, Len(buf) = len + Behind,
         NEW e \in Lineends(buf, len),
         NEW over, over = [buf EXCEPT ![e] = NUL]
  PROVE  Overwritten(buf, len, e, over)
<1>1. buf \in [1..(len + Behind) -> Byte] /\ NUL \in Byte
  <2>1. buf \in [1..Len(buf) -> Byte]
    BY LenProperties
  <2> QED BY <2>1 DEF NUL, Byte
<1>2. over \in [1..(len + Behind) -> Byte] /\ len + Behind \in Nat
  <2>1. len + Behind \in Nat
    BY DEF Behind
  <2> QED BY ONLY <1>1, <2>1, over = [buf EXCEPT ![e] = NUL]
<1>3. over \in Seq(Byte) /\ Len(over) = len + Behind
  BY <1>2, LenProperties
<1>4. \A i \in 1..(len + Behind) : over[i] = IF i = e THEN NUL ELSE buf[i]
  BY <1>1
<1>5. \A i \in 1..len : i \in 1..(len + Behind) /\ i + 1 \in 1..(len + Behind)
  BY DEF Behind
<1>6. e \in 1..len /\ buf[e] = CR
  BY DEF Lineends
<1>7. ASSUME NEW i \in 1..len
      PROVE  over[i] = CR /\ over[i + 1] = LF <=> i # e /\ buf[i] = CR /\ buf[i + 1] = LF
  BY <1>4, <1>5, <1>6 DEF NUL, CR, LF
<1>8. Lineends(over, len) = Lineends(buf, len) \ {e}
  BY <1>7 DEF Lineends
<1> QED BY <1>3, <1>4, <1>8 DEF Overwritten

\* Texts of the same bytes are the same.
LEMMA SameText ==
  ASSUME NEW buf \in Seq(Byte), NEW over \in Seq(Byte), Len(over) = Len(buf),
         NEW m \in Nat \ {0}, NEW n \in Int, n <= Len(buf),
         \A i \in m..n : over[i] = buf[i]
  PROVE  SubSeq(over, m, n) = SubSeq(buf, m, n)
<1>1. \A i \in m..n : buf[i] \in Byte /\ over[i] \in Byte
  BY ElementOfSeq
<1>2. /\ SubSeq(buf, m, n) \in Seq(Byte) /\ SubSeq(over, m, n) \in Seq(Byte)
      /\ Len(SubSeq(buf, m, n)) = IF m <= n THEN n - m + 1 ELSE 0
      /\ Len(SubSeq(over, m, n)) = IF m <= n THEN n - m + 1 ELSE 0
      /\ \A i \in 1..(n - m + 1) : /\ SubSeq(buf, m, n)[i] = buf[m + i - 1]
                                   /\ SubSeq(over, m, n)[i] = over[m + i - 1]
  BY <1>1, SubSeqProperties
<1>3. \A i \in 1..Len(SubSeq(over, m, n)) : SubSeq(over, m, n)[i] = SubSeq(buf, m, n)[i]
  <2> SUFFICES ASSUME NEW i \in 1..Len(SubSeq(over, m, n))
               PROVE  SubSeq(over, m, n)[i] = SubSeq(buf, m, n)[i]
    OBVIOUS
  <2>1. m <= n /\ i \in 1..(n - m + 1) /\ m + i - 1 \in m..n
    BY <1>2
  <2> QED BY <1>2, <2>1
<1> QED BY <1>2, <1>3, SeqEqual

\* A text without its first byte is the text from the second on.
LEMMA TailOfText ==
  ASSUME NEW buf \in Seq(Byte), NEW m \in Nat \ {0}, NEW e \in Int, m < e, e - 1 <= Len(buf)
  PROVE  Tail(SubSeq(buf, m, e - 1)) = SubSeq(buf, m + 1, e - 1)
<1>1. m \in 1..Len(buf) /\ e - 1 \in m..Len(buf)
  BY LenProperties
<1> QED BY <1>1, HeadTailOfSubSeq

\* What a first line that ends at a says, and a second that ends at b; and
\* what n is if the scan for the end of the name in over has found it or not.
FirstIs(buf, len, a, argc) ==
  /\ a \in 2..len /\ buf[a + 1] = LF
  /\ argc.ok <=> Header(buf, len, 1, Star)
  /\ argc.ok => a < len
  /\ argc.buf = [buf EXCEPT ![a] = NUL]
  /\ argc.next = a + 2 /\ argc.left = len - a - 1

SecondIs(buf, len, a, over, b, bulk) ==
  /\ b \in (a + 3)..len /\ buf[b + 1] = LF
  /\ bulk.ok <=> Header(buf, len, 2, Dollar)
  /\ bulk.ok => b < len
  /\ bulk.num = Atoi(Tail(TextLine(buf, len, 2)))
  /\ bulk.buf = [over EXCEPT ![b] = NUL]
  /\ bulk.next = b + 2 /\ bulk.left = len - b - 1

NameIs(buf, len, over, b, n) ==
  IF Lines(buf, len) >= 3
  THEN /\ n < len - b - 1 /\ n = Len(TextLine(buf, len, 3))
       /\ SubSeq(over, b + 2, b + 2 + n - 1) = TextLine(buf, len, 3)
  ELSE n >= len - b - 1

\* A payload that begins with "*": what the first line says of it.
LEMMA FirstLine ==
  ASSUME NEW buf \in Seq(Byte), NEW len \in Nat \ {0}, Len(buf) = len + Behind, buf[1] = Star,
         NEW argc, argc = NumberLine(buf, 2, len - 1)
  PROVE  /\ Lineends(buf, len) = {} => ~argc.ok /\ ~Header(buf, len, 1, Star)
         /\ \A a \in Lineends(buf, len) :
              (\A j \in Lineends(buf, len) : a <= j) => FirstIs(buf, len, a, argc)
<1> DEFINE E == Lineends(buf, len)
<1>1. \A j \in E : j \in 2..len /\ buf[j] = CR /\ buf[j + 1] = LF
  BY DEF Lineends, Star, CR
<1>2. E = {j \in E : j >= 2}
  BY <1>1
<1>3. ReadUpto(buf, len, 2, E, argc)
  <2> DEFINE n == len - 1
  <2>1. /\ n \in Int /\ 2 \in Nat \ {0} /\ 2 + n = len + 1 /\ argc = NumberLine(buf, 2, n)
        /\ len \in Nat
    OBVIOUS
  <2>2. E = {j \in Lineends(buf, len) : j >= 2}
    BY <1>2
  <2> HIDE DEF n, E
  <2> QED BY <2>1, <2>2, NumberLineIs, Zenon
<1>4. E = {} => ~Header(buf, len, 1, Star)
  BY FewLines DEF Header
<1>5. ASSUME NEW a \in E, \A j \in E : a <= j
      PROVE  /\ argc.ok <=> Header(buf, len, 1, Star)
             /\ argc.ok => a < len
             /\ argc.buf = [buf EXCEPT ![a] = NUL]
             /\ argc.next = a + 2 /\ argc.left = len - a - 1
  <2>1. /\ argc.ok <=> a < len /\ Atoi(SubSeq(buf, 2, a - 1)) # 0
        /\ argc.buf = [buf EXCEPT ![a] = NUL]
        /\ argc.next = a + 2 /\ argc.left = len - a - 1
    BY <1>3, <1>5 DEF ReadUpto
  <2>2. End(buf, len, 1) = a /\ Lines(buf, len) >= 1
    BY <1>5, FirstEnd
  <2>3. End(buf, len, 1 - 1) + 2 = 1
    BY DEF End
  <2>4. Tail(SubSeq(buf, 1, a - 1)) = SubSeq(buf, 2, a - 1)
    <3>1. 1 < a /\ a \in Int /\ a - 1 <= Len(buf)
      BY <1>1, <1>5 DEF Behind
    <3> QED BY <3>1, TailOfText
  <2>5. TextLine(buf, len, 1) = SubSeq(buf, 1, a - 1)
    BY <2>2, <2>3 DEF TextLine
  <2>6. Header(buf, len, 1, Star) <=> a < len /\ Atoi(SubSeq(buf, 2, a - 1)) # 0
    BY <2>2, <2>3, <2>4, <2>5 DEF Header
  <2> QED BY <2>1, <2>6
<1>6. E = {} => ~argc.ok
  BY <1>3 DEF ReadUpto
<1> QED BY <1>1, <1>4, <1>5, <1>6 DEF FirstIs

\* Behind a first line that ends at a, and a "$": what the second says.
LEMMA SecondLine ==
  ASSUME NEW buf \in Seq(Byte), NEW len \in Nat \ {0}, Len(buf) = len + Behind,
         NEW a \in Lineends(buf, len), \A j \in Lineends(buf, len) : a <= j,
         a < len, buf[a + 2] = Dollar,
         NEW over, over = [buf EXCEPT ![a] = NUL],
         NEW bulk, bulk = NumberLine(over, a + 3, len - a - 2)
  PROVE  /\ Lineends(buf, len) \ {a} = {} => ~bulk.ok /\ ~Header(buf, len, 2, Dollar)
         /\ \A b \in Lineends(buf, len) \ {a} :
              (\A j \in Lineends(buf, len) \ {a} : b <= j) => SecondIs(buf, len, a, over, b, bulk)
<1> DEFINE E == Lineends(buf, len)
           F == E \ {a}
<1>1. /\ over \in Seq(Byte) /\ Len(over) = len + Behind
      /\ \A i \in 1..(len + Behind) : i # a => over[i] = buf[i]
      /\ Lineends(over, len) = F
  <2>1. len \in Nat
    OBVIOUS
  <2>2. Overwritten(buf, len, a, over)
    BY <2>1, OverwrittenEnd
  <2> QED BY <2>2 DEF Overwritten
<1>2. a \in 1..len /\ buf[a + 1] = LF /\ a \in Nat
  BY DEF Lineends
<1>3. \A j \in F : j \in (a + 3)..len /\ buf[j + 1] = LF
  <2> SUFFICES ASSUME NEW j \in F PROVE j \in (a + 3)..len /\ buf[j + 1] = LF
    OBVIOUS
  <2>1. j \in 1..len /\ a <= j /\ j # a /\ buf[j] = CR /\ buf[j + 1] = LF
    BY DEF Lineends
  <2>2. j # a + 1 /\ j # a + 2
    BY <1>2, <2>1 DEF CR, LF, Dollar
  <2> QED BY <1>2, <2>1, <2>2
<1>4. F = {j \in Lineends(over, len) : j >= a + 3}
  <2> HIDE DEF F
  <2>1. \A j \in F : j >= a + 3
    BY <1>2, <1>3
  <2> QED BY <1>1, <2>1, Zenon
<1>5. ReadUpto(over, len, a + 3, F, bulk)
  <2> DEFINE n == len - a - 2
             p == a + 3
  <2>1. n \in Int /\ p \in Nat \ {0} /\ p + n = len + 1 /\ bulk = NumberLine(over, p, n) /\ len \in Nat
    BY <1>2
  <2>2. F = {j \in Lineends(over, len) : j >= p} /\ over \in Seq(Byte)
    BY <1>1, <1>4
  <2> HIDE DEF n, F, p
  <2>3. ReadUpto(over, len, p, F, bulk)
    BY <2>1, <2>2, NumberLineIs, Zenon
  <2> QED BY <2>3 DEF p
<1>6. F = {} => ~bulk.ok /\ ~Header(buf, len, 2, Dollar)
  <2>1. F = {} => E \subseteq {a}
    OBVIOUS
  <2> QED BY <1>5, <2>1, FewLines DEF Header, ReadUpto
<1>7. ASSUME NEW b \in F, \A j \in F : b <= j
      PROVE  /\ bulk.ok <=> Header(buf, len, 2, Dollar)
             /\ bulk.ok => b < len
             /\ bulk.num = Atoi(Tail(TextLine(buf, len, 2)))
             /\ bulk.buf = [over EXCEPT ![b] = NUL]
             /\ bulk.next = b + 2 /\ bulk.left = len - b - 1
  <2>1. /\ bulk.ok <=> b < len /\ Atoi(SubSeq(over, a + 3, b - 1)) # 0
        /\ bulk.num = Atoi(SubSeq(over, a + 3, b - 1))
        /\ bulk.buf = [over EXCEPT ![b] = NUL]
        /\ bulk.next = b + 2 /\ bulk.left = len - b - 1
    BY <1>5, <1>7 DEF ReadUpto
  <2>2. End(buf, len, 2) = b /\ Lines(buf, len) >= 2
    BY <1>7, SecondEnd
  <2>3. End(buf, len, 2 - 1) = a
    BY FirstEnd
  <2>4. b \in (a + 3)..len
    BY <1>3
  <2>5. SubSeq(over, a + 3, b - 1) = SubSeq(buf, a + 3, b - 1)
    <3> DEFINE m == a + 3
               n == b - 1
    <3>1. m \in Nat \ {0} /\ n \in Int /\ n <= Len(buf) /\ Len(over) = Len(buf)
      BY <1>1, <1>2, <2>4 DEF Behind
    <3>2. \A i \in m..n : over[i] = buf[i]
      <4>1. \A i \in m..n : i \in 1..(len + Behind) /\ i # a
        BY <1>2, <2>4 DEF Behind
      <4> QED BY <1>1, <4>1
    <3> HIDE DEF m, n
    <3>3. SubSeq(over, m, n) = SubSeq(buf, m, n)
      BY <1>1, <3>1, <3>2, SameText
    <3> QED BY <3>3 DEF m, n
  <2>6. TextLine(buf, len, 2) = SubSeq(buf, a + 2, b - 1)
    BY <2>2, <2>3 DEF TextLine
  <2>7. Tail(TextLine(buf, len, 2)) = SubSeq(buf, a + 3, b - 1)
    <3>1. /\ a + 2 \in Nat \ {0} /\ a + 2 < b /\ b \in Int /\ b - 1 <= Len(buf)
          /\ (a + 2) + 1 = a + 3
      BY <1>2, <2>4 DEF Behind
    <3>2. Tail(SubSeq(buf, a + 2, b - 1)) = SubSeq(buf, (a + 2) + 1, b - 1)
      BY <3>1, TailOfText
    <3> QED BY <2>6, <3>1, <3>2
  <2>8. Header(buf, len, 2, Dollar) <=> b < len /\ Atoi(SubSeq(buf, a + 3, b - 1)) # 0
    BY <2>2, <2>3, <2>7 DEF Header
  <2> QED BY <2>1, <2>5, <2>7, <2>8
<1> QED BY <1>3, <1>6, <1>7 DEF SecondIs

\* Behind two good lines: the name, if its end is in the payload.
LEMMA NameLine ==
  ASSUME NEW buf \in Seq(Byte), NEW len \in Nat \ {0}, Len(buf) = len + Behind,
         NEW a \in Lineends(buf, len), \A j \in Lineends(buf, len) : a <= j,
         NEW b \in Lineends(buf, len) \ {a}, \A j \in Lineends(buf, len) \ {a} : b <= j,
         b < len,
         NEW over \in Seq(Byte), Len(over) = len + Behind,
         \A i \in 1..(len + Behind) : i \notin {a, b} => over[i] = buf[i],
         Lineends(over, len) = Lineends(buf, len) \ {a, b},
         NEW n, n = FirstCRLF(over, b + 2, len - b - 1)
  PROVE  NameIs(buf, len, over, b, n)
<1> DEFINE G == Lineends(buf, len) \ {a, b}
           p == b + 2
           m == len - b - 1
<1>1. a \in 1..len /\ b \in 1..len /\ a < b /\ buf[b + 1] = LF /\ b \in Nat
  BY DEF Lineends
<1>2. \A j \in G : j \in p..len
  <2> SUFFICES ASSUME NEW j \in G PROVE j \in p..len
    OBVIOUS
  <2>1. j \in 1..len /\ b <= j /\ j # b /\ buf[j] = CR
    BY DEF Lineends
  <2>2. j # b + 1
    BY <1>1, <2>1 DEF CR, LF
  <2> QED BY <1>1, <2>1, <2>2
<1>3. G = {j \in Lineends(over, len) : j >= p}
  <2>1. Lineends(over, len) = G
    OBVIOUS
  <2> HIDE DEF G
  <2>2. \A j \in G : j >= p
    BY <1>1, <1>2
  <2> QED BY <2>1, <2>2, Zenon
<1>4. p \in Nat \ {0} /\ m \in Nat /\ p + m = len + 1 /\ n = FirstCRLF(over, p, m)
  BY <1>1
<1>5. n \in Nat
  BY <1>4, FirstCRLFBounds
<1>6. CASE G = {}
  <2>1. ~(Lines(buf, len) >= 3)
    <3>1. Lineends(buf, len) \subseteq {a, b}
      BY <1>6
    <3> QED BY <3>1, FewLines
  <2>2. n = IF m > 0 THEN m ELSE 0
    <3> HIDE DEF G, p, m
    <3> QED BY <1>3, <1>4, <1>6, ScanIs
  <2> QED BY <1>4, <2>1, <2>2 DEF NameIs
<1>7. CASE G # {}
  <2> DEFINE c == p + n
  <2>1. c \in G /\ \A j \in G : c <= j
    <3> HIDE DEF G, p, m
    <3> DEFINE later == {j \in Lineends(over, len) : j >= p}
    <3>1. later # {} /\ len \in Nat /\ m \in Int /\ over \in Seq(Byte)
      BY <1>3, <1>4, <1>7
    <3>2. p + FirstCRLF(over, p, m) \in later /\ \A j \in later : p + FirstCRLF(over, p, m) <= j
      BY ONLY <1>4, <3>1, ScanIs
    <3> QED BY <1>3, <1>4, <3>2
  <2>2. End(buf, len, 3) = c /\ Lines(buf, len) >= 3
    BY <2>1, ThirdEnd
  <2>3. End(buf, len, 3 - 1) = b
    BY SecondEnd
  <2>4. c \in p..len
    BY <1>2, <2>1
  <2>5. TextLine(buf, len, 3) = SubSeq(buf, p, c - 1)
    BY <2>2, <2>3 DEF TextLine
  <2>6. \A i \in p..(c - 1) : i \in 1..(len + Behind) /\ i \notin {a, b}
    BY <1>1, <2>4 DEF Behind
  <2>7. SubSeq(over, p, c - 1) = SubSeq(buf, p, c - 1)
    <3> DEFINE last == c - 1
    <3>1. last \in Int /\ last <= Len(buf) /\ Len(over) = Len(buf)
      BY <2>4 DEF Behind
    <3>2. \A i \in p..last : over[i] = buf[i]
      BY <2>6
    <3> HIDE DEF last, p, c
    <3>3. SubSeq(over, p, last) = SubSeq(buf, p, last)
      BY <1>4, <3>1, <3>2, SameText
    <3> QED BY <3>3 DEF last
  <2>8. Len(SubSeq(buf, p, c - 1)) = n
    <3>1. p \in Int /\ c - 1 \in Int /\ \A i \in p..(c - 1) : buf[i] \in Byte
      BY <1>1, <2>4, <2>6, ElementOfSeq
    <3>2. Len(SubSeq(buf, p, c - 1)) = IF p <= c - 1 THEN (c - 1) - p + 1 ELSE 0
      <4> HIDE DEF p, c
      <4> QED BY <3>1, SubSeqProperties
    <3> QED BY <1>4, <1>5, <3>2
  <2>9. b + 2 + n - 1 = c - 1 /\ n < m
    BY <1>1, <1>4, <1>5, <2>4
  <2> QED BY <2>2, <2>5, <2>7, <2>8, <2>9 DEF NameIs
<1> QED BY <1>6, <1>7

\* What a refused payload is answered is right if it is no request.
LEMMA RefusedRight ==
  ASSUME NEW buf, NEW len, NEW over,
         ~Header(buf, len, 1, Star) \/ ~Header(buf, len, 2, Dollar)
  PROVE  RightAnswer(buf, len, Refused(over))
BY DEF RightAnswer, Refused

\* Whatever the payload and whatever lies behind it: redis_cmd_parse accepts
\* it just when it begins with an array header and a bulk header and its name,
\* if the end of that has been captured, has the announced length; and it
\* returns that name.
THEOREM ParsesGrammar ==
  ASSUME NEW buf \in Seq(Byte), NEW len \in Nat \ {0}, Len(buf) = len + Behind
  PROVE  RightAnswer(buf, len, redis_cmd_parse(buf, len))
<1> DEFINE E == Lineends(buf, len)
           argc == NumberLine(buf, 2, len - 1)
           bulk == NumberLine(argc.buf, argc.next + 1, argc.left - 1)
           n == FirstCRLF(bulk.buf, bulk.next, bulk.left)
           parsed == redis_cmd_parse(buf, len)
<1>1. CASE buf[1] # Star
  <2>1. parsed = Refused(buf)
    BY <1>1, Zenon DEF redis_cmd_parse
  <2>2. End(buf, len, 1 - 1) + 2 = 1
    BY DEF End
  <2>3. ~Header(buf, len, 1, Star)
    BY <1>1, <2>2 DEF Header
  <2> QED BY <2>1, <2>3, RefusedRight
<1>2. CASE buf[1] = Star /\ ~Header(buf, len, 1, Star)
  <2>1. parsed = BehindArgc(argc)
    BY <1>2, Zenon DEF redis_cmd_parse
  <2>2. ~argc.ok
    <3>1. E = {} \/ \E a \in E : \A j \in E : a <= j
      <4>1. E \in SUBSET Nat
        BY LineendsFinite
      <4> QED BY ONLY <4>1, MinOfNats
    <3> HIDE DEF argc
    <3>2. argc = NumberLine(buf, 2, len - 1)
      BY DEF argc
    <3>3. /\ E = {} => ~argc.ok
          /\ \A a \in E : (\A j \in E : a <= j) => FirstIs(buf, len, a, argc)
      BY <1>2, <3>2, FirstLine
    <3> QED BY <1>2, <3>1, <3>3 DEF FirstIs
  <2>3. parsed = Refused(argc.buf)
    BY <2>1, <2>2, Zenon DEF BehindArgc
  <2> QED BY <1>2, <2>3, RefusedRight
<1>3. CASE buf[1] = Star /\ Header(buf, len, 1, Star)
  <2>1. parsed = BehindArgc(argc)
    BY <1>3, Zenon DEF redis_cmd_parse
  <2>2. PICK a \in E : /\ \A j \in E : a <= j
                       /\ a \in 2..len /\ buf[a + 1] = LF /\ argc.ok /\ a < len
                       /\ argc.buf = [buf EXCEPT ![a] = NUL]
                       /\ argc.next = a + 2 /\ argc.left = len - a - 1
    <3>1. E = {} \/ \E a \in E : \A j \in E : a <= j
      <4>1. E \in SUBSET Nat
        BY LineendsFinite
      <4> QED BY ONLY <4>1, MinOfNats
    <3> HIDE DEF argc
    <3>2. argc = NumberLine(buf, 2, len - 1)
      BY DEF argc
    <3>3. /\ E = {} => ~Header(buf, len, 1, Star)
          /\ \A a \in E : (\A j \in E : a <= j) => FirstIs(buf, len, a, argc)
      BY <1>3, <3>2, FirstLine
    <3> QED BY <1>3, <3>1, <3>3 DEF FirstIs
  <2> DEFINE over == [buf EXCEPT ![a] = NUL]
  <2>3. Overwritten(buf, len, a, over)
    <3>1. len \in Nat
      OBVIOUS
    <3> HIDE DEF over
    <3> QED BY <3>1, OverwrittenEnd DEF over
  <2>4. argc.next + 1 = a + 3 /\ argc.left - 1 = len - a - 2 /\ a + 2 # a /\ a + 2 \in 1..(len + Behind)
    BY <2>2 DEF Behind
  <2>5. argc.buf[argc.next] = buf[a + 2]
    BY <2>2, <2>3, <2>4 DEF Overwritten
  <2>6. bulk = NumberLine(over, a + 3, len - a - 2)
    BY <2>2, <2>4, Zenon
  <2>7. End(buf, len, 2 - 1) = a
    <3>1. End(buf, len, 1) = a
      BY <2>2, FirstEnd
    <3> QED BY <3>1
  <2>8. CASE buf[a + 2] # Dollar
    <3>1. parsed = Refused(argc.buf)
      BY <2>1, <2>2, <2>5, <2>8, Zenon DEF BehindArgc
    <3>2. ~Header(buf, len, 2, Dollar)
      BY <2>7, <2>8 DEF Header
    <3> QED BY <3>1, <3>2, RefusedRight
  <2>9. CASE buf[a + 2] = Dollar
    <3>1. parsed = BehindBulk(bulk)
      BY <2>1, <2>2, <2>5, <2>9, Zenon DEF BehindArgc
    <3> HIDE DEF argc, bulk, over, parsed
    <3> DEFINE F == E \ {a}
    <3>2. F = {} \/ \E b \in F : \A j \in F : b <= j
      <4>1. F \in SUBSET Nat
        BY LineendsFinite
      <4> QED BY <4>1, MinOfNats
    <3>3. over = [buf EXCEPT ![a] = NUL]
      BY DEF over
    <3>4. /\ F = {} => ~bulk.ok /\ ~Header(buf, len, 2, Dollar)
          /\ \A b \in F : (\A j \in F : b <= j) => SecondIs(buf, len, a, over, b, bulk)
      <4>1. /\ len \in Nat \ {0} /\ Len(buf) = len + Behind /\ a \in Lineends(buf, len)
            /\ (\A j \in Lineends(buf, len) : a <= j) /\ a < len
        BY <2>2
      <4> QED BY ONLY buf \in Seq(Byte), <2>6, <2>9, <3>3, <4>1, SecondLine
    <3>5. CASE ~Header(buf, len, 2, Dollar)
      <4>1. ~bulk.ok
        BY <3>2, <3>4, <3>5 DEF SecondIs
      <4>2. parsed = Refused(bulk.buf)
        BY <3>1, <4>1, Zenon DEF BehindBulk
      <4> QED BY <3>5, <4>2, RefusedRight DEF parsed
    <3>6. CASE Header(buf, len, 2, Dollar)
      <4>1. PICK b \in F : /\ \A j \in F : b <= j
                           /\ b \in (a + 3)..len /\ bulk.ok /\ b < len
                           /\ bulk.num = Atoi(Tail(TextLine(buf, len, 2)))
                           /\ bulk.buf = [over EXCEPT ![b] = NUL]
                           /\ bulk.next = b + 2 /\ bulk.left = len - b - 1
        BY <3>2, <3>4, <3>6 DEF SecondIs
      <4>2. Overwritten(over, len, b, bulk.buf)
        <5>1. len \in Nat /\ over \in Seq(Byte) /\ Len(over) = len + Behind /\ b \in Lineends(over, len)
          BY <2>3 DEF Overwritten
        <5> QED BY <4>1, <5>1, OverwrittenEnd
      <4>3. /\ bulk.buf \in Seq(Byte) /\ Len(bulk.buf) = len + Behind
            /\ \A i \in 1..(len + Behind) : i \notin {a, b} => bulk.buf[i] = buf[i]
            /\ Lineends(bulk.buf, len) = E \ {a, b}
        BY <2>3, <4>2 DEF Overwritten
      <4>4. n = FirstCRLF(bulk.buf, b + 2, len - b - 1)
        BY <4>1
      <4>5. NameIs(buf, len, bulk.buf, b, n)
        <5> HIDE DEF n
        <5>1. len \in Nat \ {0} /\ a \in E /\ b \in F
          OBVIOUS
        <5> QED BY <2>2, <4>1, <4>3, <4>4, <5>1, NameLine
      <4>6. parsed = Name(bulk, n)
        BY <3>1, <4>1, Zenon DEF BehindBulk
      <4> HIDE DEF n
      <4>7. n \in Nat
        BY <4>1, <4>4, FirstCRLFBounds
      <4>8. CASE ~(Lines(buf, len) >= 3)
        <5>1. parsed = [ret |-> 0, cmd |-> << >>, buf |-> bulk.buf]
          BY <4>1, <4>5, <4>6, <4>8 DEF Name, NameIs
        <5> QED BY <1>3, <3>6, <4>8, <5>1 DEF RightAnswer, parsed
      <4>9. CASE Lines(buf, len) >= 3
        <5>1. ~(n >= bulk.left)
          BY <4>1, <4>5, <4>7, <4>9 DEF NameIs
        <5>2. CASE bulk.num # n
          <6>1. parsed = Refused(bulk.buf)
            BY <4>6, <5>1, <5>2, Zenon DEF Name
          <6>2. Len(TextLine(buf, len, 3)) # Atoi(Tail(TextLine(buf, len, 2)))
            BY <4>1, <4>5, <4>9, <5>2 DEF NameIs
          <6> QED BY <4>9, <6>1, <6>2 DEF RightAnswer, Refused, parsed
        <5>3. CASE bulk.num = n
          <6>1. parsed = [ret |-> 0, cmd |-> SubSeq(bulk.buf, bulk.next, bulk.next + n - 1),
                          buf |-> bulk.buf]
            BY <4>6, <5>1, <5>3, Zenon DEF Name
          <6>2. parsed.ret = 0 /\ parsed.cmd = TextLine(buf, len, 3)
            BY <4>1, <4>5, <4>9, <6>1 DEF NameIs
          <6>3. Len(TextLine(buf, len, 3)) = Atoi(Tail(TextLine(buf, len, 2)))
            BY <4>1, <4>5, <4>9, <5>3 DEF NameIs
          <6> QED BY <1>3, <3>6, <4>9, <6>2, <6>3 DEF RightAnswer, parsed
        <5> QED BY <5>2, <5>3
      <4> QED BY <4>8, <4>9
    <3> QED BY <3>5, <3>6
  <2> QED BY <2>8, <2>9
<1> QED BY <1>1, <1>2, <1>3
=============================================================================
