--------------------------- MODULE StartupProofs ---------------------------
(***************************************************************************)
(* What main makes of its arguments, whom its messages reach and which     *)
(* addresses it takes, for any arguments, any size of the buffer and       *)
(* whatever ip addr prints.                                                *)
(***************************************************************************)
EXTENDS Startup, SequenceTheorems, WellFoundedInduction, TLAPS

\* A set of natural numbers that is not empty has a least element.
LEMMA LeastOfNats ==
  ASSUME NEW T \in SUBSET Nat, T # {}
  PROVE  \E x \in T : \A y \in T : x <= y
<1>1. \E x \in T : \A y \in T : ~(<<y, x>> \in OpToRel(<, Nat))
  BY WFMin, NatLessThanWellFounded, Zenon
<1>2. \E x \in T : \A y \in T : ~(y < x)
  BY <1>1 DEF OpToRel
<1> QED BY <1>2

\* A set of numbers from 1 to n that is not empty has a greatest element.
LEMMA GreatestOfPlaces ==
  ASSUME NEW n \in Nat, NEW T \in SUBSET (1..n), T # {}
  PROVE  \E x \in T : \A y \in T : y <= x
<1> DEFINE U == {m \in Nat : \E x \in T : m = n - x}
<1>1. U \in SUBSET Nat /\ U # {}
  <2>1. PICK x \in T : TRUE
    OBVIOUS
  <2>2. n - x \in U
    BY <2>1
  <2> QED BY <2>2
<1>2. PICK m \in U : \A y \in U : m <= y
  <2> HIDE DEF U
  <2> QED BY <1>1, LeastOfNats
<1>3. PICK x \in T : m = n - x
  BY <1>2
<1>4. ASSUME NEW y \in T PROVE y <= x
  <2>1. n - y \in U
    OBVIOUS
  <2>2. m <= n - y
    BY <1>2, <2>1
  <2> QED BY <1>3, <2>2
<1> QED BY <1>4

-----------------------------------------------------------------------------
\* The arguments that are options, by their places.
Takes == {I, A}

LEMMA Flags == /\ V \notin Takes /\ D \notin Takes /\ V # D /\ I # A
BY DEF Takes, V, D, I, A, Dash

\* Each argument has exactly one row of -i and -a in front of it.
LEMMA RunExists ==
  ASSUME NEW args, NEW p \in Nat \ {0}
  PROVE  \E n \in 0..(p - 1) : IsRun(args, p, n)
<1> DEFINE T == {n \in Nat : n <= p - 1 /\ (n = p - 1 \/ args[p - n - 1] \notin {I, A})}
<1>1. p - 1 \in T
  OBVIOUS
<1>2. PICK n \in T : \A m \in T : n <= m
  <2>1. T \in SUBSET Nat /\ T # {}
    BY <1>1
  <2> HIDE DEF T
  <2> QED BY <2>1, LeastOfNats
<1>3. ASSUME NEW q \in (p - n)..(p - 1) PROVE args[q] \in {I, A}
  <2> DEFINE m == p - 1 - q
  <2>1. m \in Nat /\ n \in Nat /\ m < n /\ m <= p - 1 /\ m # p - 1 /\ p - m - 1 = q
    BY <1>2
  <2>2. m \notin T
    <3> HIDE DEF T
    <3> QED BY <1>2, <2>1
  <2> QED BY <2>1, <2>2
<1>4. n \in 0..(p - 1) /\ (n = p - 1 \/ args[p - n - 1] \notin {I, A})
  BY <1>2
<1> QED BY <1>3, <1>4 DEF IsRun

LEMMA RunUnique ==
  ASSUME NEW args, NEW p \in Nat \ {0}, NEW m \in 0..(p - 1), NEW n \in 0..(p - 1),
         IsRun(args, p, m), IsRun(args, p, n)
  PROVE  m = n
<1>1. ASSUME NEW j \in 0..(p - 1), NEW k \in 0..(p - 1), IsRun(args, p, j), IsRun(args, p, k), j < k
      PROVE  FALSE
  <2>1. j # p - 1 /\ p - j - 1 \in (p - k)..(p - 1)
    BY <1>1
  <2>2. args[p - j - 1] \in {I, A}
    BY <1>1, <2>1 DEF IsRun
  <2> QED BY <1>1, <2>1, <2>2 DEF IsRun
<1>2. ~(m < n) /\ ~(n < m)
  BY <1>1
<1> QED BY <1>2

LEMMA FlagsAre ==
  ASSUME NEW args, NEW p \in Nat \ {0}
  PROVE  /\ FlagsBefore(args, p) \in 0..(p - 1) /\ IsRun(args, p, FlagsBefore(args, p))
         /\ \A n \in 0..(p - 1) : IsRun(args, p, n) => FlagsBefore(args, p) = n
<1>1. FlagsBefore(args, p) \in 0..(p - 1) /\ IsRun(args, p, FlagsBefore(args, p))
  BY RunExists, Zenon DEF FlagsBefore
<1> QED BY <1>1, RunUnique

\* What is behind an argument is its value exactly when it is an option.
LEMMA ValueFollowsOption ==
  ASSUME NEW args, NEW p \in Nat \ {0}
  PROVE  IsValue(args, p + 1) <=> args[p] \in Takes /\ ~IsValue(args, p)
<1> DEFINE n == FlagsBefore(args, p)
<1>1. n \in 0..(p - 1) /\ IsRun(args, p, n)
  BY FlagsAre
<1>2. p + 1 \in Nat \ {0} /\ (p + 1) - 1 = p
  OBVIOUS
<1> HIDE DEF n
<1>3. CASE args[p] \in Takes
  <2>1. IsRun(args, p + 1, n + 1)
    <3>1. ASSUME NEW q \in ((p + 1) - (n + 1))..((p + 1) - 1) PROVE args[q] \in {I, A}
      <4>1. q = p \/ q \in (p - n)..(p - 1)
        BY <1>1
      <4> QED BY <1>1, <1>3, <4>1 DEF IsRun, Takes
    <3>2. n + 1 = (p + 1) - 1 \/ args[(p + 1) - (n + 1) - 1] \notin {I, A}
      <4>1. (p + 1) - (n + 1) - 1 = p - n - 1 /\ (n = p - 1 => n + 1 = (p + 1) - 1)
        BY <1>1
      <4> QED BY <1>1, <4>1 DEF IsRun
    <3> QED BY <3>1, <3>2 DEF IsRun
  <2>2. n + 1 \in 0..((p + 1) - 1)
    BY <1>1
  <2>3. FlagsBefore(args, p + 1) = n + 1
    BY <1>2, <2>1, <2>2, FlagsAre
  <2>4. (n + 1) % 2 = 1 <=> ~(n % 2 = 1)
    BY <1>1
  <2> QED BY <1>3, <2>3, <2>4 DEF IsValue, n
<1>4. CASE args[p] \notin Takes
  <2>1. IsRun(args, p + 1, 0)
    <3>1. \A q \in ((p + 1) - 0)..((p + 1) - 1) : args[q] \in {I, A}
      OBVIOUS
    <3>2. args[(p + 1) - 0 - 1] \notin {I, A}
      BY <1>4 DEF Takes
    <3> QED BY <3>1, <3>2 DEF IsRun
  <2>2. FlagsBefore(args, p + 1) = 0
    <3>1. 0 \in 0..((p + 1) - 1)
      OBVIOUS
    <3> QED BY <1>2, <2>1, <3>1, FlagsAre
  <2> QED BY <1>4, <2>2 DEF IsValue
<1> QED BY <1>3, <1>4

LEMMA FirstIsNoValue == ASSUME NEW args PROVE ~IsValue(args, 1)
<1>1. FlagsBefore(args, 1) \in 0..(1 - 1)
  BY FlagsAre
<1>2. FlagsBefore(args, 1) = 0
  BY <1>1
<1> QED BY <1>2 DEF IsValue


-----------------------------------------------------------------------------
(***************************************************************************)
(* Behind k arguments the loop has what the options among them mean, and   *)
(* stands at no value.                                                     *)
(***************************************************************************)
OptionsBefore(args, flag, k) == {p \in Options(args, flag) : p < k /\ p < Len(args)}
ValueBefore(args, flag, k) == ValueAt(args, OptionsBefore(args, flag, k))
NoneBefore(args, flag, k) == \A p \in Options(args, flag) : ~(p < k)

\* The configuration c is what the arguments before the k-th mean.
Read(args, k, c) ==
  /\ k \in 1..(Len(args) + 1) /\ ~IsValue(args, k)
  /\ c.device = ValueBefore(args, I, k) /\ c.ip = ValueBefore(args, A, k)
  /\ c.deamon <=> NoneBefore(args, D, k)
  /\ NoneBefore(args, V, k)

LEMMA NothingRead ==
  ASSUME NEW args \in Seq(String)
  PROVE  Read(args, 1, [device |-> << >>, ip |-> << >>, deamon |-> TRUE])
<1>1. \A flag : OptionsBefore(args, flag, 1) = {} /\ NoneBefore(args, flag, 1)
  BY DEF OptionsBefore, NoneBefore, Options
<1>2. \A flag : ValueBefore(args, flag, 1) = << >>
  BY <1>1 DEF ValueBefore, ValueAt
<1>3. 1 \in 1..(Len(args) + 1)
  OBVIOUS
<1> QED BY <1>1, <1>2, <1>3, FirstIsNoValue DEF Read

\* An argument that is neither -i nor -a.
LEMMA ReadOne ==
  ASSUME NEW args \in Seq(String), NEW k \in 1..Len(args), NEW c, NEW d, Read(args, k, c),
         args[k] \notin Takes, args[k] # V, d.device = c.device, d.ip = c.ip,
         d.deamon <=> c.deamon /\ args[k] # D
  PROVE  Read(args, k + 1, d)
<1>1. ~IsValue(args, k + 1)
  <2>1. k \in Nat \ {0}
    OBVIOUS
  <2> QED BY <2>1, ValueFollowsOption
<1>2. ASSUME NEW flag \in Takes PROVE ValueBefore(args, flag, k + 1) = ValueBefore(args, flag, k)
  <2>1. OptionsBefore(args, flag, k + 1) = OptionsBefore(args, flag, k)
    BY <1>2 DEF OptionsBefore, Options
  <2> QED BY <2>1 DEF ValueBefore
<1>3. NoneBefore(args, V, k + 1)
  BY DEF Read, NoneBefore, Options
<1>4. NoneBefore(args, D, k + 1) <=> NoneBefore(args, D, k) /\ args[k] # D
  <2>1. ~IsValue(args, k) /\ k \in DOMAIN args
    BY DEF Read
  <2> QED BY <2>1 DEF NoneBefore, Options
<1>5. I \in Takes /\ A \in Takes
  BY DEF Takes
<1>6. k + 1 \in 1..(Len(args) + 1)
  OBVIOUS
<1>7. d.deamon <=> NoneBefore(args, D, k + 1)
  BY <1>4 DEF Read
<1> QED BY <1>1, <1>2, <1>3, <1>5, <1>6, <1>7 DEF Read

\* -i or -a and its value.
LEMMA ReadTwo ==
  ASSUME NEW args \in Seq(String), NEW k \in 1..Len(args), k < Len(args), NEW c, NEW d,
         Read(args, k, c), args[k] \in Takes,
         d.device = IF args[k] = I THEN args[k + 1] ELSE c.device,
         d.ip = IF args[k] = A THEN args[k + 1] ELSE c.ip,
         d.deamon <=> c.deamon
  PROVE  Read(args, k + 2, d)
<1>1. ~IsValue(args, k) /\ IsValue(args, k + 1) /\ ~IsValue(args, k + 2)
  <2>1. ~IsValue(args, k)
    BY DEF Read
  <2>2. IsValue(args, k + 1)
    BY <2>1, ValueFollowsOption
  <2>3. k + 1 \in Nat \ {0} /\ (k + 1) + 1 = k + 2
    OBVIOUS
  <2>4. ~IsValue(args, (k + 1) + 1)
    BY <2>2, <2>3, ValueFollowsOption
  <2> QED BY <2>1, <2>2, <2>3, <2>4
<1>2. ASSUME NEW flag \in Takes
      PROVE  ValueBefore(args, flag, k + 2)
               = IF args[k] = flag THEN args[k + 1] ELSE ValueBefore(args, flag, k)
  <2>1. CASE args[k] # flag
    <3>1. OptionsBefore(args, flag, k + 2) = OptionsBefore(args, flag, k)
      <4>1. \A p \in DOMAIN args : p < k + 2 <=> (p < k \/ p = k \/ p = k + 1)
        OBVIOUS
      <4> QED BY <1>1, <2>1, <4>1 DEF OptionsBefore, Options
    <3> QED BY <2>1, <3>1 DEF ValueBefore
  <2>2. CASE args[k] = flag
    <3> DEFINE at == OptionsBefore(args, flag, k + 2)
    <3>1. k \in at
      BY <1>1, <2>2 DEF OptionsBefore, Options
    <3>2. \A q \in at : q \in Nat /\ q <= k
      <4>1. \A q \in at : q \in DOMAIN args /\ q < k + 2 /\ q # k + 1
        BY <1>1 DEF OptionsBefore, Options
      <4> QED BY <4>1
    <3> HIDE DEF at
    <3>3. (CHOOSE p \in at : \A q \in at : q <= p) = k
      <4> DEFINE z == CHOOSE p \in at : \A q \in at : q <= p
      <4>1. \E p \in at : \A q \in at : q <= p
        BY <3>1, <3>2
      <4>2. z \in at /\ \A q \in at : q <= z
        BY <4>1, Zenon
      <4> HIDE DEF z
      <4>3. z = k
        BY <3>1, <3>2, <4>2
      <4> QED BY <4>3 DEF z
    <3>4. ValueAt(args, at) = args[1 + k]
      BY <3>1, <3>3, Zenon DEF ValueAt
    <3>5. 1 + k = k + 1
      OBVIOUS
    <3> QED BY <2>2, <3>4, <3>5 DEF ValueBefore, at
  <2> QED BY <2>1, <2>2
<1>3. ASSUME NEW flag, flag \notin Takes
      PROVE  NoneBefore(args, flag, k + 2) <=> NoneBefore(args, flag, k)
  <2>1. \A p \in DOMAIN args : p < k + 2 <=> (p < k \/ p = k \/ p = k + 1)
    OBVIOUS
  <2>2. \A p \in Options(args, flag) : p \in DOMAIN args /\ p # k /\ p # k + 1
    BY <1>1, <1>3 DEF Options
  <2> QED BY <2>1, <2>2 DEF NoneBefore
<1>4. I \in Takes /\ A \in Takes
  BY DEF Takes
<1>5. NoneBefore(args, V, k + 2) /\ (d.deamon <=> NoneBefore(args, D, k + 2))
  BY <1>3, Flags DEF Read
<1>6. d.device = ValueBefore(args, I, k + 2) /\ d.ip = ValueBefore(args, A, k + 2)
  BY <1>2, <1>4 DEF Read
<1>7. k + 2 \in 1..(Len(args) + 1)
  OBVIOUS
<1> QED BY <1>1, <1>5, <1>6, <1>7 DEF Read

\* All arguments read.
LEMMA ReadAll ==
  ASSUME NEW args \in Seq(String), NEW k, NEW c, Read(args, k, c), k > Len(args)
  PROVE  /\ c.device = LastValue(args, I) /\ c.ip = LastValue(args, A)
         /\ (c.deamon <=> Options(args, D) = {}) /\ Options(args, V) = {}
<1>1. k = Len(args) + 1
  BY DEF Read
<1>2. \A flag : /\ OptionsBefore(args, flag, k) = {p \in Options(args, flag) : p < Len(args)}
                /\ NoneBefore(args, flag, k) <=> Options(args, flag) = {}
  BY <1>1 DEF OptionsBefore, NoneBefore, Options
<1>3. \A flag : ValueBefore(args, flag, k) = LastValue(args, flag)
  BY <1>2, Zenon DEF ValueBefore, LastValue
<1> QED BY <1>2, <1>3 DEF Read


-----------------------------------------------------------------------------
\* The directory in front of the last slash.
AppDirOf(prog, dir) ==
  /\ Len(dir) = 0 \/ Last(dir) = Slash
  /\ IsPrefix(dir, prog)
  /\ \A p \in DOMAIN prog : prog[p] = Slash => p <= Len(dir)

LEMMA GetAppDirDoes ==
  ASSUME NEW prog \in String
  PROVE  AppDirOf(prog, GetAppDir(prog)) /\ GetAppDir(prog) \in String
<1> DEFINE slashes == {p \in DOMAIN prog : prog[p] = Slash}
           dir == GetAppDir(prog)
<1>1. prog \in Seq(Char) /\ Len(prog) \in Nat /\ DOMAIN prog = 1..Len(prog)
  BY DEF String
<1>2. CASE slashes = {}
  <2>1. dir = << >>
    BY <1>2 DEF GetAppDir
  <2>2. IsPrefix(<< >>, prog)
    BY <1>1 DEF IsPrefix
  <2>3. \A p \in DOMAIN prog : prog[p] # Slash
    BY <1>2
  <2>4. << >> \in String
    BY DEF String
  <2> QED BY <2>1, <2>2, <2>3, <2>4 DEF AppDirOf
<1>3. CASE slashes # {}
  <2> DEFINE last == CHOOSE p \in slashes : \A q \in slashes : q <= p
  <2>1. last \in slashes /\ \A q \in slashes : q <= last
    <3>1. slashes \in SUBSET (1..Len(prog))
      BY <1>1
    <3>2. \E p \in slashes : \A q \in slashes : q <= p
      <4> HIDE DEF slashes
      <4> QED BY <1>1, <1>3, <3>1, GreatestOfPlaces
    <3> HIDE DEF slashes
    <3> QED BY <3>2, Zenon
  <2>2. dir = SubSeq(prog, 1, last)
    BY <1>3, Zenon DEF GetAppDir
  <2> HIDE DEF last, dir
  <2>3. last \in 1..Len(prog) /\ prog[last] = Slash
    BY <1>1, <2>1
  <2>4. Len(dir) = last /\ dir \in Seq(Char) /\ \A p \in 1..last : dir[p] = prog[p]
    BY <1>1, <2>2, <2>3
  <2>5. Last(dir) = Slash
    BY <2>3, <2>4 DEF Last
  <2>6. IsPrefix(dir, prog)
    <3>1. SubSeq(dir, 1, last) = dir
      BY <2>3, <2>4
    <3> QED BY <1>1, <2>2, <2>3, <2>4, <3>1 DEF IsPrefix
  <2>7. \A p \in DOMAIN prog : prog[p] = Slash => p <= last
    BY <2>1
  <2> QED BY <2>4, <2>5, <2>6, <2>7 DEF AppDirOf, dir, String
<1> QED BY <1>2, <1>3

-----------------------------------------------------------------------------
LEMMA FindsFirst ==
  ASSUME NEW str \in String, NEW sub \in String
  PROVE  /\ find_str(str, sub) = -1 => Found(str, sub) = {}
         /\ find_str(str, sub) # -1 => find_str(str, sub) \in Found(str, sub)
         /\ find_str(str, sub) \in Int
<1>1. Found(str, sub) \in SUBSET Nat /\ \A p \in Found(str, sub) : p > 0
  BY DEF Found, String
<1>2. CASE Found(str, sub) = {}
  BY <1>2 DEF find_str
<1>3. CASE Found(str, sub) # {}
  <2>1. \E p \in Found(str, sub) : \A q \in Found(str, sub) : p <= q
    BY <1>1, <1>3, LeastOfNats
  <2> DEFINE first == CHOOSE p \in Found(str, sub) : \A q \in Found(str, sub) : p <= q
  <2>2. first \in Found(str, sub)
    BY <2>1, Zenon
  <2>3. find_str(str, sub) = first
    BY <1>3, Zenon DEF find_str
  <2> HIDE DEF first
  <2> QED BY <1>1, <2>2, <2>3
<1> QED BY <1>2, <1>3

\* Up to the end of the buffer it holds what was printed.
LEMMA BufferHas ==
  ASSUME NEW text \in String, NEW behind \in Behind
  PROVE  /\ Buffer(text, behind) \in String
         /\ Len(text) < BufferSize => Buffer(text, behind) = text
         /\ Len(text) >= BufferSize =>
              /\ Len(Buffer(text, behind)) = BufferSize + Len(behind)
              /\ \A p \in 1..BufferSize : Buffer(text, behind)[p] = text[p]
<1>1. text \in Seq(Char) /\ behind \in Seq(Char)
  BY TextsAssumption DEF String
<1>2. CASE Len(text) < BufferSize
  BY <1>2, BufferAssumption, <1>1 DEF Buffer
<1>3. CASE Len(text) >= BufferSize
  <2> DEFINE s == SubSeq(text, 1, BufferSize)
  <2>1. BufferSize \in Nat /\ Len(text) \in Nat /\ ~(Len(text) < BufferSize)
    BY <1>1, <1>3, BufferAssumption
  <2>2. s \in Seq(Char) /\ Len(s) = BufferSize /\ \A p \in 1..BufferSize : s[p] = text[p]
    <3>1. \A j \in 1..BufferSize : text[j] \in Char
      BY <1>1, <2>1
    <3>2. /\ s \in Seq(Char) /\ Len(s) = IF 1 <= BufferSize THEN BufferSize - 1 + 1 ELSE 0
          /\ \A j \in 1..(BufferSize - 1 + 1) : s[j] = text[1 + j - 1]
      BY <2>1, <3>1, SubSeqProperties
    <3> QED BY <2>1, <3>2
  <2>3. Buffer(text, behind) = s \o behind
    BY <2>1 DEF Buffer
  <2> HIDE DEF s
  <2>4. s \o behind \in Seq(Char) /\ Len(s \o behind) = BufferSize + Len(behind)
        /\ \A p \in 1..BufferSize : (s \o behind)[p] = s[p]
    <3>1. Len(behind) \in Nat
      BY <1>1
    <3>2. /\ s \o behind \in Seq(Char) /\ Len(s \o behind) = Len(s) + Len(behind)
          /\ \A j \in 1..(Len(s) + Len(behind)) :
               (s \o behind)[j] = IF j <= Len(s) THEN s[j] ELSE behind[j - Len(s)]
      BY <1>1, <2>2, ConcatProperties
    <3> QED BY <2>1, <2>2, <3>1, <3>2
  <2> QED BY <2>1, <2>2, <2>3, <2>4 DEF String
<1> QED BY <1>1, <1>2, <1>3, BufferAssumption

\* An address that is not found in the buffer is not shown before its end.
LEMMA RefusedIsNotShown ==
  ASSUME NEW text \in Texts, text # << >>, NEW behind \in Behind, NEW sub \in String, sub # << >>,
         Found(Buffer(text, behind), sub) = {}, Last(sub) # Newline
  PROVE  ~Occurs(SubSeq(text, 1, IF Len(text) < BufferSize THEN Len(text) ELSE BufferSize - 1), sub)
<1> DEFINE n == IF Len(text) < BufferSize THEN Len(text) ELSE BufferSize - 1
           str == SubSeq(text, 1, n)
           buf == Buffer(text, behind)
<1>1. /\ text \in Seq(Char) /\ Len(text) \in Nat /\ Len(text) > 0 /\ BufferSize \in Nat \ {0}
      /\ sub \in Seq(Char) /\ Len(sub) \in Nat /\ Len(sub) > 0 /\ behind \in Seq(Char)
      /\ text \in String
  BY TextsAssumption, BufferAssumption DEF String
<1>2. n \in 0..Len(text) /\ Len(str) = n /\ \A p \in 1..n : str[p] = text[p]
  BY <1>1
<1>3. /\ Len(buf) \in Nat /\ n <= Len(buf) /\ \A p \in 1..n : buf[p] = text[p]
      /\ Len(text) < BufferSize => buf = text /\ n = Len(text)
      /\ Len(text) >= BufferSize => n < Len(buf)
  BY <1>1, BufferHas
<1> SUFFICES ASSUME NEW p \in DOMAIN str, Same(str, sub, p, Len(sub)) PROVE FALSE
  BY DEF Occurs
<1> HIDE DEF n, str, buf
<1>4. p \in 1..n
  <2>1. \A j \in 1..n : text[j] \in Char
    BY <1>1, <1>2
  <2>2. str \in Seq(Char)
    BY <1>2, <2>1, SubSeqProperties DEF str
  <2> QED BY <1>2, <2>2
<1>5. p + Len(sub) - 1 <= n /\ str[p + Len(sub) - 1] = sub[Len(sub)]
  BY <1>1, <1>2, <1>4 DEF Same
<1>6. p + Len(sub) - 1 < Len(buf)
  <2>1. CASE Len(text) < BufferSize
    <3>1. text[Len(text)] = Newline
      BY <1>1, TextsAssumption DEF Last
    <3>2. str[p + Len(sub) - 1] = text[p + Len(sub) - 1]
      BY <1>1, <1>2, <1>4, <1>5
    <3>3. p + Len(sub) - 1 # Len(text)
      BY <1>5, <3>1, <3>2 DEF Last
    <3> QED BY <1>1, <1>2, <1>3, <1>4, <1>5, <2>1, <3>3
  <2> QED BY <1>1, <1>2, <1>3, <1>4, <1>5, <2>1
<1>7. Same(buf, sub, p, Len(sub))
  <2> SUFFICES ASSUME NEW j \in 1..Len(sub)
               PROVE  p + j - 1 <= Len(buf) /\ buf[p + j - 1] = sub[j]
    BY DEF Same
  <2>1. p + j - 1 \in 1..n /\ str[p + j - 1] = sub[j]
    BY <1>1, <1>2, <1>4 DEF Same
  <2> QED BY <1>1, <1>2, <1>3, <1>4, <2>1
<1>8. p \in Found(buf, sub)
  BY <1>1, <1>2, <1>3, <1>4, <1>6, <1>7 DEF Found
<1> QED BY <1>8 DEF buf

\* One that is found is shown there, or ends behind the buffer.
LEMMA FoundIsShown ==
  ASSUME NEW text \in Texts, NEW behind \in Behind, NEW sub \in String,
         NEW p \in Found(Buffer(text, behind), sub)
  PROVE  \/ Same(text, sub, p, Len(sub))
         \/ Len(text) >= BufferSize /\ p + Len(sub) - 1 > BufferSize
<1>1. text \in String /\ Len(text) \in Nat /\ BufferSize \in Nat /\ Len(sub) \in Nat /\ p \in Nat \ {0}
  BY TextsAssumption, BufferAssumption DEF String, Found
<1>2. Same(Buffer(text, behind), sub, p, Len(sub))
  BY DEF Found
<1>3. CASE Len(text) < BufferSize
  BY <1>1, <1>2, <1>3, BufferHas
<1>4. CASE Len(text) >= BufferSize /\ p + Len(sub) - 1 <= BufferSize
  <2>1. /\ \A j \in 1..BufferSize : Buffer(text, behind)[j] = text[j]
    BY <1>1, <1>4, BufferHas
  <2> SUFFICES ASSUME NEW j \in 1..Len(sub)
               PROVE  p + j - 1 <= Len(text) /\ text[p + j - 1] = sub[j]
    BY DEF Same
  <2>2. p + j - 1 \in 1..BufferSize
    BY <1>1, <1>4
  <2> QED BY <1>1, <1>2, <1>4, <2>1, <2>2 DEF Same
<1> QED BY <1>1, <1>3, <1>4


-----------------------------------------------------------------------------
(***************************************************************************)
(* The invariant, in three parts: where main is and what the arguments     *)
(* made of the configuration; what was said to whom; what ip addr printed  *)
(* and what came of it.                                                    *)
(***************************************************************************)
Late == {"get configure error!", "set ip error", "errbuf"}
Config == [device |-> device, ip |-> ip, deamon |-> deamon]
Started == i > Len(argv) /\ AppDirOf(program, apppath)
DiedOfOption == argv # << >> /\ Len(argv) \in Options(argv, I) \cup Options(argv, A)

ArgsInv ==
  /\ pc \in {"args", "daemon", "config", "vip", "malloc", "open", "filter", "capture",
             "returned", "crashed"}
  /\ program \in String /\ argv \in Seq(String) /\ apppath \in String
  /\ deamon \in BOOLEAN /\ device \in String /\ ip \in String
  /\ Read(argv, i, Config)
  /\ pc \notin {"args", "returned", "crashed"} => Started
  /\ pc = "crashed" /\ shown = << >> => DiedOfOption

\* Where standard output leads once daemon() has been passed.
Outlet == IF deamon /\ detached # "failed" THEN "null" ELSE "terminal"

ToldInv ==
  /\ pc \in {"args", "daemon"} => stdout = "terminal"
  /\ pc \notin {"args", "daemon", "returned", "crashed"} => stdout = Outlet
  /\ pc # "returned" => told = Untold
  /\ told.message \in {"arg error", "version"} => told.to = "terminal"
  /\ told.message \in Late => Started /\ told.to = Outlet

ShownInv ==
  /\ shown \in Texts \cup {<< >>} /\ found \in Int
  /\ pc \in {"args", "daemon", "config", "vip"} => shown = << >> /\ found = -1
  /\ pc \in {"vip", "malloc", "open", "filter", "capture"} => ip # << >>
  /\ pc \in {"malloc", "open", "filter", "capture"} \/ found # -1 => shown # << >>
  /\ told.message = "set ip error" /\ shown # << >> =>
       ip # << >> /\ \E behind \in Behind : Found(Buffer(shown, behind), ip) = {}
  /\ found # -1 => \E behind \in Behind : found \in Found(Buffer(shown, behind), ip)

StartupInv == ArgsInv /\ ToldInv /\ ShownInv

LEMMA StartsRight == Init => StartupInv
<1> SUFFICES ASSUME Init PROVE StartupInv
  OBVIOUS
<1>1. program \in String /\ argv \in Seq(String) /\ << >> \in String
  BY CommandsAssumption DEF Init, String
<1>2. Config = [device |-> << >>, ip |-> << >>, deamon |-> TRUE]
  BY DEF Init, Config
<1>3. Read(argv, i, Config)
  BY <1>1, <1>2, NothingRead DEF Init
<1>4. ArgsInv
  BY <1>1, <1>3 DEF ArgsInv, Init
<1>5. ToldInv
  BY DEF ToldInv, Init, Untold, Late
<1>6. ShownInv
  BY DEF ShownInv, Init, Untold
<1> QED BY <1>4, <1>5, <1>6 DEF StartupInv

-----------------------------------------------------------------------------
\* Until main returns it has told nothing.
LEMMA Silent ==
  ASSUME StartupInv, pc # "returned"
  PROVE  told = Untold /\ told.message = "none"
<1>1. Untold.message = "none"
  BY DEF Untold
<1> QED BY <1>1 DEF StartupInv, ToldInv

LEMMA KeepsSilent ==
  ASSUME StartupInv, pc # "returned", told' = told,
         pc' \in {"args", "daemon"} => stdout' = "terminal",
         pc' \notin {"args", "daemon", "returned", "crashed"} => stdout' = Outlet'
  PROVE  ToldInv' /\ told'.message = "none"
<1>1. told' = Untold /\ told'.message = "none"
  BY Silent
<1>2. told'.message \notin Late
  BY <1>1 DEF Late
<1> QED BY <1>1, <1>2 DEF ToldInv, Untold

LEMMA SaysLate ==
  ASSUME StartupInv, pc \notin {"args", "daemon", "returned", "crashed"}, NEW m \in Late,
         told' = [message |-> m, to |-> stdout], pc' = "returned",
         UNCHANGED <<deamon, detached>>, Started'
  PROVE  ToldInv' /\ told'.message = m
<1>1. told'.message = m /\ told'.to = stdout
  OBVIOUS
<1>2. told'.message \notin {"arg error", "version"}
  BY <1>1 DEF Late
<1> QED BY <1>1, <1>2 DEF StartupInv, ToldInv, Outlet

\* The steps, one by one.
LEMMA ReturnsEarly == ASSUME StartupInv, NoArguments \/ Version PROVE StartupInv'
<1>1. /\ pc = "args" /\ pc' = "returned"
      /\ \E m \in {"arg error", "version"} : told' = [message |-> m, to |-> stdout]
      /\ UNCHANGED <<program, apppath, argv, i, deamon, device, ip, stdout, shown, found>>
  BY DEF NoArguments, Version, More, Return
<1>2. PICK m \in {"arg error", "version"} : told' = [message |-> m, to |-> stdout]
  BY <1>1
<1>3. told'.message = m /\ told'.to = stdout
  BY <1>2
<1>4. ArgsInv'
  BY <1>1 DEF StartupInv, ArgsInv, Config, Started, DiedOfOption
<1>5. ToldInv'
  BY <1>1, <1>3 DEF StartupInv, ToldInv, Late
<1>6. ShownInv'
  BY <1>1, <1>3 DEF StartupInv, ShownInv
<1> QED BY <1>4, <1>5, <1>6 DEF StartupInv

LEMMA ArgumentAt ==
  ASSUME StartupInv, More
  PROVE  /\ pc = "args" /\ i \in 1..Len(argv) /\ argv[i] \in String /\ argv \in Seq(String)
         /\ Read(argv, i, Config) /\ ~IsValue(argv, i)
         /\ device \in String /\ ip \in String /\ deamon \in BOOLEAN
<1>1. Read(argv, i, Config) /\ argv \in Seq(String)
  BY DEF StartupInv, ArgsInv
<1>2. i \in 1..Len(argv) /\ ~IsValue(argv, i)
  BY <1>1 DEF Read, More
<1> QED BY <1>1, <1>2 DEF StartupInv, ArgsInv, More

\* Reading on, only the configuration changes.
LEMMA StillReading ==
  ASSUME StartupInv, pc = "args", pc' = "args",
         UNCHANGED <<program, apppath, argv, stdout, detached, told, shown, found>>,
         deamon' \in BOOLEAN, device' \in String, ip' \in String, deamon' \/ ~deamon',
         Read(argv', i', Config')
  PROVE  StartupInv'
<1>1. ArgsInv'
  BY DEF StartupInv, ArgsInv
<1>2. ToldInv' /\ told'.message = "none"
  BY KeepsSilent DEF StartupInv, ToldInv
<1>3. ShownInv'
  BY <1>2 DEF StartupInv, ShownInv
<1> QED BY <1>1, <1>2, <1>3 DEF StartupInv

LEMMA ReadsOne == ASSUME StartupInv, Foreground \/ Ignored PROVE StartupInv'
<1>1. /\ More /\ argv[i] \notin Takes /\ argv[i] # V /\ pc' = "args" /\ i' = i + 1
      /\ device' = device /\ ip' = ip
      /\ deamon' = IF argv[i] = D THEN FALSE ELSE deamon
      /\ UNCHANGED <<program, apppath, argv, stdout, detached, told, shown, found>>
  BY Flags DEF Foreground, Ignored, More, Takes
<1>2. /\ Config'.device = Config.device /\ Config'.ip = Config.ip
      /\ Config'.deamon <=> Config.deamon /\ argv[i] # D
  BY <1>1 DEF Config
<1>3. Read(argv, i + 1, Config')
  BY <1>1, <1>2, ArgumentAt, ReadOne
<1>4. deamon' \in BOOLEAN
  BY <1>1, ArgumentAt
<1> QED BY <1>1, <1>3, <1>4, ArgumentAt, StillReading

LEMMA ReadsTwo == ASSUME StartupInv, Option PROVE StartupInv'
<1>1. /\ More /\ argv[i] \in Takes /\ i < Len(argv) /\ pc' = "args" /\ i' = i + 2
      /\ device' = IF argv[i] = I THEN argv[i + 1] ELSE device
      /\ ip' = IF argv[i] = A THEN argv[i + 1] ELSE ip
      /\ UNCHANGED <<program, apppath, argv, deamon, stdout, detached, told, shown, found>>
  BY DEF Option, More, Takes, PastValue
<1>2. /\ Config'.device = (IF argv[i] = I THEN argv[i + 1] ELSE Config.device)
      /\ Config'.ip = (IF argv[i] = A THEN argv[i + 1] ELSE Config.ip)
      /\ Config'.deamon <=> Config.deamon
  BY <1>1 DEF Config
<1>3. Read(argv, i + 2, Config')
  BY <1>1, <1>2, ArgumentAt, ReadTwo
<1>4. argv[i + 1] \in String
  BY <1>1, ArgumentAt
<1>5. device' \in String /\ ip' \in String
  BY <1>1, <1>4, ArgumentAt
<1> QED BY <1>1, <1>3, <1>5, ArgumentAt, StillReading

LEMMA DiesAtEnd == ASSUME StartupInv, OptionAtEnd PROVE StartupInv'
<1>1. /\ More /\ argv[i] \in Takes /\ i = Len(argv) /\ pc' = "crashed"
      /\ UNCHANGED <<program, apppath, argv, i, deamon, device, ip, stdout, detached, told, shown, found>>
  BY DEF OptionAtEnd, Takes
<1>2. Len(argv) \in Options(argv, I) \cup Options(argv, A) /\ argv # << >>
  BY <1>1, ArgumentAt DEF Options, Takes
<1>3. ArgsInv'
  BY <1>1, <1>2 DEF StartupInv, ArgsInv, Config, Started, DiedOfOption
<1>4. ToldInv' /\ told'.message = "none"
  BY <1>1, ArgumentAt, KeepsSilent DEF StartupInv, ToldInv
<1>5. ShownInv'
  BY <1>1, <1>4, ArgumentAt DEF StartupInv, ShownInv
<1> QED BY <1>3, <1>4, <1>5 DEF StartupInv

LEMMA Prints == ASSUME StartupInv, PrintAppDir PROVE StartupInv'
<1>1. /\ pc = "args" /\ i > Len(argv) /\ apppath' = GetAppDir(program) /\ pc' = "daemon"
      /\ UNCHANGED <<program, argv, i, deamon, device, ip, stdout, detached, told, shown, found>>
  BY DEF PrintAppDir
<1>2. AppDirOf(program, apppath') /\ apppath' \in String
  BY <1>1, GetAppDirDoes DEF StartupInv, ArgsInv
<1>3. ArgsInv'
  BY <1>1, <1>2 DEF StartupInv, ArgsInv, Config, Started
<1>4. ToldInv' /\ told'.message = "none"
  BY <1>1, KeepsSilent DEF StartupInv, ToldInv
<1>5. ShownInv'
  BY <1>1, <1>4 DEF StartupInv, ShownInv
<1> QED BY <1>3, <1>4, <1>5 DEF StartupInv

\* Behind the loop the configuration stays.
Kept == /\ pc \notin {"args", "returned", "crashed"}
        /\ UNCHANGED <<program, apppath, argv, i, deamon, device, ip>>

LEMMA KeepsArgs ==
  ASSUME StartupInv, Kept,
         pc' \in {"config", "vip", "malloc", "open", "filter", "capture", "returned", "crashed"},
         pc' = "crashed" => shown' # << >>
  PROVE  ArgsInv' /\ Started /\ Started'
BY DEF StartupInv, ArgsInv, Kept, Config, Started

LEMMA Daemonizes == ASSUME StartupInv, Daemon PROVE StartupInv'
<1>1. /\ pc = "daemon" /\ pc' = "config" /\ Kept
      /\ stdout' = Outlet'
      /\ UNCHANGED <<told, shown, found>>
  BY DEF Daemon, Kept, Outlet, StartupInv, ArgsInv, ToldInv
<1>2. ArgsInv' /\ Started'
  BY <1>1, KeepsArgs
<1>3. ToldInv' /\ told'.message = "none"
  BY <1>1, KeepsSilent DEF Kept
<1>4. ShownInv'
  BY <1>1, <1>3 DEF StartupInv, ShownInv, Kept
<1> QED BY <1>2, <1>3, <1>4 DEF StartupInv

LEMMA Checks == ASSUME StartupInv, CheckConfig PROVE StartupInv'
<1>1. /\ pc = "config" /\ Kept
      /\ \/ pc' = "returned" /\ told' = [message |-> "get configure error!", to |-> stdout]
         \/ pc' = "vip" /\ ip # << >> /\ told' = told
      /\ UNCHANGED <<stdout, detached, shown, found>>
  BY DEF CheckConfig, Kept, Return
<1>2. ArgsInv' /\ Started'
  BY <1>1, KeepsArgs
<1>3. ToldInv' /\ told'.message # "set ip error"
  <2>1. CASE told' = told
    BY <1>1, <2>1, KeepsSilent DEF Kept, StartupInv, ToldInv, Outlet
  <2>2. CASE pc' = "returned" /\ told' = [message |-> "get configure error!", to |-> stdout]
    <3>1. "get configure error!" \in Late
      BY DEF Late
    <3> QED BY <1>1, <1>2, <2>2, <3>1, SaysLate DEF Kept
  <2> QED BY <1>1, <2>1, <2>2
<1>4. ShownInv'
  BY <1>1, <1>3 DEF StartupInv, ShownInv, Kept
<1> QED BY <1>2, <1>3, <1>4 DEF StartupInv

LEMMA ChecksAddress == ASSUME StartupInv, check_self_vip PROVE StartupInv'
<1>1. /\ pc = "vip" /\ Kept /\ UNCHANGED <<stdout, detached>>
      /\ IF found' = -1 THEN pc' = "returned" /\ told' = [message |-> "set ip error", to |-> stdout]
                        ELSE pc' = "malloc" /\ told' = told
  BY DEF check_self_vip, Kept, Return
<1>2. PICK text \in Texts \cup {<< >>}, behind \in Behind :
        /\ shown' = text
        /\ found' = IF text = << >> THEN -1 ELSE find_str(Buffer(text, behind), ip)
  BY DEF check_self_vip
<1>3. ArgsInv' /\ Started'
  BY <1>1, KeepsArgs
<1>4. ToldInv' /\ (found' # -1 => told'.message = "none")
  <2>1. CASE found' # -1
    BY <1>1, <2>1, KeepsSilent DEF Kept, StartupInv, ToldInv, Outlet
  <2>2. CASE found' = -1
    <3>1. "set ip error" \in Late
      BY DEF Late
    <3> QED BY <1>1, <1>3, <2>2, <3>1, SaysLate DEF Kept
  <2> QED BY <2>1, <2>2
<1>5. ip # << >> /\ ip' = ip /\ ip \in String
  BY <1>1 DEF StartupInv, ShownInv, ArgsInv, Kept
<1>6. CASE text = << >>
  <2>1. shown' = << >> /\ found' = -1 /\ pc' = "returned"
    BY <1>1, <1>2, <1>6
  <2>2. ShownInv'
    BY <2>1 DEF ShownInv
  <2> QED BY <1>3, <1>4, <2>2 DEF StartupInv
<1>7. CASE text # << >>
  <2>1. text \in Texts /\ text \in String
    BY <1>2, <1>7, TextsAssumption
  <2>2. /\ find_str(Buffer(text, behind), ip) = -1 => Found(Buffer(text, behind), ip) = {}
        /\ find_str(Buffer(text, behind), ip) # -1 =>
             find_str(Buffer(text, behind), ip) \in Found(Buffer(text, behind), ip)
        /\ find_str(Buffer(text, behind), ip) \in Int
    BY <1>5, <2>1, BufferHas, FindsFirst
  <2>3. shown' = text /\ found' = find_str(Buffer(text, behind), ip)
    BY <1>2, <1>7
  <2>4. found' = -1 => \E b \in Behind : Found(Buffer(text, b), ip) = {}
    BY <2>2, <2>3
  <2>5. found' # -1 => \E b \in Behind : found' \in Found(Buffer(text, b), ip)
    BY <2>2, <2>3
  <2>6. ShownInv'
    BY <1>1, <1>4, <1>5, <1>7, <2>1, <2>2, <2>3, <2>4, <2>5 DEF ShownInv
  <2> QED BY <1>3, <1>4, <2>6 DEF StartupInv
<1> QED BY <1>6, <1>7

\* The device and the filter.
LEMMA Opens ==
  ASSUME StartupInv, AllocatePktdump \/ pcap_open_live \/ pcap_setfilter
  PROVE  StartupInv'
<1>1. /\ pc \in {"malloc", "open", "filter"} /\ Kept /\ UNCHANGED <<stdout, detached, shown, found>>
      /\ \/ pc' \in {"open", "filter", "capture", "crashed"} /\ told' = told
         \/ pc' = "returned" /\ told' = [message |-> "errbuf", to |-> stdout]
  BY DEF AllocatePktdump, pcap_open_live, pcap_setfilter, Kept, Return
<1>2. shown # << >>
  BY <1>1 DEF StartupInv, ShownInv
<1>3. ArgsInv' /\ Started'
  BY <1>1, <1>2, KeepsArgs
<1>4. ToldInv' /\ told'.message # "set ip error"
  <2>1. CASE pc' # "returned" /\ told' = told
    BY <1>1, <2>1, KeepsSilent DEF Kept, StartupInv, ToldInv, Outlet
  <2>2. CASE pc' = "returned" /\ told' = [message |-> "errbuf", to |-> stdout]
    <3>1. "errbuf" \in Late
      BY DEF Late
    <3> QED BY <1>1, <1>3, <2>2, <3>1, SaysLate DEF Kept
  <2> QED BY <1>1, <2>1, <2>2
<1>5. ShownInv'
  BY <1>1, <1>2, <1>4 DEF StartupInv, ShownInv, Kept
<1> QED BY <1>3, <1>4, <1>5 DEF StartupInv

LEMMA StartupStep == StartupInv /\ [Next]_svars => StartupInv'
<1> SUFFICES ASSUME StartupInv, [Next]_svars PROVE StartupInv'
  OBVIOUS
<1>1. CASE Next
  BY <1>1, ReturnsEarly, ReadsOne, ReadsTwo, DiesAtEnd, Prints, Daemonizes, Checks, ChecksAddress,
     Opens DEF Next
<1>2. CASE UNCHANGED svars
  <2>1. ArgsInv'
    BY <1>2 DEF svars, StartupInv, ArgsInv, Config, Started, DiedOfOption
  <2>2. ToldInv'
    BY <1>2 DEF svars, StartupInv, ToldInv, Started, Outlet
  <2>3. ShownInv'
    BY <1>2 DEF svars, StartupInv, ShownInv
  <2> QED BY <2>1, <2>2, <2>3 DEF StartupInv
<1> QED BY <1>1, <1>2

LEMMA StartupAlways == Spec => []StartupInv
BY StartsRight, StartupStep, PTL DEF Spec

-----------------------------------------------------------------------------
\* The loop of main gives the arguments the meaning they have without it, the
\* directory ends with the last slash of argv[0], and a last -i or -a without
\* a value is all it dies of: for any arguments of any number.
THEOREM ArgumentsRead == Spec => []ArgumentsMeant
<1>1. StartupInv => ArgumentsMeant
  <2> SUFFICES ASSUME StartupInv PROVE ArgumentsMeant
    OBVIOUS
  <2>1. ASSUME pc = "config"
        PROVE  /\ Len(apppath) = 0 \/ Last(apppath) = Slash
               /\ IsPrefix(apppath, program)
               /\ \A p \in DOMAIN program : program[p] = Slash => p <= Len(apppath)
               /\ device = LastValue(argv, I) /\ ip = LastValue(argv, A)
               /\ deamon = (Options(argv, D) = {})
               /\ Options(argv, V) = {}
    <3>1. Started /\ Read(argv, i, Config) /\ argv \in Seq(String) /\ deamon \in BOOLEAN
      BY <2>1 DEF StartupInv, ArgsInv
    <3>2. /\ Config.device = LastValue(argv, I) /\ Config.ip = LastValue(argv, A)
          /\ Config.deamon <=> Options(argv, D) = {}
          /\ Options(argv, V) = {}
      BY <3>1, ReadAll DEF Started
    <3>3. deamon <=> Options(argv, D) = {}
      BY <3>2 DEF Config
    <3>4. deamon = (Options(argv, D) = {})
      BY <3>1, <3>3, Zenon
    <3>5. AppDirOf(program, apppath)
      BY <3>1 DEF Started
    <3> QED BY <3>2, <3>4, <3>5 DEF Config, AppDirOf
  <2>2. (pc = "crashed" /\ shown = << >>) =>
          argv # << >> /\ Len(argv) \in Options(argv, I) \cup Options(argv, A)
    BY DEF StartupInv, ArgsInv, DiedOfOption
  <2> QED BY <2>1, <2>2 DEF ArgumentsMeant
<1> QED BY <1>1, StartupAlways, PTL

\* The version and the complaint about no arguments reach the terminal.  All
\* later messages, and the log, reach it exactly if -d is among the options or
\* daemon() failed; otherwise they go to /dev/null.
THEOREM DetachedIsUnheard == Spec => []HeardOnlyEarlyOrForeground
<1>1. StartupInv => HeardOnlyEarlyOrForeground
  <2> SUFFICES ASSUME StartupInv PROVE HeardOnlyEarlyOrForeground
    OBVIOUS
  <2> DEFINE heard == IF Options(argv, D) = {} /\ detached # "failed" THEN "null" ELSE "terminal"
  <2>1. ASSUME pc = "capture" \/ told.message \in Late
        PROVE  Outlet = heard
    <3>1. Started /\ Read(argv, i, Config) /\ argv \in Seq(String)
      BY <2>1 DEF StartupInv, ArgsInv, ToldInv
    <3>2. Config.deamon <=> Options(argv, D) = {}
      BY <3>1, ReadAll DEF Started
    <3> QED BY <3>2 DEF Config, Outlet
  <2>2. told.message \in {"arg error", "version"} => told.to = "terminal"
    BY DEF StartupInv, ToldInv
  <2>3. told.message \in Late => told.to = heard
    BY <2>1 DEF StartupInv, ToldInv
  <2>4. pc = "capture" => stdout = heard
    BY <2>1 DEF StartupInv, ToldInv
  <2> QED BY <2>2, <2>3, <2>4 DEF HeardOnlyEarlyOrForeground, Late
<1> QED BY <1>1, StartupAlways, PTL

\* An address that ip addr shows before the end of the buffer is accepted,
\* although find_str stops one position early; one that is accepted is part
\* of what was printed, or ends in what is behind the buffer.
THEOREM AddressChecked == Spec => []AcceptsWhatIsShown
<1>1. StartupInv => AcceptsWhatIsShown
  <2> SUFFICES ASSUME StartupInv PROVE AcceptsWhatIsShown
    OBVIOUS
  <2>1. ASSUME told.message = "set ip error", shown # << >>, Last(ip) # Newline
        PROVE  ~Occurs(SubSeq(shown, 1, IF Len(shown) < BufferSize THEN Len(shown)
                                        ELSE BufferSize - 1), ip)
    <3>1. shown \in Texts /\ ip \in String /\ ip # << >>
      BY <2>1 DEF StartupInv, ShownInv, ArgsInv
    <3>2. PICK behind \in Behind : Found(Buffer(shown, behind), ip) = {}
      BY <2>1 DEF StartupInv, ShownInv
    <3> QED BY <2>1, <3>1, <3>2, RefusedIsNotShown
  <2>2. ASSUME found # -1
        PROVE  \/ Same(shown, ip, found, Len(ip))
               \/ Len(shown) >= BufferSize /\ found + Len(ip) - 1 > BufferSize
    <3>1. PICK behind \in Behind : found \in Found(Buffer(shown, behind), ip)
      BY <2>2 DEF StartupInv, ShownInv
    <3>2. shown # << >>
      BY <2>2 DEF StartupInv, ShownInv
    <3>3. shown \in Texts /\ ip \in String
      BY <3>2 DEF StartupInv, ShownInv, ArgsInv
    <3> QED BY <3>1, <3>3, FoundIsShown
  <2> QED BY <2>1, <2>2 DEF AcceptsWhatIsShown
<1> QED BY <1>1, StartupAlways, PTL
=============================================================================
