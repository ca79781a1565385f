-------------------------- MODULE ListLinksProofs --------------------------
(***************************************************************************)
(* The operations of list.c and the list that is read along Flink, for any *)
(* memory: a chain is a head and the sequence of the cells of its list,    *)
(* each linked to the next, both ways, and the last to the head.           *)
(***************************************************************************)
EXTENDS ListLinks, SequenceTheorems, FiniteSetTheorems, WellFoundedInduction, TLAPS

\* A set of natural numbers that is not empty has a least element.
LEMMA LeastOfNats ==
  ASSUME NEW T \in SUBSET Nat, T # {}
  PROVE  \E x \in T : \A y \in T : x <= y
<1>1. \E x \in T : \A y \in T : ~(<<y, x>> \in OpToRel(<, Nat))
  BY WFMin, NatLessThanWellFounded, Zenon
<1>2. \E x \in T : \A y \in T : ~(y < x)
  BY <1>1 DEF OpToRel
<1> QED BY <1>2

-----------------------------------------------------------------------------
\* Link fields of the cells of D.
LinksOn(D, Null) == [Flink : [D -> D \cup {Null}], Blink : [D -> D \cup {Null}]]

\* What ListOf reads in n steps from c, going by f for the rest.
Reads(l, h, Null, f, c, n) ==
  IF l.Flink[c] = h THEN << >>
  ELSE IF l.Flink[c] = Null \/ n = 0 THEN <<Null>>
  ELSE <<l.Flink[c]>> \o f[n - 1][l.Flink[c]]

IsReading(D, l, h, Null, f, k) ==
  f = [n \in 0..k |-> [c \in D |-> Reads(l, h, Null, f, c, n)]]

\* The function that ListOf defines by recursion exists: a least number of
\* steps for which it did not would not be zero, and one step can be added.
LEMMA ReadingExists ==
  ASSUME NEW D, NEW Null, NEW l \in LinksOn(D, Null), NEW h, NEW k \in Nat
  PROVE  \E f : IsReading(D, l, h, Null, f, k)
<1> DEFINE Missing == {m \in Nat : ~\E f : IsReading(D, l, h, Null, f, m)}
<1> SUFFICES ASSUME Missing # {} PROVE FALSE
  OBVIOUS
<1>1. PICK m \in Missing : \A y \in Missing : m <= y
  <2> HIDE DEF Missing
  <2>1. Missing \in SUBSET Nat
    BY DEF Missing
  <2> QED BY <2>1, LeastOfNats
<1>2. m \in Nat /\ ~\E f : IsReading(D, l, h, Null, f, m)
  BY <1>1
<1>3. \A c \in D : l.Flink[c] \in D \cup {Null}
  BY DEF LinksOn
<1>4. CASE m = 0
  <2> DEFINE f == [n \in 0..0 |-> [c \in D |-> Reads(l, h, Null, << >>, c, n)]]
  <2>1. \A c \in D, n \in 0..0 : Reads(l, h, Null, << >>, c, n) = Reads(l, h, Null, f, c, n)
    BY DEF Reads
  <2>2. IsReading(D, l, h, Null, f, 0)
    <3> HIDE DEF f
    <3>1. f = [n \in 0..0 |-> [c \in D |-> Reads(l, h, Null, << >>, c, n)]]
      BY DEF f
    <3> QED BY <2>1, <3>1, Zenon DEF IsReading
  <2> QED BY <1>2, <1>4, <2>2
<1>5. CASE m # 0
  <2>1. m - 1 \in Nat /\ m - 1 \notin Missing
    BY <1>1, <1>2, <1>5
  <2>2. PICK g : IsReading(D, l, h, Null, g, m - 1)
    BY <2>1
  <2> DEFINE f == [n \in 0..m |-> [c \in D |-> Reads(l, h, Null, g, c, n)]]
  <2>3. \A n \in 0..(m - 1) : g[n] = [c \in D |-> Reads(l, h, Null, g, c, n)]
    BY <2>2, Zenon DEF IsReading
  <2>4. \A n \in 0..(m - 1) : f[n] = g[n]
    BY <1>2, <2>3
  <2> HIDE DEF f
  <2>5. \A n \in 0..m : \A c \in D : Reads(l, h, Null, g, c, n) = Reads(l, h, Null, f, c, n)
    <3> SUFFICES ASSUME NEW n \in 0..m, NEW c \in D
                 PROVE  Reads(l, h, Null, g, c, n) = Reads(l, h, Null, f, c, n)
      OBVIOUS
    <3>1. CASE n = 0
      BY <3>1 DEF Reads
    <3>2. CASE n # 0
      <4>1. n - 1 \in 0..(m - 1)
        BY <1>2, <3>2
      <4>2. f[n - 1] = g[n - 1]
        BY <2>4, <4>1
      <4> QED BY <4>2 DEF Reads
    <3> QED BY <3>1, <3>2
  <2>6. IsReading(D, l, h, Null, f, m)
    <3>1. f = [n \in 0..m |-> [c \in D |-> Reads(l, h, Null, g, c, n)]]
      BY DEF f
    <3> QED BY <2>5, <3>1, Zenon DEF IsReading
  <2> QED BY <1>2, <2>6
<1> QED BY <1>4, <1>5

\* So ListOf is what it reads.
LEMMA ListOfReads ==
  ASSUME NEW D, NEW Null, NEW l \in LinksOn(D, Null), NEW h \in D, NEW k \in Nat
  PROVE  \E f : /\ ListOf(l, h, k, Null) = f[k][h]
                /\ \A n \in 0..k : \A c \in D : f[n][c] = Reads(l, h, Null, f, c, n)
<1> DEFINE f == CHOOSE g : IsReading(D, l, h, Null, g, k)
<1>1. IsReading(D, l, h, Null, f, k)
  BY ReadingExists
<1>2. ListOf(l, h, k, Null) = f[k][h]
  <2>1. DOMAIN l.Flink = D
    BY DEF LinksOn
  <2> QED BY <2>1, Zenon DEF ListOf, Reads, IsReading
<1> HIDE DEF f
<1>3. \A n \in 0..k : \A c \in D : f[n][c] = Reads(l, h, Null, f, c, n)
  <2>1. \A n \in 0..k : f[n] = [c \in D |-> Reads(l, h, Null, f, c, n)]
    BY <1>1, Zenon DEF IsReading
  <2> QED BY <2>1, Zenon
<1> QED BY <1>2, <1>3

-----------------------------------------------------------------------------
\* The cells of a ring by their place: the head is before the first entry
\* and after the last.
At(c, h, i) == IF i \in 1..Len(c) THEN c[i] ELSE h

\* Cells of D without h, none of them twice.
Chains(D, h) ==
  {c \in Seq(D \ {h}) : \A i, j \in 1..Len(c) : c[i] = c[j] => i = j}

\* c is the list of h: its neighbours know each other, and the ends the head.
Chain(l, h, c) ==
  \A i \in 0..Len(c) : /\ l.Flink[At(c, h, i)] = At(c, h, i + 1)
                       /\ l.Blink[At(c, h, i + 1)] = At(c, h, i)

LEMMA AtPlaces ==
  ASSUME NEW D, NEW h \in D, NEW c \in Chains(D, h)
  PROVE  /\ c \in Seq(D) /\ Len(c) \in Nat
         /\ \A i \in Int : At(c, h, i) \in D
         /\ \A i \in 1..Len(c) : At(c, h, i) = c[i] /\ c[i] \in D /\ c[i] # h
         /\ At(c, h, 0) = h /\ At(c, h, Len(c) + 1) = h
         /\ \A i, j \in 0..Len(c) : At(c, h, i) = At(c, h, j) => i = j
<1>1. c \in Seq(D \ {h}) /\ Len(c) \in Nat
  BY DEF Chains
<1>2. \A i \in 1..Len(c) : c[i] \in D /\ c[i] # h
  BY <1>1
<1>3. \A i, j \in 1..Len(c) : c[i] = c[j] => i = j
  BY DEF Chains
<1> QED BY <1>1, <1>2, <1>3 DEF At

\* The last j cells of a chain.
LastOnes(c, j) == [i \in 1..j |-> c[Len(c) - j + i]]

LEMMA LastOnesStep ==
  ASSUME NEW D, NEW c \in Seq(D)
  PROVE  /\ LastOnes(c, 0) = << >> /\ LastOnes(c, Len(c)) = c
         /\ \A j \in 1..Len(c) : LastOnes(c, j) = <<c[Len(c) - j + 1]>> \o LastOnes(c, j - 1)
<1>0. Len(c) \in Nat
  OBVIOUS
<1>1. \A j \in 0..Len(c) : LastOnes(c, j) \in Seq(D) /\ Len(LastOnes(c, j)) = j
  <2> TAKE j \in 0..Len(c)
  <2>1. LastOnes(c, j) \in [1..j -> D]
    BY <1>0 DEF LastOnes
  <2> QED BY <1>0, <2>1
<1>2. LastOnes(c, 0) = << >>
  BY DEF LastOnes
<1>3. LastOnes(c, Len(c)) = c
  <2>1. \A i \in 1..Len(c) : LastOnes(c, Len(c))[i] = c[i]
    BY <1>0 DEF LastOnes
  <2> QED BY <1>0, <1>1, <2>1, SeqEqual
<1>4. ASSUME NEW j \in 1..Len(c)
      PROVE  LastOnes(c, j) = <<c[Len(c) - j + 1]>> \o LastOnes(c, j - 1)
  <2> DEFINE x == c[Len(c) - j + 1]
             t == LastOnes(c, j - 1)
  <2>1. j \in 0..Len(c) /\ j - 1 \in 0..Len(c) /\ Len(c) - j + 1 \in 1..Len(c)
    BY <1>0
  <2>2. x \in D /\ t \in Seq(D) /\ Len(t) = j - 1
    BY <1>1, <2>1
  <2>3. \A i \in 1..j : LastOnes(c, j)[i] = c[Len(c) - j + i]
    BY <1>0 DEF LastOnes
  <2>4. \A i \in 1..(j - 1) : t[i] = c[Len(c) - j + i + 1]
    <3> TAKE i \in 1..(j - 1)
    <3>1. t[i] = c[Len(c) - (j - 1) + i]
      BY <1>0 DEF LastOnes
    <3>2. Len(c) - (j - 1) + i = Len(c) - j + i + 1
      BY <1>0
    <3> QED BY <3>1, <3>2
  <2> HIDE DEF x, t
  <2>5. /\ <<x>> \o t \in Seq(D) /\ Len(<<x>> \o t) = j
        /\ (<<x>> \o t)[1] = x
        /\ \A i \in 2..j : (<<x>> \o t)[i] = t[i - 1]
    BY <2>1, <2>2
  <2>6. \A i \in 1..j : (<<x>> \o t)[i] = c[Len(c) - j + i]
    <3> TAKE i \in 1..j
    <3>1. CASE i = 1
      BY <3>1, <2>5 DEF x
    <3>2. CASE i # 1
      <4>1. i \in 2..j /\ i - 1 \in 1..(j - 1) /\ Len(c) - j + (i - 1) + 1 = Len(c) - j + i
        BY <3>2, <1>0
      <4> QED BY <4>1, <2>4, <2>5
    <3> QED BY <3>1, <3>2
  <2>7. LastOnes(c, j) = <<x>> \o t
    BY <1>1, <2>1, <2>3, <2>5, <2>6, SeqEqual
  <2> QED BY <2>7 DEF x, t
<1> QED BY <1>2, <1>3, <1>4

\* What is read along Flink is the chain: a least part of it, from its end,
\* that were not read would not be empty, and one cell is read in one step.
LEMMA ListIsChain ==
  ASSUME NEW D, NEW Null, Null \notin D, NEW l \in LinksOn(D, Null), NEW h \in D,
         NEW c \in Chains(D, h), Chain(l, h, c), NEW k \in Nat, Len(c) <= k
  PROVE  ListOf(l, h, k, Null) = c
<1> DEFINE m == Len(c)
<1>0. c \in Seq(D) /\ m \in Nat /\ m <= k
  BY AtPlaces
<1>1. PICK f : /\ ListOf(l, h, k, Null) = f[k][h]
               /\ \A n \in 0..k : \A x \in D : f[n][x] = Reads(l, h, Null, f, x, n)
  BY ListOfReads
<1> DEFINE Unread == {j \in Nat : j <= m /\ f[k - m + j][At(c, h, m - j)] # LastOnes(c, j)}
<1>2. Unread = {}
  <2> SUFFICES ASSUME Unread # {} PROVE FALSE
    OBVIOUS
  <2>1. PICK j \in Unread : \A y \in Unread : j <= y
    <3> HIDE DEF Unread
    <3>1. Unread \in SUBSET Nat
      BY DEF Unread
    <3> QED BY <3>1, LeastOfNats
  <2> DEFINE x == At(c, h, m - j)
             next == At(c, h, m - j + 1)
             n == k - m + j
  <2>2. j \in Nat /\ j <= m /\ f[n][x] # LastOnes(c, j) /\ n \in 0..k /\ m - j \in 0..m
    BY <2>1, <1>0
  <2>3. x \in D /\ next \in D /\ l.Flink[x] = next
    BY <2>2, <1>0, AtPlaces DEF Chain
  <2>4. f[n][x] = IF next = h THEN << >>
                  ELSE IF next = Null \/ n = 0 THEN <<Null>>
                  ELSE <<next>> \o f[n - 1][next]
    BY <1>1, <2>2, <2>3 DEF Reads
  <2>5. CASE j = 0
    <3>1. next = h
      BY <2>2, <2>5, <1>0, AtPlaces
    <3> QED BY <2>2, <2>4, <2>5, <3>1, <1>0, LastOnesStep
  <2>6. CASE j # 0
    <3>1. j - 1 \in Nat /\ j - 1 < j /\ j \in 1..m /\ m - j + 1 \in 1..m /\ n # 0
      BY <2>2, <2>6, <1>0
    <3>2. n - 1 = k - m + (j - 1) /\ m - j + 1 = m - (j - 1)
      BY <2>2, <1>0
    <3>3. f[n - 1][next] = LastOnes(c, j - 1)
      <4>1. j - 1 \notin Unread
        <5> HIDE DEF Unread
        <5> QED BY <2>1, <2>2, <3>1
      <4> QED BY <2>2, <4>1, <3>1, <3>2, <1>0
    <3>4. next = c[m - j + 1] /\ next # h /\ next # Null
      BY <3>1, <2>3, AtPlaces
    <3>5. f[n][x] = <<next>> \o LastOnes(c, j - 1)
      BY <2>4, <3>1, <3>3, <3>4
    <3> QED BY <1>0, <2>2, <3>1, <3>4, <3>5, LastOnesStep
  <2> QED BY <2>5, <2>6
<1>3. f[k][h] = LastOnes(c, m)
  <2>1. m \notin Unread
    BY <1>2
  <2>2. k - m + m = k /\ At(c, h, m - m) = h
    BY <1>0, AtPlaces
  <2> QED BY <1>0, <2>1, <2>2
<1> QED BY <1>0, <1>1, <1>3, LastOnesStep


-----------------------------------------------------------------------------
\* No cell is in a chain twice, so it is no longer than there are cells.
LEMMA ChainIsShort ==
  ASSUME NEW D, NEW h, NEW c \in Chains(D, h), NEW S, IsFiniteSet(S),
         \A i \in 1..Len(c) : c[i] \in S
  PROVE  Len(c) <= Cardinality(S) /\ Cardinality(S) \in Nat
<1>1. Len(c) \in Nat /\ \A i, j \in 1..Len(c) : c[i] = c[j] => i = j
  BY DEF Chains
<1> DEFINE f == [i \in 1..Len(c) |-> c[i]]
<1>2. f \in Injection(1..Len(c), S)
  BY <1>1 DEF Injection, IsInjective
<1> HIDE DEF f
<1>3. Cardinality(1..Len(c)) = Len(c)
  <2>1. 1 \in Int /\ Len(c) \in Int /\ Len(c) >= 0
    BY <1>1
  <2>2. Cardinality(1..Len(c)) = IF 1 > Len(c) THEN 0 ELSE Len(c) - 1 + 1
    BY <2>1, FS_Interval
  <2> QED BY <2>1, <2>2
<1>4. Cardinality(1..Len(c)) <= Cardinality(S)
  BY <1>2, FS_Injection
<1> QED BY <1>3, <1>4, FS_CardinalityType

\* A chain none of whose links is written is a chain still.
LEMMA ChainKept ==
  ASSUME NEW D, NEW h \in D, NEW c \in Chains(D, h), NEW l, NEW l2, Chain(l, h, c),
         \A i \in 0..Len(c) : /\ l2.Flink[At(c, h, i)] = l.Flink[At(c, h, i)]
                              /\ l2.Blink[At(c, h, i)] = l.Blink[At(c, h, i)]
  PROVE  Chain(l2, h, c)
<1> SUFFICES ASSUME NEW i \in 0..Len(c)
             PROVE  /\ l2.Flink[At(c, h, i)] = At(c, h, i + 1)
                    /\ l2.Blink[At(c, h, i + 1)] = At(c, h, i)
  BY DEF Chain
<1>1. /\ l.Flink[At(c, h, i)] = At(c, h, i + 1)
      /\ l.Blink[At(c, h, i + 1)] = At(c, h, i)
  BY DEF Chain
<1>2. CASE i < Len(c)
  <2>1. i + 1 \in 0..Len(c)
    BY <1>2, AtPlaces
  <2> QED BY <1>1, <2>1
<1>3. CASE i = Len(c)
  <2>1. At(c, h, i + 1) = At(c, h, 0) /\ 0 \in 0..Len(c)
    BY <1>3, AtPlaces
  <2> QED BY <1>1, <2>1
<1> QED BY <1>2, <1>3, AtPlaces

\* A cell that is put into a chain after its i-th, and taken out.
Put(c, i, e) ==
  [j \in 1..(Len(c) + 1) |-> IF j <= i THEN c[j] ELSE IF j = i + 1 THEN e ELSE c[j - 1]]
Without(c, i) == [j \in 1..(Len(c) - 1) |-> IF j < i THEN c[j] ELSE c[j + 1]]

LEMMA PutPlaces ==
  ASSUME NEW D, NEW h \in D, NEW c \in Chains(D, h), NEW e \in D \ {h},
         \A j \in 1..Len(c) : c[j] # e, NEW i \in 0..Len(c)
  PROVE  /\ Put(c, i, e) \in Chains(D, h) /\ Len(Put(c, i, e)) = Len(c) + 1
         /\ \A j \in 0..i : At(Put(c, i, e), h, j) = At(c, h, j)
         /\ At(Put(c, i, e), h, i + 1) = e
         /\ \A j \in (i + 2)..(Len(c) + 2) : At(Put(c, i, e), h, j) = At(c, h, j - 1)
<1> DEFINE p == Put(c, i, e)
           m == Len(c)
<1>0. m \in Nat /\ i \in 0..m
  BY AtPlaces
<1>1. \A j \in 1..m : c[j] \in D \ {h}
  BY AtPlaces
<1>2. p \in [1..(m + 1) -> D \ {h}]
  <2> SUFFICES ASSUME NEW j \in 1..(m + 1)
               PROVE  (IF j <= i THEN c[j] ELSE IF j = i + 1 THEN e ELSE c[j - 1]) \in D \ {h}
    BY DEF Put
  <2>1. j <= i => j \in 1..m
    BY <1>0
  <2>2. ~(j <= i) /\ j # i + 1 => j - 1 \in 1..m
    BY <1>0
  <2> QED BY <1>1, <2>1, <2>2
<1>3. p \in Seq(D \ {h}) /\ Len(p) = m + 1
  BY <1>0, <1>2
<1>4. \A j \in 1..(m + 1) :
        p[j] = IF j <= i THEN c[j] ELSE IF j = i + 1 THEN e ELSE c[j - 1]
  BY <1>0 DEF Put
<1> HIDE DEF p
<1>5. \A j, k \in 1..(m + 1) : p[j] = p[k] => j = k
  <2> SUFFICES ASSUME NEW j \in 1..(m + 1), NEW k \in 1..(m + 1), p[j] = p[k]
               PROVE  j = k
    OBVIOUS
  <2> DEFINE o(x) == IF x <= i THEN x ELSE x - 1
  <2>1. \A x \in 1..(m + 1) : x # i + 1 => o(x) \in 1..m /\ p[x] = c[o(x)]
    BY <1>0, <1>4
  <2>2. p[i + 1] = e
    BY <1>0, <1>4
  <2>3. CASE j = i + 1 \/ k = i + 1
    BY <2>1, <2>2, <2>3
  <2>4. CASE j # i + 1 /\ k # i + 1
    <3>1. o(j) = o(k)
      <4> HIDE DEF o
      <4> QED BY <2>1, <2>4 DEF Chains
    <3> QED BY <1>0, <2>4, <3>1
  <2> QED BY <2>3, <2>4
<1>6. p \in Chains(D, h)
  BY <1>3, <1>5 DEF Chains
<1>7. \A j \in 0..i : At(p, h, j) = At(c, h, j)
  BY <1>0, <1>3, <1>4 DEF At
<1>8. At(p, h, i + 1) = e
  BY <1>0, <1>3, <1>4 DEF At
<1>9. \A j \in (i + 2)..(m + 2) : At(p, h, j) = At(c, h, j - 1)
  BY <1>0, <1>3, <1>4 DEF At
<1> QED BY <1>3, <1>6, <1>7, <1>8, <1>9 DEF p

\* e between two neighbours.
LEMMA ChainPut ==
  ASSUME NEW D, NEW h \in D, NEW c \in Chains(D, h), NEW e \in D \ {h},
         \A j \in 1..Len(c) : c[j] # e, NEW i \in 0..Len(c),
         NEW l, NEW l2, Chain(l, h, c),
         l2.Flink[e] = At(c, h, i + 1), l2.Blink[e] = At(c, h, i),
         \A x \in D \ {e} :
           /\ l2.Flink[x] = IF x = At(c, h, i) THEN e ELSE l.Flink[x]
           /\ l2.Blink[x] = IF x = At(c, h, i + 1) THEN e ELSE l.Blink[x]
  PROVE  Chain(l2, h, Put(c, i, e))
<1> DEFINE p == Put(c, i, e)
           m == Len(c)
<1>0. m \in Nat /\ i \in 0..m /\ Len(p) = m + 1
  <2>1. Len(p) = m + 1
    BY PutPlaces
  <2> QED BY <2>1, AtPlaces
<1>1. /\ \A j \in 0..i : At(p, h, j) = At(c, h, j)
      /\ At(p, h, i + 1) = e
      /\ \A j \in (i + 2)..(m + 2) : At(p, h, j) = At(c, h, j - 1)
  BY PutPlaces
<1>2. \A j \in 0..(m + 1) : At(c, h, j) \in D \ {e}
  BY AtPlaces DEF At
<1>3. \A j, k \in 0..m : At(c, h, j) = At(c, h, k) => j = k
  BY AtPlaces
<1>4. At(c, h, m + 1) = At(c, h, 0)
  BY AtPlaces
<1>5. \A j \in 0..m : l.Flink[At(c, h, j)] = At(c, h, j + 1) /\ l.Blink[At(c, h, j + 1)] = At(c, h, j)
  BY DEF Chain
<1> HIDE DEF p
<1> SUFFICES ASSUME NEW j \in 0..(m + 1)
             PROVE  l2.Flink[At(p, h, j)] = At(p, h, j + 1) /\ l2.Blink[At(p, h, j + 1)] = At(p, h, j)
  BY <1>0 DEF Chain, p
<1>6. CASE j < i
  <2>1. At(p, h, j) = At(c, h, j) /\ At(p, h, j + 1) = At(c, h, j + 1)
    BY <1>0, <1>1, <1>6
  <2>2. At(c, h, j) # At(c, h, i)
    BY <1>0, <1>3, <1>6
  <2>3. At(c, h, j + 1) # At(c, h, i + 1)
    <3>1. CASE i = m
      <4>1. j + 1 # 0 /\ j + 1 \in 0..m /\ 0 \in 0..m
        BY <1>0, <1>6
      <4> QED BY <4>1, <1>3, <1>4, <3>1
    <3>2. CASE i # m
      <4>1. j + 1 \in 0..m /\ i + 1 \in 0..m /\ j + 1 # i + 1
        BY <1>0, <1>6, <3>2
      <4> QED BY <4>1, <1>3
    <3> QED BY <3>1, <3>2
  <2>4. j \in 0..m /\ j + 1 \in 0..(m + 1)
    BY <1>0, <1>6
  <2> QED BY <1>2, <1>5, <2>1, <2>2, <2>3, <2>4
<1>7. CASE j = i
  <2>1. At(p, h, j) = At(c, h, i) /\ At(p, h, j + 1) = e
    BY <1>0, <1>1, <1>7
  <2>2. At(c, h, i) \in D \ {e}
    BY <1>0, <1>2
  <2> QED BY <2>1, <2>2
<1>8. CASE j = i + 1
  <2>1. At(p, h, j) = e /\ At(p, h, j + 1) = At(c, h, i + 1)
    <3>1. j + 1 \in (i + 2)..(m + 2) /\ j + 1 - 1 = i + 1
      BY <1>0, <1>8
    <3> QED BY <1>1, <1>8, <3>1
  <2>2. At(c, h, i + 1) \in D \ {e}
    BY <1>0, <1>2
  <2> QED BY <2>1, <2>2
<1>9. CASE j > i + 1
  <2> DEFINE k == j - 1
  <2>1. k \in 0..m /\ i < k /\ j \in (i + 2)..(m + 2) /\ j + 1 \in (i + 2)..(m + 2) /\ j + 1 - 1 = k + 1
    BY <1>0, <1>9
  <2>2. At(p, h, j) = At(c, h, k) /\ At(p, h, j + 1) = At(c, h, k + 1)
    BY <1>1, <2>1
  <2> HIDE DEF k
  <2>3. At(c, h, k) # At(c, h, i)
    BY <1>0, <1>3, <2>1
  <2>4. At(c, h, k + 1) # At(c, h, i + 1)
    <3>1. CASE k = m
      <4>1. i + 1 # 0 /\ i + 1 \in 0..m /\ 0 \in 0..m
        BY <1>0, <2>1
      <4> QED BY <4>1, <1>3, <1>4, <3>1
    <3>2. CASE k # m
      <4>1. k + 1 \in 0..m /\ i + 1 \in 0..m /\ k + 1 # i + 1
        BY <1>0, <2>1, <3>2
      <4> QED BY <4>1, <1>3
    <3> QED BY <3>1, <3>2
  <2>5. k + 1 \in 0..(m + 1)
    BY <1>0, <2>1
  <2>6. /\ l.Flink[At(c, h, k)] = At(c, h, k + 1) /\ l.Blink[At(c, h, k + 1)] = At(c, h, k)
        /\ At(c, h, k) \in D \ {e} /\ At(c, h, k + 1) \in D \ {e}
    <3>1. k \in 0..m /\ k \in 0..(m + 1)
      BY <1>0, <2>1
    <3> QED BY <1>2, <1>5, <2>5, <3>1
  <2> QED BY <2>2, <2>3, <2>4, <2>6
<1> QED BY <1>0, <1>6, <1>7, <1>8, <1>9


LEMMA WithoutPlaces ==
  ASSUME NEW D, NEW h \in D, NEW c \in Chains(D, h), NEW i \in 1..Len(c)
  PROVE  /\ Without(c, i) \in Chains(D, h) /\ Len(Without(c, i)) = Len(c) - 1
         /\ \A j \in 0..(i - 1) : At(Without(c, i), h, j) = At(c, h, j)
         /\ \A j \in i..Len(c) : At(Without(c, i), h, j) = At(c, h, j + 1)
<1> DEFINE p == Without(c, i)
           m == Len(c)
<1>0. m \in Nat /\ i \in 1..m
  BY AtPlaces
<1>1. \A j \in 1..m : c[j] \in D \ {h}
  BY AtPlaces
<1>2. p \in [1..(m - 1) -> D \ {h}]
  <2> SUFFICES ASSUME NEW j \in 1..(m - 1)
               PROVE  (IF j < i THEN c[j] ELSE c[j + 1]) \in D \ {h}
    BY DEF Without
  <2>1. j \in 1..m /\ j + 1 \in 1..m
    BY <1>0
  <2> QED BY <1>1, <2>1
<1>3. p \in Seq(D \ {h}) /\ Len(p) = m - 1
  BY <1>0, <1>2
<1>4. \A j \in 1..(m - 1) : p[j] = IF j < i THEN c[j] ELSE c[j + 1]
  BY <1>0 DEF Without
<1> HIDE DEF p
<1>5. \A j, k \in 1..(m - 1) : p[j] = p[k] => j = k
  <2> SUFFICES ASSUME NEW j \in 1..(m - 1), NEW k \in 1..(m - 1), p[j] = p[k]
               PROVE  j = k
    OBVIOUS
  <2> DEFINE o(x) == IF x < i THEN x ELSE x + 1
  <2>1. \A x \in 1..(m - 1) : o(x) \in 1..m /\ p[x] = c[o(x)]
    BY <1>0, <1>4
  <2>2. o(j) = o(k)
    <3> HIDE DEF o
    <3> QED BY <2>1 DEF Chains
  <2> QED BY <1>0, <2>2
<1>6. p \in Chains(D, h)
  BY <1>3, <1>5 DEF Chains
<1>7. \A j \in 0..(i - 1) : At(p, h, j) = At(c, h, j)
  BY <1>0, <1>3, <1>4 DEF At
<1>8. \A j \in i..m : At(p, h, j) = At(c, h, j + 1)
  BY <1>0, <1>3, <1>4 DEF At
<1> QED BY <1>3, <1>6, <1>7, <1>8 DEF p

\* The i-th cell leaves its neighbours, whatever becomes of its own links.
LEMMA ChainWithout ==
  ASSUME NEW D, NEW h \in D, NEW c \in Chains(D, h), NEW i \in 1..Len(c),
         NEW l, NEW l2, Chain(l, h, c),
         \A x \in D \ {c[i]} :
           /\ l2.Flink[x] = IF x = At(c, h, i - 1) THEN At(c, h, i + 1) ELSE l.Flink[x]
           /\ l2.Blink[x] = IF x = At(c, h, i + 1) THEN At(c, h, i - 1) ELSE l.Blink[x]
  PROVE  Chain(l2, h, Without(c, i))
<1> DEFINE p == Without(c, i)
           m == Len(c)
           e == c[i]
<1>0. m \in Nat /\ i \in 1..m /\ Len(p) = m - 1
  BY AtPlaces, WithoutPlaces
<1>1. /\ \A j \in 0..(i - 1) : At(p, h, j) = At(c, h, j)
      /\ \A j \in i..m : At(p, h, j) = At(c, h, j + 1)
  BY WithoutPlaces
<1>2. \A j, k \in 0..m : At(c, h, j) = At(c, h, k) => j = k
  BY AtPlaces
<1>3. At(c, h, m + 1) = At(c, h, 0) /\ At(c, h, i) = e
  BY AtPlaces
<1>4. \A j \in 0..(m + 1) : j # i => At(c, h, j) \in D \ {e}
  <2> TAKE j \in 0..(m + 1)
  <2>1. At(c, h, j) \in D
    BY <1>0, AtPlaces
  <2>2. j \in 0..m /\ j # i => At(c, h, j) # e
    BY <1>0, <1>2, <1>3
  <2>3. j = m + 1 => At(c, h, j) # e
    BY <1>0, <1>2, <1>3
  <2> QED BY <1>0, <2>1, <2>2, <2>3
<1>5. \A j \in 0..m : l.Flink[At(c, h, j)] = At(c, h, j + 1) /\ l.Blink[At(c, h, j + 1)] = At(c, h, j)
  BY DEF Chain
<1> HIDE DEF p, e
<1> SUFFICES ASSUME NEW j \in 0..(m - 1)
             PROVE  l2.Flink[At(p, h, j)] = At(p, h, j + 1) /\ l2.Blink[At(p, h, j + 1)] = At(p, h, j)
  BY <1>0 DEF Chain, p
<1>6. CASE j < i - 1
  <2>1. At(p, h, j) = At(c, h, j) /\ At(p, h, j + 1) = At(c, h, j + 1)
    BY <1>0, <1>1, <1>6
  <2>2. At(c, h, j) # At(c, h, i - 1)
    BY <1>0, <1>2, <1>6
  <2>3. At(c, h, j + 1) # At(c, h, i + 1)
    <3>1. CASE i = m
      <4>1. j + 1 # 0 /\ j + 1 \in 0..m /\ 0 \in 0..m
        BY <1>0, <1>6
      <4> QED BY <4>1, <1>2, <1>3, <3>1
    <3>2. CASE i # m
      <4>1. j + 1 \in 0..m /\ i + 1 \in 0..m /\ j + 1 # i + 1
        BY <1>0, <1>6, <3>2
      <4> QED BY <4>1, <1>2
    <3> QED BY <3>1, <3>2
  <2>4. j \in 0..m /\ j + 1 \in 0..(m + 1) /\ j # i /\ j + 1 # i
    BY <1>0, <1>6
  <2>5. At(c, h, j) \in D \ {e} /\ At(c, h, j + 1) \in D \ {e}
    BY <1>0, <1>4, <2>4
  <2> QED BY <1>5, <2>1, <2>2, <2>3, <2>4, <2>5 DEF e
<1>7. CASE j = i - 1
  <2>1. At(p, h, j) = At(c, h, i - 1) /\ At(p, h, j + 1) = At(c, h, i + 1)
    <3>1. j + 1 = i /\ i \in i..m /\ i - 1 \in 0..(i - 1)
      BY <1>0, <1>7
    <3> QED BY <1>1, <1>7, <3>1
  <2>2. At(c, h, i - 1) \in D \ {e} /\ At(c, h, i + 1) \in D \ {e}
    <3>1. i - 1 \in 0..(m + 1) /\ i + 1 \in 0..(m + 1) /\ i - 1 # i /\ i + 1 # i
      BY <1>0
    <3> QED BY <3>1, <1>4
  <2> QED BY <2>1, <2>2 DEF e
<1>8. CASE j > i - 1
  <2> DEFINE k == j + 1
  <2>1. k \in 0..m /\ i < k /\ j \in i..m /\ j + 1 \in i..m /\ k + 1 \in 0..(m + 1)
    BY <1>0, <1>8
  <2>2. At(p, h, j) = At(c, h, k) /\ At(p, h, j + 1) = At(c, h, k + 1)
    BY <1>1, <2>1
  <2> HIDE DEF k
  <2>3. At(c, h, k) # At(c, h, i - 1)
    <3>1. i - 1 \in 0..m /\ k # i - 1
      BY <1>0, <2>1
    <3> QED BY <1>2, <2>1, <3>1
  <2>4. At(c, h, k + 1) # At(c, h, i + 1)
    <3>1. CASE k = m
      <4>1. i + 1 # 0 /\ i + 1 \in 0..m /\ 0 \in 0..m
        BY <1>0, <2>1
      <4> QED BY <4>1, <1>2, <1>3, <3>1
    <3>2. CASE k # m
      <4>1. k + 1 \in 0..m /\ i + 1 \in 0..m /\ k + 1 # i + 1
        BY <1>0, <2>1, <3>2
      <4> QED BY <4>1, <1>2
    <3> QED BY <3>1, <3>2
  <2>5. At(c, h, k) \in D \ {e} /\ At(c, h, k + 1) \in D \ {e}
    <3>1. k # i /\ k + 1 # i /\ k \in 0..(m + 1)
      BY <1>0, <2>1
    <3> QED BY <3>1, <1>4, <2>1
  <2> QED BY <1>5, <2>1, <2>2, <2>3, <2>4, <2>5 DEF e
<1> QED BY <1>0, <1>6, <1>7, <1>8


-----------------------------------------------------------------------------
\* Nothing is written but the links of the cells of S.
Only(D, l, l2, S) ==
  \A x \in D \ S : l2.Flink[x] = l.Flink[x] /\ l2.Blink[x] = l.Blink[x]

\* The cells of a list, its head one of them.
Ring(h, c) == {h} \cup {c[i] : i \in 1..Len(c)}

LEMMA PutCells ==
  ASSUME NEW D, NEW h \in D, NEW c \in Chains(D, h), NEW e \in D \ {h},
         \A j \in 1..Len(c) : c[j] # e, NEW i \in 0..Len(c)
  PROVE  Ring(h, Put(c, i, e)) = Ring(h, c) \cup {e}
<1>1. Len(c) \in Nat /\ Len(Put(c, i, e)) = Len(c) + 1
  BY AtPlaces, PutPlaces
<1>2. \A j \in 1..(Len(c) + 1) :
        Put(c, i, e)[j] = IF j <= i THEN c[j] ELSE IF j = i + 1 THEN e ELSE c[j - 1]
  BY <1>1 DEF Put
<1>3. ASSUME NEW x \in Ring(h, Put(c, i, e))
      PROVE  x \in Ring(h, c) \cup {e}
  <2>1. CASE x = h
    BY <2>1 DEF Ring
  <2>2. CASE \E j \in 1..(Len(c) + 1) : x = Put(c, i, e)[j]
    <3>1. PICK j \in 1..(Len(c) + 1) : x = Put(c, i, e)[j]
      BY <2>2
    <3>2. j <= i => j \in 1..Len(c)
      BY <1>1
    <3>3. ~(j <= i) /\ j # i + 1 => j - 1 \in 1..Len(c)
      BY <1>1
    <3> QED BY <1>2, <3>1, <3>2, <3>3 DEF Ring
  <2> QED BY <1>1, <2>1, <2>2 DEF Ring
<1>4. ASSUME NEW x \in Ring(h, c) \cup {e}
      PROVE  x \in Ring(h, Put(c, i, e))
  <2>1. CASE x = h
    BY <2>1 DEF Ring
  <2>2. CASE x = e
    <3>1. i + 1 \in 1..(Len(c) + 1) /\ Put(c, i, e)[i + 1] = e
      BY <1>1, <1>2
    <3> QED BY <1>1, <2>2, <3>1 DEF Ring
  <2>3. CASE \E j \in 1..Len(c) : x = c[j]
    <3>1. PICK j \in 1..Len(c) : x = c[j]
      BY <2>3
    <3>2. j <= i => j \in 1..(Len(c) + 1) /\ Put(c, i, e)[j] = x
      BY <1>1, <1>2, <3>1
    <3>3. ~(j <= i) => j + 1 \in 1..(Len(c) + 1) /\ Put(c, i, e)[j + 1] = x
      BY <1>1, <1>2, <3>1
    <3> QED BY <1>1, <3>2, <3>3 DEF Ring
  <2> QED BY <2>1, <2>2, <2>3 DEF Ring
<1> QED BY <1>3, <1>4

LEMMA WithoutCells ==
  ASSUME NEW D, NEW h \in D, NEW c \in Chains(D, h), NEW i \in 1..Len(c)
  PROVE  Ring(h, Without(c, i)) = Ring(h, c) \ {c[i]}
<1>1. Len(c) \in Nat /\ Len(Without(c, i)) = Len(c) - 1 /\ c[i] # h
  BY AtPlaces, WithoutPlaces
<1>2. \A j \in 1..(Len(c) - 1) : Without(c, i)[j] = IF j < i THEN c[j] ELSE c[j + 1]
  BY <1>1 DEF Without
<1>3. \A j \in 1..Len(c) : c[j] = c[i] => j = i
  BY DEF Chains
<1>4. ASSUME NEW x \in Ring(h, Without(c, i))
      PROVE  x \in Ring(h, c) \ {c[i]}
  <2>1. CASE x = h
    BY <1>1, <2>1 DEF Ring
  <2>2. CASE \E j \in 1..(Len(c) - 1) : x = Without(c, i)[j]
    <3>1. PICK j \in 1..(Len(c) - 1) : x = Without(c, i)[j]
      BY <2>2
    <3>2. j \in 1..Len(c) /\ j + 1 \in 1..Len(c) /\ (j < i => j # i) /\ (~(j < i) => j + 1 # i)
      BY <1>1
    <3> QED BY <1>2, <1>3, <3>1, <3>2 DEF Ring
  <2> QED BY <1>1, <2>1, <2>2 DEF Ring
<1>5. ASSUME NEW x \in Ring(h, c) \ {c[i]}
      PROVE  x \in Ring(h, Without(c, i))
  <2>1. CASE x = h
    BY <2>1 DEF Ring
  <2>2. CASE \E j \in 1..Len(c) : x = c[j]
    <3>1. PICK j \in 1..Len(c) : x = c[j] /\ j # i
      BY <2>2
    <3>2. j < i => j \in 1..(Len(c) - 1) /\ Without(c, i)[j] = x
      BY <1>1, <1>2, <3>1
    <3>3. ~(j < i) => j - 1 \in 1..(Len(c) - 1) /\ Without(c, i)[j - 1] = x
      BY <1>1, <1>2, <3>1
    <3> QED BY <1>1, <3>1, <3>2, <3>3 DEF Ring
  <2> QED BY <2>1, <2>2 DEF Ring
<1> QED BY <1>4, <1>5

\* The links of a ring lead nowhere else, and a list is empty when its head
\* is its own neighbour.
LEMMA RingNeighbours ==
  ASSUME NEW D, NEW h \in D, NEW c \in Chains(D, h), NEW l, Chain(l, h, c)
  PROVE  /\ \A x \in Ring(h, c) : l.Flink[x] \in Ring(h, c) /\ l.Blink[x] \in Ring(h, c)
         /\ \A x \in Ring(h, c) : l.Blink[l.Flink[x]] = x /\ l.Flink[l.Blink[x]] = x
         /\ IsListEmpty(l, h) <=> Len(c) = 0
         /\ l.Flink[h] = At(c, h, 1) /\ l.Blink[h] = At(c, h, Len(c))
         /\ \A i \in 1..Len(c) : /\ l.Flink[c[i]] = At(c, h, i + 1)
                                 /\ l.Blink[c[i]] = At(c, h, i - 1)
<1> DEFINE m == Len(c)
<1>0. m \in Nat /\ \A i \in 1..m : At(c, h, i) = c[i] /\ c[i] # h
  BY AtPlaces
<1>1. At(c, h, 0) = h /\ At(c, h, m + 1) = h
  BY AtPlaces
<1>2. \A i \in 0..m : l.Flink[At(c, h, i)] = At(c, h, i + 1) /\ l.Blink[At(c, h, i + 1)] = At(c, h, i)
  BY DEF Chain
<1>3. \A i \in 0..(m + 1) : At(c, h, i) \in Ring(h, c)
  <2> TAKE i \in 0..(m + 1)
  <2>1. CASE i \in 1..m
    BY <1>0, <2>1 DEF Ring
  <2>2. CASE i = 0 \/ i = m + 1
    BY <1>1, <2>2 DEF Ring
  <2> QED BY <1>0, <2>1, <2>2
<1>4. \A x \in Ring(h, c) : \E i \in 0..m : x = At(c, h, i)
  BY <1>0, <1>1 DEF Ring
<1>5. \A x \in Ring(h, c) : \E i \in 0..m : x = At(c, h, i + 1)
  <2> TAKE x \in Ring(h, c)
  <2>1. CASE x = h
    BY <1>0, <1>1, <2>1
  <2>2. CASE \E i \in 1..m : x = c[i]
    <3>1. PICK i \in 1..m : x = c[i]
      BY <2>2
    <3>2. i - 1 \in 0..m /\ i - 1 + 1 = i
      BY <1>0
    <3> QED BY <1>0, <3>1, <3>2
  <2> QED BY <2>1, <2>2 DEF Ring
<1>6. \A i \in 0..m : i \in 0..(m + 1) /\ i + 1 \in 0..(m + 1)
  BY <1>0
<1>7. ASSUME NEW x \in Ring(h, c)
      PROVE  l.Flink[x] \in Ring(h, c) /\ l.Blink[l.Flink[x]] = x
  BY <1>2, <1>3, <1>4, <1>6
<1>8. ASSUME NEW x \in Ring(h, c)
      PROVE  l.Blink[x] \in Ring(h, c) /\ l.Flink[l.Blink[x]] = x
  BY <1>2, <1>3, <1>5, <1>6
<1>9. l.Flink[h] = At(c, h, 1) /\ l.Blink[h] = At(c, h, m)
  <2>1. 0 \in 0..m /\ m \in 0..m /\ 0 + 1 = 1
    BY <1>0
  <2> QED BY <2>1, <1>1, <1>2
<1>10. IsListEmpty(l, h) <=> m = 0
  <2>1. m = 0 => At(c, h, 1) = h
    BY <1>1
  <2>2. m # 0 => At(c, h, 1) # h
    BY <1>0
  <2> QED BY <1>9, <2>1, <2>2 DEF IsListEmpty
<1>11. \A i \in 1..m : l.Flink[c[i]] = At(c, h, i + 1) /\ l.Blink[c[i]] = At(c, h, i - 1)
  <2> TAKE i \in 1..m
  <2>1. i \in 0..m /\ i - 1 \in 0..m /\ i - 1 + 1 = i
    BY <1>0
  <2> QED BY <1>0, <1>2, <2>1
<1> QED BY <1>7, <1>8, <1>9, <1>10, <1>11


-----------------------------------------------------------------------------
\* The operations of list.c, each on the list of a head and on no other cell.
\* e is in no list that h's is one of: not in h's.
Apart(D, h, c, e) == e \in D \ {h} /\ \A j \in 1..Len(c) : c[j] # e

LEMMA InitializeDoes ==
  ASSUME NEW D, NEW Null, NEW l \in LinksOn(D, Null), NEW h \in D
  PROVE  LET l2 == InitializeListHead(l, h)
         IN  /\ l2 \in LinksOn(D, Null) /\ Only(D, l, l2, {h})
             /\ << >> \in Chains(D, h) /\ Chain(l2, h, << >>)
             /\ l2.Flink[h] = h /\ l2.Blink[h] = h
<1> DEFINE l2 == InitializeListHead(l, h)
<1>1. l2 \in LinksOn(D, Null)
  BY DEF InitializeListHead, LinksOn
<1>2. \A x \in D : /\ l2.Flink[x] = IF x = h THEN h ELSE l.Flink[x]
                   /\ l2.Blink[x] = IF x = h THEN h ELSE l.Blink[x]
  BY DEF InitializeListHead, LinksOn
<1> HIDE DEF l2
<1>3. << >> \in Chains(D, h)
  BY DEF Chains
<1>4. Chain(l2, h, << >>)
  BY <1>2 DEF Chain, At
<1>5. Only(D, l, l2, {h})
  BY <1>2 DEF Only
<1> QED BY <1>1, <1>2, <1>3, <1>4, <1>5 DEF l2

LEMMA InsertTailDoes ==
  ASSUME NEW D, NEW Null, NEW l \in LinksOn(D, Null), NEW h \in D, NEW c \in Chains(D, h),
         Chain(l, h, c), NEW e, Apart(D, h, c, e)
  PROVE  LET l2 == InsertTailList(l, h, e)
         IN  /\ l2 \in LinksOn(D, Null) /\ Only(D, l, l2, Ring(h, c) \cup {e})
             /\ Chain(l2, h, Put(c, Len(c), e))
<1> DEFINE l2 == InsertTailList(l, h, e)
           last == l.Blink[h]
<1>1. last = At(c, h, Len(c)) /\ last \in Ring(h, c) /\ h \in Ring(h, c)
  BY RingNeighbours DEF Ring
<1>2. last \in D /\ e \in D /\ h \in D /\ Len(c) \in Nat
  BY <1>1, AtPlaces DEF Apart
<1>3. last # e /\ h # e
  BY <1>1 DEF Ring, Apart
<1>4. l2 \in LinksOn(D, Null)
  BY <1>2 DEF InsertTailList, LinksOn
<1>5. /\ l2.Flink[e] = h /\ l2.Blink[e] = last
      /\ \A x \in D \ {e} : /\ l2.Flink[x] = IF x = last THEN e ELSE l.Flink[x]
                            /\ l2.Blink[x] = IF x = h THEN e ELSE l.Blink[x]
  BY <1>2, <1>3 DEF InsertTailList, LinksOn
<1> HIDE DEF l2, last
<1>6. Only(D, l, l2, Ring(h, c) \cup {e})
  BY <1>1, <1>5 DEF Only
<1>7. Chain(l2, h, Put(c, Len(c), e))
  <2>1. At(c, h, Len(c) + 1) = h /\ Len(c) \in 0..Len(c)
    BY <1>2, AtPlaces
  <2>2. e \in D \ {h} /\ \A j \in 1..Len(c) : c[j] # e
    BY DEF Apart
  <2>3. /\ l2.Flink[e] = At(c, h, Len(c) + 1) /\ l2.Blink[e] = At(c, h, Len(c))
        /\ \A x \in D \ {e} :
             /\ l2.Flink[x] = IF x = At(c, h, Len(c)) THEN e ELSE l.Flink[x]
             /\ l2.Blink[x] = IF x = At(c, h, Len(c) + 1) THEN e ELSE l.Blink[x]
    BY <1>1, <1>5, <2>1
  <2> QED BY <2>1, <2>2, <2>3, ChainPut
<1> QED BY <1>4, <1>6, <1>7 DEF l2

LEMMA InsertHeadDoes ==
  ASSUME NEW D, NEW Null, NEW l \in LinksOn(D, Null), NEW h \in D, NEW c \in Chains(D, h),
         Chain(l, h, c), NEW e, Apart(D, h, c, e)
  PROVE  LET l2 == InsertHeadList(l, h, e)
         IN  /\ l2 \in LinksOn(D, Null) /\ Only(D, l, l2, Ring(h, c) \cup {e})
             /\ Chain(l2, h, Put(c, 0, e))
<1> DEFINE l2 == InsertHeadList(l, h, e)
           first == l.Flink[h]
<1>1. first = At(c, h, 1) /\ first \in Ring(h, c) /\ h \in Ring(h, c)
  BY RingNeighbours DEF Ring
<1>2. first \in D /\ e \in D /\ h \in D /\ Len(c) \in Nat
  BY <1>1, AtPlaces DEF Apart
<1>3. first # e /\ h # e
  BY <1>1 DEF Ring, Apart
<1>4. l2 \in LinksOn(D, Null)
  BY <1>2 DEF InsertHeadList, LinksOn
<1>5. /\ l2.Flink[e] = first /\ l2.Blink[e] = h
      /\ \A x \in D \ {e} : /\ l2.Flink[x] = IF x = h THEN e ELSE l.Flink[x]
                            /\ l2.Blink[x] = IF x = first THEN e ELSE l.Blink[x]
  BY <1>2, <1>3 DEF InsertHeadList, LinksOn
<1> HIDE DEF l2, first
<1>6. Only(D, l, l2, Ring(h, c) \cup {e})
  BY <1>1, <1>5 DEF Only
<1>7. Chain(l2, h, Put(c, 0, e))
  <2>1. At(c, h, 0) = h /\ 0 \in 0..Len(c) /\ 0 + 1 = 1
    BY <1>2, AtPlaces
  <2>2. e \in D \ {h} /\ \A j \in 1..Len(c) : c[j] # e
    BY DEF Apart
  <2> QED BY <1>1, <1>5, <2>1, <2>2, ChainPut
<1> QED BY <1>4, <1>6, <1>7 DEF l2

\* base is the cell after the i-th: an entry, or the head.
LEMMA InsertBeforeDoes ==
  ASSUME NEW D, NEW Null, NEW l \in LinksOn(D, Null), NEW h \in D, NEW c \in Chains(D, h),
         Chain(l, h, c), NEW e, Apart(D, h, c, e), NEW i \in 0..Len(c)
  PROVE  LET l2 == InsertBeforeEntry(l, At(c, h, i + 1), e)
         IN  /\ l2 \in LinksOn(D, Null) /\ Only(D, l, l2, Ring(h, c) \cup {e})
             /\ Chain(l2, h, Put(c, i, e))
<1> DEFINE base == At(c, h, i + 1)
           l2 == InsertBeforeEntry(l, base, e)
           prev == l.Blink[base]
<1>1. Len(c) \in Nat /\ prev = At(c, h, i) /\ base \in D /\ prev \in D
  BY AtPlaces DEF Chain
<1>2. base \in Ring(h, c) /\ prev \in Ring(h, c)
  BY <1>1 DEF At, Ring
<1>3. prev # e /\ base # e /\ e \in D
  BY <1>2 DEF Ring, Apart
<1> HIDE DEF base
<1>4. l2 \in LinksOn(D, Null)
  BY <1>1, <1>3 DEF InsertBeforeEntry, LinksOn
<1>5. /\ l2.Flink[e] = base /\ l2.Blink[e] = prev
      /\ \A x \in D \ {e} : /\ l2.Flink[x] = IF x = prev THEN e ELSE l.Flink[x]
                            /\ l2.Blink[x] = IF x = base THEN e ELSE l.Blink[x]
  BY <1>1, <1>3 DEF InsertBeforeEntry, LinksOn
<1> HIDE DEF l2, prev
<1>6. Only(D, l, l2, Ring(h, c) \cup {e})
  BY <1>2, <1>5 DEF Only
<1>7. Chain(l2, h, Put(c, i, e))
  <2>1. e \in D \ {h} /\ \A j \in 1..Len(c) : c[j] # e
    BY DEF Apart
  <2>2. /\ l2.Flink[e] = At(c, h, i + 1) /\ l2.Blink[e] = At(c, h, i)
        /\ \A x \in D \ {e} :
             /\ l2.Flink[x] = IF x = At(c, h, i) THEN e ELSE l.Flink[x]
             /\ l2.Blink[x] = IF x = At(c, h, i + 1) THEN e ELSE l.Blink[x]
    BY <1>1, <1>5 DEF base
  <2> QED BY <2>1, <2>2, ChainPut
<1> QED BY <1>4, <1>6, <1>7 DEF l2, base

\* The removed entry keeps its links: those lead into the list still.
LEMMA RemoveEntryDoes ==
  ASSUME NEW D, NEW Null, NEW l \in LinksOn(D, Null), NEW h \in D, NEW c \in Chains(D, h),
         Chain(l, h, c), NEW i \in 1..Len(c)
  PROVE  LET l2 == RemoveEntryList(l, c[i])
         IN  /\ l2 \in LinksOn(D, Null) /\ Only(D, l, l2, Ring(h, c))
             /\ \A x \in D \ {c[i]} :
                  /\ l2.Flink[x] = IF x = At(c, h, i - 1) THEN At(c, h, i + 1) ELSE l.Flink[x]
                  /\ l2.Blink[x] = IF x = At(c, h, i + 1) THEN At(c, h, i - 1) ELSE l.Blink[x]
             /\ Chain(l2, h, Without(c, i))
             /\ WasLast(l, c[i]) <=> Len(c) = 1
<1> DEFINE l2 == RemoveEntryList(l, c[i])
           prev == l.Blink[c[i]]
           next == l.Flink[c[i]]
<1>1. Len(c) \in Nat /\ prev = At(c, h, i - 1) /\ next = At(c, h, i + 1) /\ c[i] \in Ring(h, c)
  BY AtPlaces, RingNeighbours DEF Ring
<1>2. prev \in D /\ next \in D /\ c[i] \in D /\ prev \in Ring(h, c) /\ next \in Ring(h, c)
  BY <1>1, AtPlaces, RingNeighbours
<1>3. l2 \in LinksOn(D, Null)
  BY <1>2 DEF RemoveEntryList, LinksOn
<1>4. \A x \in D : /\ l2.Flink[x] = IF x = prev THEN next ELSE l.Flink[x]
                   /\ l2.Blink[x] = IF x = next THEN prev ELSE l.Blink[x]
  BY <1>2 DEF RemoveEntryList, LinksOn
<1>5. WasLast(l, c[i]) <=> Len(c) = 1
  <2>1. WasLast(l, c[i]) <=> At(c, h, i + 1) = At(c, h, i - 1)
    BY <1>1 DEF WasLast
  <2>2. CASE i = Len(c)
    <3>1. At(c, h, i + 1) = At(c, h, 0) /\ i - 1 \in 0..Len(c) /\ 0 \in 0..Len(c)
      BY <1>1, <2>2, AtPlaces
    <3>2. At(c, h, 0) = At(c, h, i - 1) <=> 0 = i - 1
      BY <3>1, AtPlaces
    <3> QED BY <1>1, <2>1, <2>2, <3>1, <3>2
  <2>3. CASE i # Len(c)
    <3>1. Len(c) \in Nat /\ i \in 1..Len(c) /\ i < Len(c)
      BY <1>1, <2>3
    <3>2. i + 1 \in 0..Len(c) /\ i - 1 \in 0..Len(c) /\ i + 1 # i - 1 /\ Len(c) # 1
      BY <3>1
    <3> QED BY <2>1, <3>2, AtPlaces
  <2> QED BY <2>2, <2>3
<1> HIDE DEF l2, prev, next
<1>6. Only(D, l, l2, Ring(h, c))
  BY <1>2, <1>4 DEF Only
<1>7. Chain(l2, h, Without(c, i))
  BY <1>1, <1>4, ChainWithout
<1> QED BY <1>1, <1>3, <1>4, <1>5, <1>6, <1>7 DEF l2


\* Of a list that is not empty both ends are removed as any entry is; of an
\* empty one nothing is.
LEMMA RemoveEndDoes ==
  ASSUME NEW D, NEW Null, NEW l \in LinksOn(D, Null), NEW h \in D, NEW c \in Chains(D, h),
         Chain(l, h, c)
  PROVE  /\ Len(c) = 0 => RemoveHeadList(l, h) = l /\ RemoveTailList(l, h) = l
         /\ Len(c) # 0 => /\ RemoveHeadList(l, h) = RemoveEntryList(l, c[1])
                          /\ RemoveTailList(l, h) = RemoveEntryList(l, c[Len(c)])
                          /\ l.Flink[h] = c[1] /\ l.Blink[h] = c[Len(c)]
<1>1. Len(c) \in Nat /\ l.Flink[h] = At(c, h, 1) /\ l.Blink[h] = At(c, h, Len(c))
  BY AtPlaces, RingNeighbours
<1>2. CASE Len(c) = 0
  <2>1. l.Flink[h] = h /\ l.Blink[h] = h
    BY <1>1, <1>2, AtPlaces
  <2> QED BY <1>2, <2>1 DEF RemoveHeadList, RemoveTailList, LinksOn
<1>3. CASE Len(c) # 0
  <2>1. 1 \in 1..Len(c) /\ Len(c) \in 1..Len(c)
    BY <1>1, <1>3
  <2>2. l.Flink[h] = c[1] /\ l.Blink[h] = c[Len(c)]
    BY <1>1, <2>1, AtPlaces
  <2>3. h \in Ring(h, c)
    BY DEF Ring
  <2>4. l.Blink[c[1]] = h /\ l.Flink[c[Len(c)]] = h
    BY <2>2, <2>3, RingNeighbours
  <2> QED BY <1>3, <2>2, <2>4 DEF RemoveHeadList, RemoveTailList, RemoveEntryList
<1> QED BY <1>2, <1>3

\* new has no entries, or no links yet.
LEMMA ChangeHeadDoes ==
  ASSUME NEW D, NEW Null, NEW l \in LinksOn(D, Null), NEW old \in D, NEW c \in Chains(D, old),
         Chain(l, old, c), NEW new \in D, new \notin Ring(old, c)
  PROVE  LET l2 == ChangeHead(l, old, new)
         IN  /\ l2 \in LinksOn(D, Null) /\ Only(D, l, l2, Ring(old, c) \cup {new})
             /\ c \in Chains(D, new) /\ Chain(l2, new, c)
             /\ << >> \in Chains(D, old) /\ Chain(l2, old, << >>)
<1> DEFINE l2 == ChangeHead(l, old, new)
           first == l.Flink[old]
           last == l.Blink[old]
           m == Len(c)
<1>0. m \in Nat /\ c \in Seq(D \ {old}) /\ new # old
  BY AtPlaces DEF Chains, Ring
<1>1. first = At(c, old, 1) /\ last = At(c, old, m) /\ (IsListEmpty(l, old) <=> m = 0)
  BY RingNeighbours
<1>2. << >> \in Chains(D, old)
  BY DEF Chains
<1>3. \A i \in 1..m : c[i] \in D /\ c[i] # new /\ c[i] # old
  BY AtPlaces DEF Ring
<1>4. c \in Chains(D, new)
  <2>1. c \in Seq(D \ {new})
    BY <1>0, <1>3
  <2> QED BY <2>1 DEF Chains
<1>5. CASE m = 0
  <2>1. c = << >>
    BY <1>0, <1>5
  <2>2. l2 = InitializeListHead(l, new)
    BY <1>1, <1>5 DEF ChangeHead
  <2>3. l2 \in LinksOn(D, Null) /\ Only(D, l, l2, {new}) /\ Chain(l2, new, << >>)
    BY <2>2, InitializeDoes
  <2> HIDE DEF l2
  <2>4. Chain(l2, old, << >>)
    <3>1. \A i \in 0..m : At(c, old, i) = old
      BY <1>5, AtPlaces
    <3>2. l2.Flink[old] = l.Flink[old] /\ l2.Blink[old] = l.Blink[old]
      BY <1>0, <2>3 DEF Only
    <3> QED BY <3>1, <3>2, <2>1, ChainKept
  <2>5. Only(D, l, l2, Ring(old, c) \cup {new})
    BY <2>3 DEF Only
  <2> QED BY <1>2, <1>4, <2>1, <2>3, <2>4, <2>5 DEF l2
<1>6. CASE m # 0
  <2>1. first = c[1] /\ last = c[m] /\ 1 \in 1..m /\ m \in 1..m
    BY <1>0, <1>1, <1>6, AtPlaces
  <2>2. first \in D /\ last \in D /\ first # new /\ last # new /\ first # old /\ last # old
    BY <1>3, <2>1
  <2>3. ~IsListEmpty(l, old)
    BY <1>1, <1>6
  <2>4. l2 \in LinksOn(D, Null)
    BY <2>2, <2>3 DEF ChangeHead, LinksOn
  <2>5. \A x \in D : /\ l2.Flink[x] = IF x = old THEN old ELSE IF x = new THEN first
                                     ELSE IF x = last THEN new ELSE l.Flink[x]
                     /\ l2.Blink[x] = IF x = old THEN old ELSE IF x = new THEN last
                                     ELSE IF x = first THEN new ELSE l.Blink[x]
    BY <1>0, <2>2, <2>3 DEF ChangeHead, LinksOn
  <2> HIDE DEF l2, first, last
  <2>6. Chain(l2, old, << >>)
    BY <2>5 DEF Chain, At
  <2>7. Only(D, l, l2, Ring(old, c) \cup {new})
    <3>1. first \in Ring(old, c) /\ last \in Ring(old, c) /\ old \in Ring(old, c)
      BY <2>1 DEF Ring
    <3> QED BY <2>5, <3>1 DEF Only
  <2>8. Chain(l2, new, c)
    <3> SUFFICES ASSUME NEW i \in 0..m
                 PROVE  /\ l2.Flink[At(c, new, i)] = At(c, new, i + 1)
                        /\ l2.Blink[At(c, new, i + 1)] = At(c, new, i)
      BY DEF Chain
    <3>1. \A j, k \in 1..m : c[j] = c[k] => j = k
      BY DEF Chains
    <3>2. l.Flink[At(c, old, i)] = At(c, old, i + 1) /\ l.Blink[At(c, old, i + 1)] = At(c, old, i)
      BY DEF Chain
    <3>3. CASE i = 0
      <4>1. At(c, new, i) = new /\ At(c, new, i + 1) = first
        BY <1>0, <2>1, <3>3 DEF At
      <4> QED BY <1>0, <2>2, <2>5, <4>1
    <3>4. CASE i = m
      <4>1. At(c, new, i) = last /\ At(c, new, i + 1) = new
        BY <1>0, <2>1, <3>4 DEF At
      <4> QED BY <1>0, <2>2, <2>5, <4>1
    <3>5. CASE i # 0 /\ i # m
      <4>1. i \in 1..m /\ i + 1 \in 1..m /\ i # m /\ i + 1 # 1
        BY <1>0, <3>5
      <4>2. /\ At(c, new, i) = c[i] /\ At(c, new, i + 1) = c[i + 1]
            /\ At(c, old, i) = c[i] /\ At(c, old, i + 1) = c[i + 1]
        BY <4>1 DEF At
      <4>3. c[i] # last /\ c[i + 1] # first
        BY <2>1, <3>1, <4>1
      <4> QED BY <1>3, <2>5, <3>2, <4>1, <4>2, <4>3
    <3> QED BY <3>3, <3>4, <3>5
  <2> QED BY <1>2, <1>4, <2>4, <2>6, <2>7, <2>8 DEF l2
<1> QED BY <1>5, <1>6

-----------------------------------------------------------------------------
\* As sequences: what is put last is appended, what is put first comes first,
\* and the first is taken from the head.
LEMMA PutLastIsAppend ==
  ASSUME NEW D, NEW c \in Seq(D), NEW e \in D
  PROVE  Put(c, Len(c), e) = Append(c, e)
<1>1. Len(c) \in Nat /\ Append(c, e) \in Seq(D) /\ Len(Append(c, e)) = Len(c) + 1
  OBVIOUS
<1>2. Put(c, Len(c), e) \in [1..(Len(c) + 1) -> D]
  BY <1>1 DEF Put
<1>3. Put(c, Len(c), e) \in Seq(D) /\ Len(Put(c, Len(c), e)) = Len(c) + 1
  BY <1>1, <1>2
<1>4. \A i \in 1..(Len(c) + 1) : Put(c, Len(c), e)[i] = Append(c, e)[i]
  BY <1>1 DEF Put
<1> QED BY <1>1, <1>3, <1>4, SeqEqual

LEMMA PutFirstIsFirst ==
  ASSUME NEW D, NEW c \in Seq(D), NEW e \in D
  PROVE  Put(c, 0, e) = <<e>> \o c
<1>1. Len(c) \in Nat /\ <<e>> \o c \in Seq(D) /\ Len(<<e>> \o c) = Len(c) + 1
  OBVIOUS
<1>2. Put(c, 0, e) \in [1..(Len(c) + 1) -> D]
  BY <1>1 DEF Put
<1>3. Put(c, 0, e) \in Seq(D) /\ Len(Put(c, 0, e)) = Len(c) + 1
  BY <1>1, <1>2
<1>4. \A i \in 1..(Len(c) + 1) : Put(c, 0, e)[i] = (<<e>> \o c)[i]
  BY <1>1 DEF Put
<1> QED BY <1>1, <1>3, <1>4, SeqEqual

LEMMA WithoutFirstIsTail ==
  ASSUME NEW D, NEW c \in Seq(D), Len(c) # 0
  PROVE  Without(c, 1) = Tail(c)
<1>1. Len(c) \in Nat \ {0} /\ Tail(c) \in Seq(D) /\ Len(Tail(c)) = Len(c) - 1
  OBVIOUS
<1>2. Without(c, 1) \in [1..(Len(c) - 1) -> D]
  BY <1>1 DEF Without
<1>3. Without(c, 1) \in Seq(D) /\ Len(Without(c, 1)) = Len(c) - 1
  <2> DEFINE n == Len(c) - 1
             w == Without(c, 1)
  <2>1. n \in Nat /\ w \in [1..n -> D]
    BY <1>1, <1>2
  <2> HIDE DEF n, w
  <2>2. w \in Seq(D) /\ Len(w) = n
    BY <2>1
  <2> QED BY <2>2 DEF n, w
<1>4. \A i \in 1..(Len(c) - 1) : Without(c, 1)[i] = Tail(c)[i]
  BY <1>1 DEF Without
<1> QED BY <1>1, <1>3, <1>4, SeqEqual

LEMMA WithoutIsRest ==
  ASSUME NEW D, NEW c \in Seq(D), NEW i \in 1..Len(c)
  PROVE  Without(c, i) = SubSeq(c, 1, i - 1) \o SubSeq(c, i + 1, Len(c))
<1> DEFINE a == SubSeq(c, 1, i - 1)
           b == SubSeq(c, i + 1, Len(c))
           s == a \o b
           n == Len(c) - 1
           p == Without(c, i)
<1>1. Len(c) \in Nat /\ i \in 1..Len(c) /\ \A j \in 1..Len(c) : c[j] \in D
  OBVIOUS
<1>2. a \in Seq(D) /\ Len(a) = i - 1 /\ \A j \in 1..(i - 1) : a[j] = c[j]
  BY <1>1
<1>3. b \in Seq(D) /\ Len(b) = Len(c) - i /\ \A j \in 1..(Len(c) - i) : b[j] = c[i + j]
  BY <1>1
<1>n. n = Len(c) - 1 /\ n = i - 1 + (Len(c) - i)
  BY <1>1
<1> HIDE DEF a, b, n
<1>5. s \in Seq(D) /\ Len(s) = n
      /\ (\A j \in 1..(i - 1) : s[j] = a[j])
      /\ \A j \in i..n : s[j] = b[j - (i - 1)]
  <2>0. a \in Seq(D) /\ b \in Seq(D)
    BY <1>2, <1>3
  <2>1. s \in Seq(D) /\ Len(s) = Len(a) + Len(b)
    BY <2>0, ConcatProperties
  <2>2. \A j \in 1..Len(s) : s[j] = IF j <= Len(a) THEN a[j] ELSE b[j - Len(a)]
    BY <2>0, ConcatProperties
  <2>3. Len(s) = n /\ Len(a) = i - 1
    BY <1>1, <1>n, <1>2, <1>3, <2>1
  <2>4. \A j \in 1..(i - 1) : j \in 1..n /\ j <= i - 1
    BY <1>1, <1>n
  <2>5. \A j \in i..n : j \in 1..n /\ ~(j <= i - 1)
    BY <1>1, <1>n
  <2> HIDE DEF s
  <2> QED BY <2>1, <2>2, <2>3, <2>4, <2>5
<1>6. p \in Seq(D) /\ Len(p) = n /\ \A j \in 1..n : p[j] = IF j < i THEN c[j] ELSE c[j + 1]
  <2>1. \A j \in 1..n : j \in 1..Len(c) /\ j + 1 \in 1..Len(c)
    BY <1>1, <1>n
  <2>2. p \in [1..n -> D]
    BY <1>1, <1>n, <2>1 DEF Without
  <2>3. n \in Nat
    BY <1>1, <1>n
  <2>4. \A j \in 1..n : p[j] = IF j < i THEN c[j] ELSE c[j + 1]
    BY <1>n DEF Without
  <2> HIDE DEF p
  <2> QED BY <2>2, <2>3, <2>4
<1> HIDE DEF s, p
<1>7. \A j \in 1..n : p[j] = s[j]
  <2> TAKE j \in 1..n
  <2>1. CASE j < i
    <3>1. j \in 1..(i - 1)
      BY <1>1, <2>1
    <3> QED BY <1>2, <1>5, <1>6, <2>1, <3>1
  <2>2. CASE j >= i
    <3> DEFINE k == j - (i - 1)
    <3>1. k \in 1..(Len(c) - i) /\ i + k = j + 1 /\ j \in i..n /\ ~(j < i)
      BY <1>1, <1>n, <2>2
    <3>2. s[j] = c[j + 1]
      BY <1>3, <1>5, <3>1
    <3> QED BY <1>6, <3>1, <3>2
  <2>3. j < i \/ j >= i
    BY <1>1, <1>n
  <2> QED BY <2>1, <2>2, <2>3
<1>8. p = s
  BY <1>5, <1>6, <1>7, SeqEqual
<1> QED BY <1>8 DEF p, s, a, b
=============================================================================
