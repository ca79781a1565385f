------------------------- MODULE LinkedListsProofs -------------------------
(***************************************************************************)
(* The callers of list.c, for any heads and entries: the lists they see,   *)
(* read along Flink, are chains of the links, both ways, no cell is in two *)
(* of them, and an operation does to them what Lists says.                 *)
(***************************************************************************)
EXTENDS LinkedLists, ListLinksProofs

\* The lists ch of the heads in S are chains of l, and S is their cells.
Hold(l, S, ch) ==
  /\ l \in LinksOn(Cells, Null) /\ S \in SUBSET Cells
  /\ ch \in [Heads -> Seq(Entries) \cup {Null}]
  /\ \A h \in Heads : h \notin S => ch[h] = Null
  /\ \A h \in Heads \cap S :
       ch[h] \in Seq(Entries) /\ ch[h] \in Chains(Cells, h) /\ Chain(l, h, ch[h])
  /\ \A g, h \in Heads \cap S : g # h => Ring(g, ch[g]) \cap Ring(h, ch[h]) = {}
  /\ \A h \in Heads \cap S : Ring(h, ch[h]) \subseteq S
  /\ \A x \in S : \E h \in Heads \cap S : x \in Ring(h, ch[h])

\* What EntriesOf reads of these links.
ListsOf(l, S) == [h \in Heads |-> IF h \in S THEN ListOf(l, h, Cardinality(Cells), Null) ELSE Null]

\* The inductive invariant: the lists are chains, and the queue is counted.
LInv ==
  /\ Hold(links, linked, ListsOf(links, linked))
  /\ ulListLen = IF FreeQueue \in linked THEN Len(ListsOf(links, linked)[FreeQueue]) ELSE 0

-----------------------------------------------------------------------------
LEMMA SomeFacts ==
  /\ Null \notin Cells /\ Null \notin Seq(Entries) /\ FreeQueue \in Heads
  /\ IsFiniteSet(Cells) /\ Cardinality(Cells) \in Nat
  /\ \A h \in Heads : h \in Cells /\ h \notin Entries
  /\ \A e \in Entries : e \in Cells /\ e \notin Heads
BY CellsAssumption, FS_CardinalityType DEF Cells

\* Chains are what is read.
LEMMA HoldIsRead ==
  ASSUME NEW l, NEW S, NEW ch, Hold(l, S, ch)
  PROVE  ListsOf(l, S) = ch
<1>1. ASSUME NEW h \in Heads, h \in S
      PROVE  ListOf(l, h, Cardinality(Cells), Null) = ch[h]
  <2>1. h \in Cells /\ ch[h] \in Chains(Cells, h) /\ Chain(l, h, ch[h]) /\ l \in LinksOn(Cells, Null)
    BY <1>1, SomeFacts DEF Hold
  <2>2. \A i \in 1..Len(ch[h]) : ch[h][i] \in Cells
    BY <2>1, AtPlaces
  <2>3. Len(ch[h]) <= Cardinality(Cells)
    BY <2>1, <2>2, SomeFacts, ChainIsShort
  <2> QED BY <2>1, <2>3, SomeFacts, ListIsChain
<1> QED BY <1>1 DEF Hold, ListsOf

\* Lists of the heads in H are replaced, by lists of the cells in W, which
\* has all their cells from before; no other link is written.
Replaced(l, S, ch, l2, S2, ch2, H, W) ==
  /\ l2 \in LinksOn(Cells, Null) /\ S2 \in SUBSET Cells
  /\ ch2 \in [Heads -> Seq(Entries) \cup {Null}]
  /\ H \in SUBSET Heads /\ W \in SUBSET Cells /\ Only(Cells, l, l2, W)
  /\ \A g \in Heads \ H :
       ch2[g] = ch[g] /\ g \notin W /\ (g \in S => Ring(g, ch[g]) \cap W = {})
  /\ \A h \in H :
       /\ h \in S2 /\ ch2[h] \in Seq(Entries) /\ ch2[h] \in Chains(Cells, h)
       /\ Chain(l2, h, ch2[h]) /\ Ring(h, ch2[h]) \subseteq W /\ Ring(h, ch2[h]) \subseteq S2
  /\ \A h \in H : h \in S => Ring(h, ch[h]) \subseteq W
  /\ \A g, h \in H : g # h => Ring(g, ch2[g]) \cap Ring(h, ch2[h]) = {}
  /\ \A x \in Cells \ W : x \in S <=> x \in S2
  /\ \A x \in S2 \cap W : \E h \in H : x \in Ring(h, ch2[h])

LEMMA HoldUpdated ==
  ASSUME NEW l, NEW S, NEW ch, Hold(l, S, ch), NEW l2, NEW S2, NEW ch2, NEW H, NEW W,
         Replaced(l, S, ch, l2, S2, ch2, H, W)
  PROVE  Hold(l2, S2, ch2)
<1> USE DEF Replaced
<1>1. \A h \in Heads : h \notin S2 => ch2[h] = Null
  <2> SUFFICES ASSUME NEW h \in Heads, h \notin S2 PROVE ch2[h] = Null
    OBVIOUS
  <2>1. h \notin H /\ h \in Cells
    BY SomeFacts
  <2>2. h \notin S
    BY <2>1
  <2> QED BY <2>1, <2>2 DEF Hold
<1>2. \A g \in (Heads \ H) \cap S2 : g \in S
  BY SomeFacts
<1>3. ASSUME NEW h \in Heads \cap S2
      PROVE  ch2[h] \in Seq(Entries) /\ ch2[h] \in Chains(Cells, h) /\ Chain(l2, h, ch2[h])
  <2>1. CASE h \in H
    BY <2>1
  <2>2. CASE h \notin H
    <3>1. h \in S /\ ch2[h] = ch[h] /\ Ring(h, ch[h]) \cap W = {} /\ h \in Cells
      BY <1>2, <2>2, SomeFacts
    <3>2. ch[h] \in Seq(Entries) /\ ch[h] \in Chains(Cells, h) /\ Chain(l, h, ch[h])
      BY <3>1 DEF Hold
    <3>3. ASSUME NEW i \in 0..Len(ch[h])
          PROVE  At(ch[h], h, i) \in Cells \ W
      <4>1. At(ch[h], h, i) \in Ring(h, ch[h])
        BY DEF At, Ring
      <4>2. At(ch[h], h, i) \in Cells
        BY <3>1, <3>2, AtPlaces
      <4> QED BY <3>1, <4>1, <4>2
    <3>4. \A i \in 0..Len(ch[h]) : /\ l2.Flink[At(ch[h], h, i)] = l.Flink[At(ch[h], h, i)]
                                   /\ l2.Blink[At(ch[h], h, i)] = l.Blink[At(ch[h], h, i)]
      BY <3>3 DEF Only
    <3>5. Chain(l2, h, ch[h])
      BY <3>1, <3>2, <3>4, ChainKept
    <3> QED BY <3>1, <3>2, <3>5
  <2> QED BY <2>1, <2>2
<1>4. ASSUME NEW g \in Heads \cap S2, NEW h \in Heads \cap S2, g # h
      PROVE  Ring(g, ch2[g]) \cap Ring(h, ch2[h]) = {}
  <2>1. CASE g \in H /\ h \in H
    BY <1>4, <2>1
  <2>2. CASE g \in H /\ h \notin H
    BY <1>2, <2>2
  <2>3. CASE g \notin H /\ h \in H
    BY <1>2, <2>3
  <2>4. CASE g \notin H /\ h \notin H
    BY <1>2, <1>4, <2>4 DEF Hold
  <2> QED BY <2>1, <2>2, <2>3, <2>4
<1>5. ASSUME NEW h \in Heads \cap S2
      PROVE  Ring(h, ch2[h]) \subseteq S2
  <2>1. CASE h \notin H
    <3>1. h \in S /\ ch2[h] = ch[h] /\ Ring(h, ch[h]) \cap W = {}
      BY <1>2, <2>1
    <3>2. Ring(h, ch[h]) \subseteq S /\ S \subseteq Cells
      BY <3>1 DEF Hold
    <3> QED BY <3>1, <3>2
  <2> QED BY <2>1
<1>6. ASSUME NEW x \in S2
      PROVE  \E h \in Heads \cap S2 : x \in Ring(h, ch2[h])
  <2>1. CASE x \in W
    BY <2>1
  <2>2. CASE x \notin W
    <3>1. x \in S
      BY <2>2
    <3>2. PICK h \in Heads \cap S : x \in Ring(h, ch[h])
      BY <3>1 DEF Hold
    <3>3. h \notin H
      BY <2>2, <3>2
    <3>4. h \in S2 /\ ch2[h] = ch[h]
      BY <3>2, <3>3, SomeFacts
    <3> QED BY <3>2, <3>4
  <2> QED BY <2>1, <2>2
<1> QED BY <1>1, <1>3, <1>4, <1>5, <1>6 DEF Hold


\* An entry that is in no list is in none of them.
LEMMA NotIn ==
  ASSUME NEW l, NEW S, NEW ch, Hold(l, S, ch), NEW h \in Heads \cap S, NEW e \in Entries \ S
  PROVE  Apart(Cells, h, ch[h], e)
<1>1. Ring(h, ch[h]) \subseteq S /\ e \in Cells
  BY SomeFacts DEF Hold
<1> QED BY <1>1 DEF Apart, Ring

\* Entries of a list stay entries.
LEMMA StayEntries ==
  ASSUME NEW h \in Heads, NEW c \in Chains(Cells, h), c \in Seq(Entries)
  PROVE  /\ \A e \in Entries, i \in 0..Len(c) :
              (\A j \in 1..Len(c) : c[j] # e) => Put(c, i, e) \in Seq(Entries)
         /\ \A i \in 1..Len(c) : Without(c, i) \in Seq(Entries)
<1>1. Len(c) \in Nat /\ h \in Cells /\ \A j \in 1..Len(c) : c[j] \in Entries
  BY SomeFacts
<1>2. ASSUME NEW e \in Entries, NEW i \in 0..Len(c), \A j \in 1..Len(c) : c[j] # e
      PROVE  Put(c, i, e) \in Seq(Entries)
  <2> DEFINE n == Len(c) + 1
             p == Put(c, i, e)
  <2>1. p \in [1..n -> Entries]
    <3> SUFFICES ASSUME NEW j \in 1..n
                 PROVE  (IF j <= i THEN c[j] ELSE IF j = i + 1 THEN e ELSE c[j - 1]) \in Entries
      BY DEF Put
    <3>1. (j <= i => j \in 1..Len(c)) /\ (~(j <= i) /\ j # i + 1 => j - 1 \in 1..Len(c))
      BY <1>1
    <3> QED BY <1>1, <3>1
  <2>2. n \in Nat
    BY <1>1
  <2> HIDE DEF n, p
  <2>3. p \in Seq(Entries)
    BY <2>1, <2>2
  <2> QED BY <2>3 DEF p
<1>3. ASSUME NEW i \in 1..Len(c)
      PROVE  Without(c, i) \in Seq(Entries)
  <2> DEFINE n == Len(c) - 1
             p == Without(c, i)
  <2>1. p \in [1..n -> Entries]
    <3> SUFFICES ASSUME NEW j \in 1..n
                 PROVE  (IF j < i THEN c[j] ELSE c[j + 1]) \in Entries
      BY DEF Without
    <3>1. j \in 1..Len(c) /\ j + 1 \in 1..Len(c)
      BY <1>1
    <3> QED BY <1>1, <3>1
  <2>2. n \in Nat
    BY <1>1
  <2> HIDE DEF n, p
  <2>3. p \in Seq(Entries)
    BY <2>1, <2>2
  <2> QED BY <2>3 DEF p
<1> QED BY <1>2, <1>3

\* An entry is put into the list of h.
LEMMA HoldPut ==
  ASSUME NEW l, NEW S, NEW ch, Hold(l, S, ch), NEW h \in Heads \cap S, NEW e \in Entries \ S,
         NEW i \in 0..Len(ch[h]), NEW l2 \in LinksOn(Cells, Null),
         Only(Cells, l, l2, Ring(h, ch[h]) \cup {e}), Chain(l2, h, Put(ch[h], i, e))
  PROVE  Hold(l2, S \cup {e}, [ch EXCEPT ![h] = Put(ch[h], i, e)])
<1> DEFINE W == Ring(h, ch[h]) \cup {e}
           p == Put(ch[h], i, e)
           ch2 == [ch EXCEPT ![h] = p]
           S2 == S \cup {e}
<1>1. ch[h] \in Seq(Entries) /\ ch[h] \in Chains(Cells, h) /\ h \in Cells /\ Ring(h, ch[h]) \subseteq S
      /\ S \subseteq Cells /\ ch \in [Heads -> Seq(Entries) \cup {Null}]
  BY SomeFacts DEF Hold
<1>2. e \in Cells \ {h} /\ (\A j \in 1..Len(ch[h]) : ch[h][j] # e) /\ e \in Cells /\ e \notin Heads
  BY NotIn, SomeFacts DEF Apart
<1>3. p \in Chains(Cells, h) /\ Ring(h, p) = W /\ p \in Seq(Entries)
  BY <1>1, <1>2, PutPlaces, PutCells, StayEntries
<1> HIDE DEF p, W
<1>4. ch2 \in [Heads -> Seq(Entries) \cup {Null}] /\ ch2[h] = p /\ \A g \in Heads \ {h} : ch2[g] = ch[g]
  BY <1>1, <1>3
<1>5. \A g \in Heads \ {h} : g \notin W /\ (g \in S => Ring(g, ch[g]) \cap W = {})
  <2> SUFFICES ASSUME NEW g \in Heads \ {h}
               PROVE  g \notin W /\ (g \in S => Ring(g, ch[g]) \cap W = {})
    OBVIOUS
  <2>1. g \notin W
    <3>1. \A j \in 1..Len(ch[h]) : ch[h][j] \in Entries
      BY <1>1
    <3> QED BY <1>2, <3>1, SomeFacts DEF W, Ring
  <2>2. ASSUME g \in S PROVE Ring(g, ch[g]) \cap W = {}
    <3>1. Ring(g, ch[g]) \subseteq S /\ Ring(g, ch[g]) \cap Ring(h, ch[h]) = {}
      BY <2>2 DEF Hold
    <3> QED BY <3>1 DEF W
  <2> QED BY <2>1, <2>2
<1> HIDE DEF ch2
<1>6. W \subseteq S2 /\ h \in S2 /\ S2 \subseteq Cells /\ Ring(h, ch[h]) \subseteq W
      /\ \A x \in Cells \ W : x \in S <=> x \in S2
  BY <1>1, <1>2 DEF W
<1>7. Only(Cells, l, l2, W) /\ Chain(l2, h, p)
  BY DEF W, p
<1> HIDE DEF S2
<1>8. Hold(l2, S2, ch2)
  <2> DEFINE H == {h}
  <2>1. H \in SUBSET Heads /\ W \in SUBSET Cells
    BY <1>6
  <2>2. \A g \in Heads \ H : ch2[g] = ch[g] /\ g \notin W /\ (g \in S => Ring(g, ch[g]) \cap W = {})
    BY <1>4, <1>5
  <2>3. \A g \in H : g \in S2 /\ ch2[g] \in Seq(Entries) /\ ch2[g] \in Chains(Cells, g)
                     /\ Chain(l2, g, ch2[g]) /\ Ring(g, ch2[g]) \subseteq W
                     /\ Ring(g, ch2[g]) \subseteq S2
    BY <1>3, <1>4, <1>6, <1>7
  <2>4. \A g \in H : g \in S => Ring(g, ch[g]) \subseteq W
    BY <1>6
  <2>5. \A f, g \in H : f # g => Ring(f, ch2[f]) \cap Ring(g, ch2[g]) = {}
    OBVIOUS
  <2>6. \A x \in S2 \cap W : \E g \in H : x \in Ring(g, ch2[g])
    BY <1>3, <1>4
  <2> HIDE DEF H
  <2>7. Replaced(l, S, ch, l2, S2, ch2, H, W)
    BY <1>4, <1>6, <1>7, <2>1, <2>2, <2>3, <2>4, <2>5, <2>6 DEF Replaced
  <2> QED BY <2>7, HoldUpdated
<1> QED BY <1>8 DEF S2, ch2, p

\* The i-th entry of the list of h is taken out.
LEMMA HoldTake ==
  ASSUME NEW l, NEW S, NEW ch, Hold(l, S, ch), NEW h \in Heads \cap S,
         NEW i \in 1..Len(ch[h]), NEW l2 \in LinksOn(Cells, Null),
         Only(Cells, l, l2, Ring(h, ch[h])), Chain(l2, h, Without(ch[h], i))
  PROVE  Hold(l2, S \ {ch[h][i]}, [ch EXCEPT ![h] = Without(ch[h], i)])
<1> DEFINE W == Ring(h, ch[h])
           e == ch[h][i]
           p == Without(ch[h], i)
           ch2 == [ch EXCEPT ![h] = p]
           S2 == S \ {e}
<1>1. ch[h] \in Seq(Entries) /\ ch[h] \in Chains(Cells, h) /\ h \in Cells /\ W \subseteq S
      /\ S \subseteq Cells /\ ch \in [Heads -> Seq(Entries) \cup {Null}]
  BY SomeFacts DEF Hold
<1>2. e \in Entries /\ e \in W /\ e # h /\ e \notin Heads
  BY <1>1, AtPlaces, SomeFacts DEF Ring
<1>3. p \in Chains(Cells, h) /\ Ring(h, p) = W \ {e} /\ p \in Seq(Entries)
  BY <1>1, WithoutPlaces, WithoutCells, StayEntries
<1>7. Only(Cells, l, l2, W) /\ Chain(l2, h, p)
  OBVIOUS
<1>5. \A g \in Heads \ {h} : g \notin W /\ (g \in S => Ring(g, ch[g]) \cap W = {})
  <2> SUFFICES ASSUME NEW g \in Heads \ {h}
               PROVE  g \notin W /\ (g \in S => Ring(g, ch[g]) \cap W = {})
    OBVIOUS
  <2>1. \A j \in 1..Len(ch[h]) : ch[h][j] \in Entries
    BY <1>1
  <2>2. g \notin W
    BY <2>1, SomeFacts DEF Ring
  <2>3. g \in S => Ring(g, ch[g]) \cap W = {}
    BY DEF Hold
  <2> QED BY <2>2, <2>3
<1> HIDE DEF p, W, e
<1>4. ch2 \in [Heads -> Seq(Entries) \cup {Null}] /\ ch2[h] = p /\ \A g \in Heads \ {h} : ch2[g] = ch[g]
  BY <1>1, <1>3
<1> HIDE DEF ch2
<1>6. W \ {e} \subseteq S2 /\ h \in S2 /\ S2 \subseteq Cells
      /\ \A x \in Cells \ W : x \in S <=> x \in S2
  BY <1>1, <1>2
<1>8. \A x \in S2 \cap W : x \in W \ {e}
  OBVIOUS
<1> HIDE DEF S2
<1>9. Hold(l2, S2, ch2)
  <2> DEFINE H == {h}
  <2>1. H \in SUBSET Heads /\ W \in SUBSET Cells
    BY <1>1
  <2>2. \A g \in Heads \ H : ch2[g] = ch[g] /\ g \notin W /\ (g \in S => Ring(g, ch[g]) \cap W = {})
    BY <1>4, <1>5
  <2>3. \A g \in H : g \in S2 /\ ch2[g] \in Seq(Entries) /\ ch2[g] \in Chains(Cells, g)
                     /\ Chain(l2, g, ch2[g]) /\ Ring(g, ch2[g]) \subseteq W
                     /\ Ring(g, ch2[g]) \subseteq S2
    BY <1>3, <1>4, <1>6, <1>7
  <2>4. \A g \in H : g \in S => Ring(g, ch[g]) \subseteq W
    BY DEF W
  <2>5. \A f, g \in H : f # g => Ring(f, ch2[f]) \cap Ring(g, ch2[g]) = {}
    OBVIOUS
  <2>6. \A x \in S2 \cap W : \E g \in H : x \in Ring(g, ch2[g])
    BY <1>3, <1>4, <1>8
  <2> HIDE DEF H
  <2>7. Replaced(l, S, ch, l2, S2, ch2, H, W)
    BY <1>4, <1>6, <1>7, <2>1, <2>2, <2>3, <2>4, <2>5, <2>6 DEF Replaced
  <2> QED BY <2>7, HoldUpdated
<1> QED BY <1>9 DEF S2, ch2, p, e


-----------------------------------------------------------------------------
\* As sequences, in the words of Lists.
LEMMA PutIsInsertAt ==
  ASSUME NEW D, NEW c \in Seq(D), NEW e \in D, NEW i \in 0..Len(c)
  PROVE  Put(c, i, e) = Abstract!InsertAt(c, i + 1, e)
<1> DEFINE a == SubSeq(c, 1, i)
           b == SubSeq(c, i + 1, Len(c))
           s == a \o <<e>> \o b
           n == Len(c) + 1
           p == Put(c, i, e)
<1>1. Len(c) \in Nat /\ i \in 0..Len(c) /\ \A j \in 1..Len(c) : c[j] \in D
  OBVIOUS
<1>2. a \in Seq(D) /\ Len(a) = i /\ \A j \in 1..i : a[j] = c[j]
  BY <1>1
<1>3. b \in Seq(D) /\ Len(b) = Len(c) - i /\ \A j \in 1..(Len(c) - i) : b[j] = c[i + j]
  BY <1>1
<1>4. Abstract!InsertAt(c, i + 1, e) = s
  <2>1. (i + 1) - 1 = i
    BY <1>1
  <2>2. Abstract!InsertAt(c, i + 1, e) = SubSeq(c, 1, (i + 1) - 1) \o <<e>> \o SubSeq(c, i + 1, Len(c))
    BY Zenon DEF Abstract!InsertAt
  <2> QED BY <2>1, <2>2, Zenon
<1> HIDE DEF a, b
<1>5. a \o <<e>> \in Seq(D) /\ Len(a \o <<e>>) = i + 1
      /\ (\A j \in 1..i : (a \o <<e>>)[j] = c[j]) /\ (a \o <<e>>)[i + 1] = e
  BY <1>1, <1>2
<1>6. s \in Seq(D) /\ Len(s) = n
      /\ (\A j \in 1..(i + 1) : s[j] = (a \o <<e>>)[j])
      /\ \A j \in (i + 2)..n : s[j] = b[j - (i + 1)]
  BY <1>1, <1>3, <1>5
<1>7. p \in Seq(D) /\ Len(p) = n /\ \A j \in 1..n :
        p[j] = IF j <= i THEN c[j] ELSE IF j = i + 1 THEN e ELSE c[j - 1]
  <2>1. \A j \in 1..n : (j <= i => j \in 1..Len(c)) /\ (~(j <= i) /\ j # i + 1 => j - 1 \in 1..Len(c))
    BY <1>1
  <2>2. p \in [1..n -> D]
    BY <1>1, <2>1 DEF Put
  <2>3. n \in Nat
    BY <1>1
  <2>4. \A j \in 1..n : p[j] = IF j <= i THEN c[j] ELSE IF j = i + 1 THEN e ELSE c[j - 1]
    BY DEF Put
  <2> HIDE DEF n, p
  <2> QED BY <2>2, <2>3, <2>4
<1>n. n = Len(c) + 1
  OBVIOUS
<1> HIDE DEF s, p, n
<1>8. \A j \in 1..n : p[j] = s[j]
  <2> TAKE j \in 1..n
  <2>1. CASE j <= i
    <3>1. j \in 1..i /\ j \in 1..(i + 1)
      BY <1>1, <1>n, <2>1
    <3> QED BY <1>5, <1>6, <1>7, <2>1, <3>1
  <2>2. CASE j = i + 1
    BY <1>1, <1>n, <1>5, <1>6, <1>7, <2>2
  <2>3. CASE j > i + 1
    <3> DEFINE k == j - (i + 1)
    <3>1. k \in 1..(Len(c) - i) /\ i + k = j - 1 /\ j \in (i + 2)..n /\ ~(j <= i) /\ j # i + 1
      BY <1>1, <1>n, <2>3
    <3>2. s[j] = c[j - 1]
      BY <1>3, <1>6, <3>1
    <3> QED BY <1>7, <3>1, <3>2
  <2>4. j <= i \/ j = i + 1 \/ j > i + 1
    BY <1>1, <1>n
  <2> QED BY <2>1, <2>2, <2>3, <2>4
<1>9. p = s
  BY <1>6, <1>7, <1>8, SeqEqual
<1> QED BY <1>4, <1>9 DEF p

LEMMA WithoutIsRemoveAt ==
  ASSUME NEW D, NEW c \in Seq(D), NEW i \in 1..Len(c)
  PROVE  Without(c, i) = Abstract!RemoveAt(c, i)
BY WithoutIsRest DEF Abstract!RemoveAt

LEMMA WithoutLastIsFront ==
  ASSUME NEW D, NEW c \in Seq(D), Len(c) # 0
  PROVE  Without(c, Len(c)) = Abstract!Front(c)
<1> DEFINE n == Len(c) - 1
           p == Without(c, Len(c))
           s == SubSeq(c, 1, n)
<1>1. Len(c) \in Nat /\ n \in Nat /\ \A j \in 1..Len(c) : c[j] \in D
  OBVIOUS
<1>2. s \in Seq(D) /\ Len(s) = n /\ \A j \in 1..n : s[j] = c[j]
  <2>1. n \in 0..Len(c)
    BY <1>1
  <2> HIDE DEF n
  <2> QED BY <1>1, <2>1
<1>3. \A j \in 1..n : j < Len(c) /\ j \in 1..Len(c)
  BY <1>1
<1>4. p \in [1..n -> D] /\ \A j \in 1..n : p[j] = c[j]
  BY <1>1, <1>3 DEF Without
<1>5. Abstract!Front(c) = s
  BY DEF Abstract!Front
<1> HIDE DEF n, p, s
<1>6. p \in Seq(D) /\ Len(p) = n
  BY <1>1, <1>4
<1>7. p = s
  BY <1>2, <1>4, <1>6, SeqEqual
<1> QED BY <1>5, <1>7 DEF p


-----------------------------------------------------------------------------
\* The lists after a step are ch2.
After(ch2) ==
  /\ Hold(links', linked', ch2)
  /\ ulListLen' = IF FreeQueue \in linked' THEN Len(ch2[FreeQueue]) ELSE 0

Now == ListsOf(links, linked)

\* What Lists calls lists.
LEMMA ListsNow == [h \in Heads |-> IF h \in linked THEN EntriesOf(h) ELSE Null] = Now
BY DEF Now, ListsOf, EntriesOf

LEMMA ListsAfter ==
  ASSUME NEW ch2, After(ch2)
  PROVE  /\ LInv' /\ [h \in Heads |-> IF h \in linked THEN EntriesOf(h) ELSE Null]' = ch2
         /\ ulListLen' = IF ch2[FreeQueue] = Null THEN 0 ELSE Len(ch2[FreeQueue])
<1>1. Hold(links', linked', ch2)
  BY DEF After
<1>2. ListsOf(links', linked') = ch2
  BY <1>1, HoldIsRead
<1>3. [h \in Heads |-> IF h \in linked THEN EntriesOf(h) ELSE Null]' = ch2
  BY <1>2 DEF ListsOf, EntriesOf
<1>4. LInv'
  BY <1>1, <1>2 DEF LInv, After
<1>5. FreeQueue \in linked' <=> ch2[FreeQueue] # Null
  BY <1>1, SomeFacts DEF Hold
<1> QED BY <1>3, <1>4, <1>5 DEF After

\* What the invariant says of the lists now.
LEMMA ListsAre ==
  ASSUME LInv
  PROVE  /\ Hold(links, linked, Now) /\ links \in LinksOn(Cells, Null) /\ linked \in SUBSET Cells
         /\ Now \in [Heads -> Seq(Entries) \cup {Null}]
         /\ \A h \in Heads : Now[h] # Null <=> h \in linked
         /\ \A h \in Heads \cap linked :
              /\ Now[h] \in Seq(Entries) /\ Now[h] \in Chains(Cells, h) /\ Chain(links, h, Now[h])
              /\ Ring(h, Now[h]) \subseteq linked
              /\ IsListEmpty(links, h) <=> Now[h] = << >>
              /\ Len(Now[h]) = 0 <=> Now[h] = << >>
         /\ \A x \in linked : \E h \in Heads \cap linked : x \in Ring(h, Now[h])
         /\ ulListLen = IF FreeQueue \in linked THEN Len(Now[FreeQueue]) ELSE 0
         /\ \A e \in Entries \ linked : e \notin Abstract!Used
<1>1. Hold(links, linked, Now)
  BY DEF LInv, Now
<1>2. ulListLen = IF FreeQueue \in linked THEN Len(Now[FreeQueue]) ELSE 0
  BY DEF LInv, Now
<1>3. ASSUME NEW h \in Heads \cap linked
      PROVE  /\ Now[h] \in Seq(Entries) /\ Now[h] \in Chains(Cells, h) /\ Chain(links, h, Now[h])
             /\ Ring(h, Now[h]) \subseteq linked
             /\ IsListEmpty(links, h) <=> Now[h] = << >>
             /\ Len(Now[h]) = 0 <=> Now[h] = << >>
  <2>1. /\ Now[h] \in Seq(Entries) /\ Now[h] \in Chains(Cells, h) /\ Chain(links, h, Now[h])
        /\ Ring(h, Now[h]) \subseteq linked /\ h \in Cells
    BY <1>1, SomeFacts DEF Hold
  <2>2. Len(Now[h]) = 0 <=> Now[h] = << >>
    BY <2>1
  <2> QED BY <2>1, <2>2, RingNeighbours
<1>4. \A h \in Heads : Now[h] # Null <=> h \in linked
  BY <1>1, SomeFacts DEF Hold
<1>5. ASSUME NEW e \in Entries \ linked
      PROVE  e \notin Abstract!Used
  <2>1. \A h \in Heads \cap linked : e \notin {Now[h][i] : i \in 1..Len(Now[h])}
    BY <1>3 DEF Ring
  <2>2. \A h \in Heads : Now[h] # Null => e \notin Abstract!ToSet(Now[h])
    BY <1>3, <1>4, <2>1 DEF Abstract!ToSet
  <2>3. Abstract!Used = UNION {Abstract!ToSet(Now[h]) : h \in {g \in Heads : Now[g] # Null}}
    BY ListsNow, Zenon DEF Abstract!Used
  <2> QED BY <2>2, <2>3
<1>6. \A x \in linked : \E h \in Heads \cap linked : x \in Ring(h, Now[h])
  BY <1>1 DEF Hold
<1>7. /\ links \in LinksOn(Cells, Null) /\ linked \in SUBSET Cells
      /\ Now \in [Heads -> Seq(Entries) \cup {Null}]
  BY <1>1 DEF Hold
<1> QED BY <1>1, <1>2, <1>3, <1>4, <1>5, <1>6, <1>7

LEMMA LBegins == Init => LInv /\ Abstract!LInit
<1> SUFFICES ASSUME Init PROVE LInv /\ Abstract!LInit
  OBVIOUS
<1> DEFINE none == [h \in Heads |-> Null]
<1>1. Hold(links, linked, none)
  BY DEF Init, Hold, LinksOn
<1>2. ListsOf(links, linked) = none
  BY <1>1, HoldIsRead
<1>3. LInv
  BY <1>1, <1>2 DEF LInv, Init
<1>4. Abstract!LInit
  BY <1>2, ListsNow DEF Abstract!LInit, Init, Now
<1> QED BY <1>3, <1>4


\* A step on one of the plain lists keeps the queue's, and its count.
LEMMA PlainAfter ==
  ASSUME LInv, UNCHANGED ulListLen, NEW ch2, Hold(links', linked', ch2),
         ch2[FreeQueue] = Now[FreeQueue]
  PROVE  After(ch2)
<1>1. FreeQueue \in linked <=> FreeQueue \in linked'
  <2>1. FreeQueue \in linked' <=> ch2[FreeQueue] # Null
    BY SomeFacts DEF Hold
  <2> QED BY <2>1, ListsAre, SomeFacts
<1> QED BY <1>1, ListsAre DEF After

\* A step of Lists on the list of a plain head.
LEMMA PlainStep ==
  ASSUME LInv, UNCHANGED ulListLen, NEW ch2, Hold(links', linked', ch2),
         ch2[FreeQueue] = Now[FreeQueue],
         NEW h \in (Heads \ {FreeQueue}) \cap linked,
         After(ch2) => Abstract!Plain(h)
  PROVE  LInv' /\ Abstract!LNext
<1>1. After(ch2) /\ h \in Heads /\ h # FreeQueue /\ Now[h] # Null
  BY PlainAfter, ListsAre
<1>2. Abstract!Plain(h)
  BY <1>1
<1>3. h \in {g \in Heads \ {FreeQueue} :
               [k \in Heads |-> IF k \in linked THEN EntriesOf(k) ELSE Null][g] # Null}
  BY <1>1, ListsNow
<1> QED BY <1>1, <1>2, <1>3, ListsAfter, Zenon DEF Abstract!LNext

LEMMA InitializeStep ==
  ASSUME LInv, NEW h \in Heads, Initialize(h)
  PROVE  LInv' /\ Abstract!LNext
<1> DEFINE ch2 == [Now EXCEPT ![h] = << >>]
<1>1. /\ h \notin linked /\ links' = InitializeListHead(links, h) /\ linked' = linked \cup {h}
      /\ ulListLen' = ulListLen /\ out' = <<"Initialize", Null>>
  BY DEF Initialize, Done
<1>2. /\ links' \in LinksOn(Cells, Null) /\ Only(Cells, links, links', {h})
      /\ << >> \in Chains(Cells, h) /\ Chain(links', h, << >>) /\ h \in Cells
  BY <1>1, ListsAre, SomeFacts, InitializeDoes
<1>3. Hold(links', linked', ch2)
  <2> DEFINE H == {h}
  <2>1. Ring(h, << >>) = {h}
    BY DEF Ring
  <2>2. /\ linked' \in SUBSET Cells /\ ch2 \in [Heads -> Seq(Entries) \cup {Null}]
        /\ ch2[h] = << >> /\ << >> \in Seq(Entries) /\ \A g \in Heads \ {h} : ch2[g] = Now[g]
    BY <1>1, <1>2, ListsAre
  <2>3. \A g \in Heads \ {h} : g \in linked => Ring(g, Now[g]) \cap {h} = {}
    BY <1>1, ListsAre
  <2> HIDE DEF ch2
  <2>4. Replaced(links, linked, Now, links', linked', ch2, H, H)
    BY <1>1, <1>2, <2>1, <2>2, <2>3 DEF Replaced
  <2> QED BY <2>4, ListsAre, HoldUpdated
<1>4. Now \in [Heads -> Seq(Entries) \cup {Null}] /\ Now[h] = Null
  BY <1>1, ListsAre
<1>5. After(ch2)
  <2>1. CASE h = FreeQueue
    <3>1. ch2[FreeQueue] = << >> /\ ulListLen = 0 /\ FreeQueue \in linked'
      BY <1>1, <1>4, <2>1, ListsAre
    <3> QED BY <1>1, <1>3, <3>1 DEF After
  <2>2. CASE h # FreeQueue
    <3>1. ch2[FreeQueue] = Now[FreeQueue]
      BY <1>4, <2>2
    <3> HIDE DEF ch2
    <3> QED BY <1>1, <1>3, <3>1, PlainAfter
  <2> QED BY <2>1, <2>2
<1> HIDE DEF ch2
<1>6. Abstract!Create(h)
  <2>1. ch2 = [Now EXCEPT ![h] = << >>]
    BY DEF ch2
  <2> QED BY <1>1, <1>4, <1>5, <2>1, ListsNow, ListsAfter DEF Abstract!Create, Abstract!Becomes, Abstract!Done
<1> QED BY <1>5, <1>6, ListsAfter, Zenon DEF Abstract!LNext

\* An entry is put into a list, anywhere.
LEMMA PutStep ==
  ASSUME LInv, NEW h \in (Heads \ {FreeQueue}) \cap linked, NEW e \in Entries \ linked,
         NEW i \in 0..Len(Now[h]), links' \in LinksOn(Cells, Null), linked' = linked \cup {e},
         Only(Cells, links, links', Ring(h, Now[h]) \cup {e}),
         Chain(links', h, Put(Now[h], i, e)), UNCHANGED ulListLen,
         \/ i = 0 /\ out' = <<"InsertHead", Null>>
         \/ i = Len(Now[h]) /\ out' = <<"InsertTail", Null>>
         \/ out' = <<"InsertBefore", Null>>
  PROVE  LInv' /\ Abstract!LNext
<1> DEFINE p == Put(Now[h], i, e)
           ch2 == [Now EXCEPT ![h] = p]
<1>1. Now \in [Heads -> Seq(Entries) \cup {Null}] /\ Now[h] \in Seq(Entries) /\ e \notin Abstract!Used
  BY ListsAre
<1>2. Hold(links', linked', ch2)
  BY ListsAre, HoldPut
<1>3. ch2[FreeQueue] = Now[FreeQueue]
  BY <1>1
<1>4. ASSUME After(ch2) PROVE Abstract!Plain(h)
  <2>1. [g \in Heads |-> IF g \in linked THEN EntriesOf(g) ELSE Null]' = ch2
    BY <1>4, ListsAfter
  <2>2. Abstract!Push(h, e)
    <3>1. CASE i = 0 /\ out' = <<"InsertHead", Null>>
      <4>1. p = <<e>> \o Now[h]
        BY <1>1, <3>1, PutFirstIsFirst
      <4> HIDE DEF p
      <4> QED BY <1>1, <2>1, <3>1, <4>1, ListsNow DEF Abstract!Push, Abstract!Becomes, Abstract!Done
    <3>2. CASE i = Len(Now[h]) /\ out' = <<"InsertTail", Null>>
      <4>1. p = Append(Now[h], e)
        BY <1>1, <3>2, PutLastIsAppend
      <4> HIDE DEF p
      <4> QED BY <1>1, <2>1, <3>2, <4>1, ListsNow DEF Abstract!Push, Abstract!Becomes, Abstract!Done
    <3>3. CASE out' = <<"InsertBefore", Null>>
      <4>1. p = Abstract!InsertAt(Now[h], i + 1, e) /\ i + 1 \in 1..(Len(Now[h]) + 1)
        BY <1>1, PutIsInsertAt
      <4> HIDE DEF p
      <4> QED BY <1>1, <2>1, <3>3, <4>1, ListsNow DEF Abstract!Push, Abstract!Becomes, Abstract!Done
    <3> QED BY <3>1, <3>2, <3>3
  <2> QED BY <2>2 DEF Abstract!Plain
<1> HIDE DEF ch2
<1> QED BY <1>2, <1>3, <1>4, PlainStep


\* An entry is taken from a list, wherever it is.
LEMMA TakeStep ==
  ASSUME LInv, NEW h \in (Heads \ {FreeQueue}) \cap linked, NEW i \in 1..Len(Now[h]),
         links' = RemoveEntryList(links, Now[h][i]), linked' = linked \ {Now[h][i]},
         UNCHANGED ulListLen,
         \/ out' = <<"Remove", WasLast(links, Now[h][i])>>
         \/ i = 1 /\ out' = <<"RemoveHead", Now[h][i]>>
         \/ i = Len(Now[h]) /\ out' = <<"RemoveTail", Now[h][i]>>
  PROVE  LInv' /\ Abstract!LNext
<1> DEFINE p == Without(Now[h], i)
           ch2 == [Now EXCEPT ![h] = p]
<1>1. Now \in [Heads -> Seq(Entries) \cup {Null}] /\ Now[h] \in Seq(Entries) /\ Len(Now[h]) # 0
      /\ Now[h] # << >>
  BY ListsAre
<1>2. /\ links' \in LinksOn(Cells, Null) /\ Only(Cells, links, links', Ring(h, Now[h]))
      /\ Chain(links', h, Without(Now[h], i)) /\ (WasLast(links, Now[h][i]) <=> Len(Now[h]) = 1)
  BY ListsAre, SomeFacts, RemoveEntryDoes
<1>3. Hold(links', linked', ch2)
  BY <1>2, ListsAre, HoldTake
<1>4. ch2[FreeQueue] = Now[FreeQueue]
  BY <1>1
<1>5. ASSUME After(ch2) PROVE Abstract!Plain(h)
  <2>1. [g \in Heads |-> IF g \in linked THEN EntriesOf(g) ELSE Null]' = ch2
    BY <1>5, ListsAfter
  <2>2. CASE out' = <<"Remove", WasLast(links, Now[h][i])>>
    <3>1. p = Abstract!RemoveAt(Now[h], i) /\ i \in DOMAIN Now[h]
      BY <1>1, WithoutIsRemoveAt
    <3>2. WasLast(links, Now[h][i]) = (Len(Now[h]) = 1)
      BY <1>2 DEF WasLast
    <3>3. out' = <<"Remove", Len(Now[h]) = 1>>
      BY <2>2, <3>2
    <3> HIDE DEF p
    <3>4. Abstract!Unlink(h, i)
      BY <2>1, <3>1, <3>3, ListsNow, Zenon DEF Abstract!Unlink, Abstract!Becomes, Abstract!Done
    <3>5. i \in DOMAIN [k \in Heads |-> IF k \in linked THEN EntriesOf(k) ELSE Null][h]
      BY <3>1, ListsNow, Zenon
    <3> QED BY <3>4, <3>5, Zenon DEF Abstract!Plain
  <2>3. CASE i = 1 /\ out' = <<"RemoveHead", Now[h][i]>>
    <3>1. p = Tail(Now[h]) /\ Now[h][i] = Head(Now[h])
      BY <1>1, <2>3, WithoutFirstIsTail
    <3> HIDE DEF p
    <3> QED BY <1>1, <2>1, <2>3, <3>1, ListsNow
         DEF Abstract!Plain, Abstract!Pop, Abstract!Becomes, Abstract!Done
  <2>4. CASE i = Len(Now[h]) /\ out' = <<"RemoveTail", Now[h][i]>>
    <3>1. p = Abstract!Front(Now[h]) /\ Now[h][i] = Abstract!Last(Now[h])
      BY <1>1, <2>4, WithoutLastIsFront DEF Abstract!Last
    <3> HIDE DEF p
    <3> QED BY <1>1, <2>1, <2>4, <3>1, ListsNow
         DEF Abstract!Plain, Abstract!Pop, Abstract!Becomes, Abstract!Done
  <2> QED BY <2>2, <2>3, <2>4
<1> HIDE DEF ch2
<1> QED BY <1>3, <1>4, <1>5, PlainStep

\* The ends of a list.
LEMMA EndIs ==
  ASSUME LInv, NEW h \in Heads \cap linked
  PROVE  /\ Now[h] = << >> => /\ RemoveHeadList(links, h) = links /\ RemoveTailList(links, h) = links
                              /\ links.Flink[h] = h /\ links.Blink[h] = h
         /\ Now[h] # << >> =>
              /\ 1 \in 1..Len(Now[h]) /\ Len(Now[h]) \in 1..Len(Now[h])
              /\ RemoveHeadList(links, h) = RemoveEntryList(links, Now[h][1])
              /\ RemoveTailList(links, h) = RemoveEntryList(links, Now[h][Len(Now[h])])
              /\ links.Flink[h] = Now[h][1] /\ links.Blink[h] = Now[h][Len(Now[h])]
              /\ Now[h][1] \in Entries \cap linked /\ Now[h][Len(Now[h])] \in Entries \cap linked
<1>1. /\ h \in Cells /\ Now[h] \in Seq(Entries) /\ Now[h] \in Chains(Cells, h) /\ Chain(links, h, Now[h])
      /\ Ring(h, Now[h]) \subseteq linked /\ links \in LinksOn(Cells, Null)
      /\ (Len(Now[h]) = 0 <=> Now[h] = << >>)
  BY ListsAre, SomeFacts
<1>2. CASE Now[h] = << >>
  <2>1. links.Flink[h] = At(Now[h], h, 1) /\ links.Blink[h] = At(Now[h], h, 0)
    BY <1>1, <1>2, RingNeighbours
  <2>2. At(Now[h], h, 1) = h /\ At(Now[h], h, 0) = h
    BY <1>2 DEF At
  <2> QED BY <1>1, <1>2, <2>1, <2>2, RemoveEndDoes
<1>3. CASE Now[h] # << >>
  <2>1. 1 \in 1..Len(Now[h]) /\ Len(Now[h]) \in 1..Len(Now[h])
    BY <1>1, <1>3
  <2>2. \A i \in 1..Len(Now[h]) : Now[h][i] \in Entries \cap linked
    BY <1>1 DEF Ring
  <2> QED BY <1>1, <1>3, <2>1, <2>2, RemoveEndDoes
<1> QED BY <1>2, <1>3

LEMMA RemoveEndStep ==
  ASSUME LInv, NEW h \in Heads \ {FreeQueue}, RemoveEnd(h)
  PROVE  LInv' /\ Abstract!LNext
<1>1. /\ h \in linked /\ ulListLen' = ulListLen /\ linked' = linked \ ({out'[2]} \ {h})
      /\ \/ links' = RemoveHeadList(links, h) /\ out' = <<"RemoveHead", links.Flink[h]>>
         \/ links' = RemoveTailList(links, h) /\ out' = <<"RemoveTail", links.Blink[h]>>
  BY DEF RemoveEnd, Done
<1>2. CASE Now[h] = << >>
  <2>1. links' = links /\ linked' = linked /\ (out' = <<"RemoveHead", h>> \/ out' = <<"RemoveTail", h>>)
    BY <1>1, <1>2, EndIs
  <2>2. Hold(links', linked', Now)
    BY <2>1, ListsAre
  <2>3. ASSUME After(Now) PROVE Abstract!Plain(h)
    <3>1. [g \in Heads |-> IF g \in linked THEN EntriesOf(g) ELSE Null]' = Now
      BY <2>3, ListsAfter
    <3> QED BY <1>2, <2>1, <3>1, ListsNow, Zenon DEF Abstract!Plain, Abstract!Pop, Abstract!Done
  <2> QED BY <1>1, <2>2, <2>3, PlainStep
<1>3. CASE Now[h] # << >>
  <2>1. \A e \in Entries : e # h
    BY SomeFacts
  <2>2. CASE links' = RemoveHeadList(links, h) /\ out' = <<"RemoveHead", links.Flink[h]>>
    <3>1. /\ 1 \in 1..Len(Now[h]) /\ links' = RemoveEntryList(links, Now[h][1])
          /\ out' = <<"RemoveHead", Now[h][1]>> /\ Now[h][1] \in Entries
      BY <1>1, <1>3, <2>2, EndIs
    <3>2. linked' = linked \ {Now[h][1]}
      BY <1>1, <2>1, <3>1
    <3> QED BY <1>1, <3>1, <3>2, TakeStep
  <2>3. CASE links' = RemoveTailList(links, h) /\ out' = <<"RemoveTail", links.Blink[h]>>
    <3> DEFINE n == Len(Now[h])
    <3>1. /\ n \in 1..Len(Now[h]) /\ links' = RemoveEntryList(links, Now[h][n])
          /\ out' = <<"RemoveTail", Now[h][n]>> /\ Now[h][n] \in Entries
      BY <1>1, <1>3, <2>3, EndIs
    <3>2. linked' = linked \ {Now[h][n]}
      BY <1>1, <2>1, <3>1
    <3>3. n = Len(Now[h])
      OBVIOUS
    <3> HIDE DEF n
    <3> QED BY <1>1, <3>1, <3>2, <3>3, TakeStep
  <2> QED BY <1>1, <2>2, <2>3
<1> QED BY <1>2, <1>3


\* What is not the queue's is in a plain list.
LEMMA NotQueued ==
  ASSUME LInv, NEW x \in linked, x \notin Queue
  PROVE  \E h \in (Heads \ {FreeQueue}) \cap linked : x \in Ring(h, Now[h])
<1>1. PICK h \in Heads \cap linked : x \in Ring(h, Now[h])
  BY ListsAre
<1>2. h # FreeQueue
  <2> SUFFICES ASSUME h = FreeQueue PROVE FALSE
    OBVIOUS
  <2>1. EntriesOf(FreeQueue) = Now[FreeQueue] /\ DOMAIN Now[FreeQueue] = 1..Len(Now[FreeQueue])
    <3>1. EntriesOf(FreeQueue) = Now[FreeQueue]
      BY SomeFacts DEF EntriesOf, Now, ListsOf
    <3>2. Now[FreeQueue] \in Seq(Entries)
      BY ListsAre
    <3> QED BY <3>1, <3>2
  <2>2. Queue = Ring(FreeQueue, Now[FreeQueue])
    BY <2>1 DEF Queue, Ring
  <2> QED BY <1>1, <2>2
<1> QED BY <1>1, <1>2

LEMMA InsertStep ==
  ASSUME LInv, NEW h \in Heads \ {FreeQueue}, NEW e \in Entries, Insert(h, e)
  PROVE  LInv' /\ Abstract!LNext
<1>1. /\ h \in linked /\ e \notin linked /\ linked' = linked \cup {e} /\ ulListLen' = ulListLen
      /\ \/ links' = InsertTailList(links, h, e) /\ out' = <<"InsertTail", Null>>
         \/ links' = InsertHeadList(links, h, e) /\ out' = <<"InsertHead", Null>>
  BY DEF Insert, Done
<1>2. /\ h \in Cells /\ links \in LinksOn(Cells, Null) /\ Now[h] \in Chains(Cells, h)
      /\ Chain(links, h, Now[h]) /\ Apart(Cells, h, Now[h], e)
      /\ Len(Now[h]) \in 0..Len(Now[h]) /\ 0 \in 0..Len(Now[h])
  <2>1. h \in Heads \cap linked /\ Hold(links, linked, Now)
    BY <1>1, ListsAre
  <2>2. Now[h] \in Seq(Entries) /\ Now[h] \in Chains(Cells, h) /\ Chain(links, h, Now[h]) /\ h \in Cells
    BY <2>1, ListsAre, SomeFacts
  <2> QED BY <1>1, <2>1, <2>2, ListsAre, NotIn
<1>3. CASE links' = InsertTailList(links, h, e) /\ out' = <<"InsertTail", Null>>
  <2> DEFINE i == Len(Now[h])
  <2>1. /\ links' \in LinksOn(Cells, Null) /\ Only(Cells, links, links', Ring(h, Now[h]) \cup {e})
        /\ Chain(links', h, Put(Now[h], i, e))
    BY <1>2, <1>3, InsertTailDoes
  <2>2. i \in 0..Len(Now[h]) /\ i = Len(Now[h])
    BY <1>2
  <2> HIDE DEF i
  <2> QED BY <1>1, <1>3, <2>1, <2>2, PutStep
<1>4. CASE links' = InsertHeadList(links, h, e) /\ out' = <<"InsertHead", Null>>
  <2>1. /\ links' \in LinksOn(Cells, Null) /\ Only(Cells, links, links', Ring(h, Now[h]) \cup {e})
        /\ Chain(links', h, Put(Now[h], 0, e))
    BY <1>2, <1>4, InsertHeadDoes
  <2> QED BY <1>1, <1>2, <1>4, <2>1, PutStep
<1> QED BY <1>1, <1>3, <1>4

LEMMA InsertBeforeStep ==
  ASSUME LInv, NEW base \in Cells \ Queue, NEW e \in Entries, InsertBefore(base, e)
  PROVE  LInv' /\ Abstract!LNext
<1>1. /\ base \in linked /\ e \notin linked /\ links' = InsertBeforeEntry(links, base, e)
      /\ linked' = linked \cup {e} /\ ulListLen' = ulListLen /\ out' = <<"InsertBefore", Null>>
  BY DEF InsertBefore, Done
<1>2. PICK h \in (Heads \ {FreeQueue}) \cap linked : base \in Ring(h, Now[h])
  BY <1>1, NotQueued
<1>3. /\ h \in Cells /\ links \in LinksOn(Cells, Null) /\ Now[h] \in Chains(Cells, h)
      /\ Chain(links, h, Now[h]) /\ Apart(Cells, h, Now[h], e) /\ Len(Now[h]) \in Nat
  <2>1. h \in Heads \cap linked /\ Hold(links, linked, Now)
    BY ListsAre
  <2>2. Now[h] \in Seq(Entries) /\ Now[h] \in Chains(Cells, h) /\ Chain(links, h, Now[h]) /\ h \in Cells
    BY <2>1, ListsAre, SomeFacts
  <2> QED BY <1>1, <2>1, <2>2, ListsAre, NotIn
<1>4. PICK i \in 0..Len(Now[h]) : base = At(Now[h], h, i + 1)
  <2>1. CASE base = h
    <3>1. Len(Now[h]) \in 0..Len(Now[h]) /\ base = At(Now[h], h, Len(Now[h]) + 1)
      BY <1>3, <2>1, AtPlaces
    <3> QED BY <3>1
  <2>2. CASE base # h
    <3>1. PICK j \in 1..Len(Now[h]) : base = Now[h][j]
      BY <1>2, <2>2 DEF Ring
    <3>2. j - 1 \in 0..Len(Now[h]) /\ (j - 1) + 1 = j /\ At(Now[h], h, j) = Now[h][j]
      BY <1>3, AtPlaces
    <3>3. base = At(Now[h], h, (j - 1) + 1)
      BY <3>1, <3>2
    <3> QED BY <3>2, <3>3
  <2> QED BY <2>1, <2>2
<1>5. /\ links' \in LinksOn(Cells, Null) /\ Only(Cells, links, links', Ring(h, Now[h]) \cup {e})
      /\ Chain(links', h, Put(Now[h], i, e))
  BY <1>1, <1>3, <1>4, InsertBeforeDoes
<1> QED BY <1>1, <1>5, PutStep

LEMMA RemoveStep ==
  ASSUME LInv, NEW e \in Entries \ Queue, Remove(e)
  PROVE  LInv' /\ Abstract!LNext
<1>1. /\ e \in linked /\ links' = RemoveEntryList(links, e) /\ linked' = linked \ {e}
      /\ ulListLen' = ulListLen /\ out' = <<"Remove", WasLast(links, e)>>
  BY DEF Remove, Done
<1>2. PICK h \in (Heads \ {FreeQueue}) \cap linked : e \in Ring(h, Now[h])
  BY <1>1, NotQueued
<1>3. PICK i \in 1..Len(Now[h]) : e = Now[h][i]
  BY <1>2, SomeFacts DEF Ring
<1> QED BY <1>1, <1>3, TakeStep

LEMMA ChangeStep ==
  ASSUME LInv, NEW old \in Heads \ {FreeQueue}, NEW new \in Heads \ {FreeQueue}, Change(old, new)
  PROVE  LInv' /\ Abstract!LNext
<1> DEFINE ch2 == [Now EXCEPT ![new] = Now[old], ![old] = << >>]
           c == Now[old]
<1>1. /\ old \in linked /\ old # new /\ (new \in linked => IsListEmpty(links, new))
      /\ links' = ChangeHead(links, old, new) /\ linked' = linked \cup {new}
      /\ ulListLen' = ulListLen /\ out' = <<"Change", Null>>
  BY DEF Change, Done
<1>2. /\ old \in Cells /\ new \in Cells /\ links \in LinksOn(Cells, Null) /\ c \in Chains(Cells, old)
      /\ Chain(links, old, c) /\ c \in Seq(Entries) /\ Ring(old, c) \subseteq linked /\ linked \subseteq Cells
  BY <1>1, ListsAre, SomeFacts
<1>3. new \notin Ring(old, c) /\ \A i \in 1..Len(c) : c[i] \in Entries
  BY <1>1, <1>2, SomeFacts DEF Ring
<1>4. /\ links' \in LinksOn(Cells, Null) /\ Only(Cells, links, links', Ring(old, c) \cup {new})
      /\ c \in Chains(Cells, new) /\ Chain(links', new, c)
      /\ << >> \in Chains(Cells, old) /\ Chain(links', old, << >>)
  BY <1>1, <1>2, <1>3, ChangeHeadDoes
<1>5. Now[new] \in {Null, << >>} /\ Now \in [Heads -> Seq(Entries) \cup {Null}]
  BY <1>1, ListsAre
<1>6. /\ ch2 \in [Heads -> Seq(Entries) \cup {Null}] /\ ch2[new] = c /\ ch2[old] = << >>
      /\ (\A g \in Heads \ {old, new} : ch2[g] = Now[g]) /\ << >> \in Seq(Entries)
  BY <1>1, <1>2, <1>5
<1> HIDE DEF ch2, c
<1>7. Hold(links', linked', ch2)
  <2> DEFINE H == {old, new}
             W == Ring(old, c) \cup {new}
  <2>1. Ring(new, c) = {new} \cup (Ring(old, c) \ {old}) /\ Ring(old, << >>) = {old} /\ old \in Ring(old, c)
        /\ Ring(new, << >>) = {new}
    <3>1. \A i \in 1..Len(c) : c[i] # old
      BY <1>2, AtPlaces
    <3> QED BY <3>1 DEF Ring
  <2>2. /\ linked' \in SUBSET Cells /\ H \in SUBSET Heads /\ W \in SUBSET Cells
        /\ W \subseteq linked' /\ linked \subseteq linked'
    BY <1>1, <1>2
  <2>3. \A g \in Heads \ H : g \notin W /\ (g \in linked => Ring(g, Now[g]) \cap W = {})
    <3> SUFFICES ASSUME NEW g \in Heads \ H
                 PROVE  g \notin W /\ (g \in linked => Ring(g, Now[g]) \cap W = {})
      OBVIOUS
    <3>1. g \notin W
      BY <1>3, SomeFacts DEF Ring
    <3>2. ASSUME g \in linked PROVE Ring(g, Now[g]) \cap W = {}
      <4>1. Ring(g, Now[g]) \cap Ring(old, c) = {} /\ Ring(g, Now[g]) \subseteq linked
        BY <1>1, <3>2, ListsAre DEF Hold, c
      <4>2. new \in linked => Ring(g, Now[g]) \cap Ring(new, Now[new]) = {}
        <5>1. g # new /\ g \in Heads /\ new \in Heads
          OBVIOUS
        <5> QED BY <3>2, <5>1, ListsAre DEF Hold
      <4>3. new \in Ring(new, Now[new])
        BY DEF Ring
      <4> QED BY <4>1, <4>2, <4>3
    <3> QED BY <3>1, <3>2
  <2>4. Ring(old, Now[old]) \subseteq W /\ (new \in linked => Ring(new, Now[new]) \subseteq W)
    <3>1. new \in linked => Now[new] = << >>
      BY <1>1, ListsAre
    <3> QED BY <2>1, <3>1 DEF c
  <2>5. \A h \in H : /\ h \in linked' /\ ch2[h] \in Seq(Entries) /\ ch2[h] \in Chains(Cells, h)
                     /\ Chain(links', h, ch2[h]) /\ Ring(h, ch2[h]) \subseteq W
                     /\ Ring(h, ch2[h]) \subseteq linked'
    <3>1. /\ new \in linked' /\ c \in Seq(Entries) /\ c \in Chains(Cells, new)
          /\ Chain(links', new, c) /\ Ring(new, c) \subseteq W
      BY <1>1, <1>2, <1>4, <2>1
    <3>2. /\ old \in linked' /\ << >> \in Chains(Cells, old) /\ Chain(links', old, << >>)
          /\ Ring(old, << >>) \subseteq W
      BY <1>1, <1>2, <1>4, <2>1, <2>2
    <3> HIDE DEF W
    <3>3. Ring(new, c) \subseteq linked' /\ Ring(old, << >>) \subseteq linked'
      BY <2>2, <3>1, <3>2
    <3> QED BY <1>6, <3>1, <3>2, <3>3
  <2>6. \A x \in linked' \cap W : \E h \in H : x \in Ring(h, ch2[h])
    BY <1>6, <2>1
  <2>7. \A g, h \in H : g # h => Ring(g, ch2[g]) \cap Ring(h, ch2[h]) = {}
    BY <1>1, <1>6, <2>1
  <2>8. \A x \in Cells \ W : x \in linked <=> x \in linked'
    BY <1>1
  <2>9. Only(Cells, links, links', W) /\ (\A g \in Heads \ H : ch2[g] = Now[g])
    BY <1>4, <1>6
  <2>10. \A h \in H : h \in linked => Ring(h, Now[h]) \subseteq W
    BY <2>4
  <2> HIDE DEF H, W
  <2>11. Replaced(links, linked, Now, links', linked', ch2, H, W)
    BY <1>4, <1>6, <2>2, <2>3, <2>5, <2>6, <2>7, <2>8, <2>9, <2>10 DEF Replaced
  <2> QED BY <2>11, ListsAre, HoldUpdated
<1>8. ch2[FreeQueue] = Now[FreeQueue]
  BY <1>6, SomeFacts
<1>9. ASSUME After(ch2) PROVE Abstract!Plain(old)
  <2>1. [g \in Heads |-> IF g \in linked THEN EntriesOf(g) ELSE Null]' = ch2
    BY <1>9, ListsAfter
  <2>2. ch2 = [Now EXCEPT ![new] = Now[old], ![old] = << >>]
    BY DEF ch2
  <2>3. Abstract!Move(old, new)
    BY <1>1, <1>5, <2>1, <2>2, ListsNow, Zenon DEF Abstract!Move, Abstract!Done
  <2> QED BY <2>3, Zenon DEF Abstract!Plain
<1> QED BY <1>1, <1>7, <1>8, <1>9, PlainStep


\* The queue gives its first entry and counts one less, or gives none.
LEMMA MallocStep ==
  ASSUME LInv, VHash_Malloc
  PROVE  LInv' /\ Abstract!LNext
<1>1. FreeQueue \in linked /\ FreeQueue \in Heads /\ Now[FreeQueue] # Null
      /\ Now[FreeQueue] \in Seq(Entries) /\ Now \in [Heads -> Seq(Entries) \cup {Null}]
  BY ListsAre, SomeFacts DEF VHash_Malloc
<1> DEFINE c == Now[FreeQueue]
<1>2. CASE IsListEmpty(links, FreeQueue)
  <2>1. UNCHANGED <<links, linked, ulListLen>> /\ out' = <<"VHash_Malloc", Null>> /\ c = << >>
    BY <1>1, <1>2, ListsAre DEF VHash_Malloc, Done
  <2>2. After(Now)
    <3>1. Hold(links', linked', Now)
      BY <2>1, ListsAre
    <3> QED BY <2>1, <3>1, ListsAre DEF After
  <2>3. [g \in Heads |-> IF g \in linked THEN EntriesOf(g) ELSE Null]' = Now
    BY <2>2, ListsAfter
  <2>4. Abstract!Malloc
    BY <2>1, <2>3, ListsNow, Zenon DEF Abstract!Malloc, Abstract!Done
  <2> QED BY <1>1, <2>2, <2>4, ListsAfter, ListsNow, Zenon DEF Abstract!LNext
<1>3. CASE ~IsListEmpty(links, FreeQueue)
  <2> DEFINE p == Without(c, 1)
             ch2 == [Now EXCEPT ![FreeQueue] = p]
  <2>1. c # << >> /\ Len(c) \in Nat /\ Len(c) # 0
    BY <1>1, <1>3, ListsAre
  <2>2. /\ links' = RemoveEntryList(links, c[1]) /\ linked' = linked \ {c[1]}
        /\ ulListLen' = ulListLen - 1 /\ out' = <<"VHash_Malloc", c[1]>>
        /\ 1 \in 1..Len(c) /\ c[1] \in Entries
    BY <1>1, <1>3, <2>1, EndIs DEF VHash_Malloc, Done
  <2>3. p = Tail(c) /\ c[1] = Head(c) /\ Len(p) = Len(c) - 1
    BY <1>1, <2>1, WithoutFirstIsTail
  <2>4. Hold(links', linked', ch2)
    <3>1. /\ links' \in LinksOn(Cells, Null) /\ Only(Cells, links, links', Ring(FreeQueue, c))
          /\ Chain(links', FreeQueue, Without(c, 1))
      BY <1>1, <2>2, ListsAre, SomeFacts, RemoveEntryDoes
    <3> QED BY <1>1, <2>2, <3>1, ListsAre, HoldTake
  <2>5. ch2[FreeQueue] = p
    BY <1>1
  <2> HIDE DEF p
  <2>6. After(ch2)
    <3>1. FreeQueue \in linked' /\ ulListLen = Len(c)
      BY <1>1, <2>2, ListsAre, SomeFacts
    <3> HIDE DEF ch2
    <3> QED BY <2>2, <2>3, <2>4, <2>5, <3>1 DEF After
  <2>7. ch2 = [Now EXCEPT ![FreeQueue] = Tail(c)]
    BY <2>3
  <2>8. [g \in Heads |-> IF g \in linked THEN EntriesOf(g) ELSE Null]' = ch2
    BY <2>6, ListsAfter
  <2> HIDE DEF ch2
  <2>9. Abstract!Malloc
    BY <2>1, <2>2, <2>3, <2>7, <2>8, ListsNow, Zenon DEF Abstract!Malloc, Abstract!Becomes, Abstract!Done
  <2> QED BY <1>1, <2>6, <2>9, ListsAfter, ListsNow, Zenon DEF Abstract!LNext
<1> QED BY <1>2, <1>3

LEMMA FreeStep ==
  ASSUME LInv, NEW e \in Entries, VHash_Free(e)
  PROVE  LInv' /\ Abstract!LNext
<1>1. FreeQueue \in linked /\ FreeQueue \in Heads /\ FreeQueue \in Cells /\ Now[FreeQueue] # Null
      /\ Now[FreeQueue] \in Seq(Entries) /\ Now \in [Heads -> Seq(Entries) \cup {Null}]
  BY ListsAre, SomeFacts DEF VHash_Free
<1> DEFINE c == Now[FreeQueue]
           i == Len(c)
           p == Put(c, i, e)
           ch2 == [Now EXCEPT ![FreeQueue] = p]
<1>2. /\ e \notin linked /\ links' = InsertTailList(links, FreeQueue, e) /\ linked' = linked \cup {e}
      /\ ulListLen' = ulListLen + 1 /\ out' = <<"VHash_Free", Null>> /\ e \notin Abstract!Used
  BY ListsAre DEF VHash_Free, Done
<1>3. p = Append(c, e) /\ Len(p) = Len(c) + 1
  BY <1>1, PutLastIsAppend
<1>4. Hold(links', linked', ch2)
  <2>1. Apart(Cells, FreeQueue, c, e) /\ c \in Chains(Cells, FreeQueue) /\ Chain(links, FreeQueue, c)
        /\ links \in LinksOn(Cells, Null)
    BY <1>1, <1>2, ListsAre, NotIn
  <2>2. /\ links' \in LinksOn(Cells, Null) /\ Only(Cells, links, links', Ring(FreeQueue, c) \cup {e})
        /\ Chain(links', FreeQueue, p)
    BY <1>1, <1>2, <2>1, InsertTailDoes
  <2>3. i \in 0..Len(c)
    BY <1>1
  <2> HIDE DEF i
  <2> QED BY <1>1, <1>2, <2>2, <2>3, ListsAre, HoldPut
<1>5. ch2[FreeQueue] = p
  BY <1>1
<1> HIDE DEF p
<1>6. After(ch2)
  <2>1. FreeQueue \in linked' /\ ulListLen = Len(c)
    BY <1>1, <1>2, ListsAre
  <2> HIDE DEF ch2
  <2> QED BY <1>2, <1>3, <1>4, <1>5, <2>1 DEF After
<1>7. ch2 = [Now EXCEPT ![FreeQueue] = Append(c, e)]
  BY <1>3
<1>8. [g \in Heads |-> IF g \in linked THEN EntriesOf(g) ELSE Null]' = ch2
  BY <1>6, ListsAfter
<1> HIDE DEF ch2
<1>9. Abstract!Free(e)
  BY <1>2, <1>7, <1>8, ListsNow, Zenon DEF Abstract!Free, Abstract!Becomes, Abstract!Done
<1> QED BY <1>1, <1>6, <1>9, ListsAfter, ListsNow, Zenon DEF Abstract!LNext

\* Every step of a caller is a step of Lists.
LEMMA LStep ==
  LInv /\ [Next]_vars => LInv' /\ [Abstract!LNext]_(Abstract!lvars)
<1> SUFFICES ASSUME LInv, [Next]_vars
             PROVE  LInv' /\ [Abstract!LNext]_(Abstract!lvars)
  OBVIOUS
<1>1. CASE UNCHANGED vars
  <2>1. After(Now) /\ out' = out /\ ulListLen' = ulListLen
    <3>1. links' = links /\ linked' = linked /\ ulListLen' = ulListLen /\ out' = out
      BY <1>1 DEF vars
    <3>2. Hold(links', linked', Now)
      BY <3>1, ListsAre
    <3> QED BY <3>1, <3>2, ListsAre DEF After
  <2> QED BY <2>1, ListsNow, ListsAfter, Zenon DEF Abstract!lvars
<1>2. CASE Next
  <2>1. Heads \ Queue \subseteq Heads \ {FreeQueue} \/ FreeQueue \notin linked
    BY DEF Queue
  <2>2. ASSUME NEW h \in Heads \ Queue, h \in linked PROVE h \in Heads \ {FreeQueue}
    BY <2>1, <2>2
  <2>3. ASSUME NEW h \in Heads \ Queue, RemoveEnd(h) PROVE LInv' /\ Abstract!LNext
    BY <2>2, <2>3, RemoveEndStep DEF RemoveEnd
  <2>4. ASSUME NEW h \in Heads \ Queue, NEW e \in Entries, Insert(h, e) PROVE LInv' /\ Abstract!LNext
    BY <2>2, <2>4, InsertStep DEF Insert
  <2>5. ASSUME NEW h \in Heads \ Queue, NEW new \in Heads \ {FreeQueue}, Change(h, new)
        PROVE  LInv' /\ Abstract!LNext
    BY <2>2, <2>5, ChangeStep DEF Change
  <2> QED BY <1>2, <2>3, <2>4, <2>5, InitializeStep, RemoveStep, InsertBeforeStep, MallocStep, FreeStep DEF Next
<1> QED BY <1>1, <1>2

-----------------------------------------------------------------------------
\* For any heads and entries, and any calls of list.c that keep its rules,
\* the links are chains, of lists that have no cell in common.
THEOREM ListsInvariant == Spec => []LInv
BY LBegins, LStep, PTL DEF Spec

\* Both directions of the links agree after every operation of list.c.
THEOREM RingsCorrect == Spec => []Rings
<1>1. LInv => Rings
  <2> SUFFICES ASSUME LInv, NEW x \in linked
               PROVE  /\ links.Flink[x] \in linked /\ links.Blink[links.Flink[x]] = x
                      /\ links.Blink[x] \in linked /\ links.Flink[links.Blink[x]] = x
    BY DEF Rings
  <2>1. PICK h \in Heads \cap linked : x \in Ring(h, Now[h])
    BY ListsAre
  <2>2. /\ h \in Cells /\ Now[h] \in Chains(Cells, h) /\ Chain(links, h, Now[h])
        /\ Ring(h, Now[h]) \subseteq linked
    BY ListsAre, SomeFacts
  <2> QED BY <2>1, <2>2, RingNeighbours
<1> QED BY <1>1, ListsInvariant, PTL

\* The lists read along Flink are those of Lists, in order, after every call
\* of list.c; what it returns is right, and the count of the queue of free
\* nodes, which VHash_Malloc and VHash_Free keep, is that of its entries.
THEOREM ListsRefined == Spec => ListsSpec
<1>1. Spec => Abstract!LInit /\ [][Abstract!LNext]_(Abstract!lvars)
  BY LBegins, LStep, PTL DEF Spec
<1> QED BY <1>1, Zenon DEF ListsSpec, Abstract!LSpec

\* RemoveHeadList and RemoveTailList give the head of the list just when it
\* is empty, and else an entry: never the head of another list.
THEOREM PopsEntries ==
  Spec => [][\A h \in Heads : RemoveEnd(h) =>
               IF IsListEmpty(links, h) THEN out'[2] = h
               ELSE out'[2] \in Entries \cap linked]_vars
<1> DEFINE P == \A h \in Heads : RemoveEnd(h) =>
                  IF IsListEmpty(links, h) THEN out'[2] = h
                  ELSE out'[2] \in Entries \cap linked
<1>1. LInv => P
  <2> SUFFICES ASSUME LInv, NEW h \in Heads, RemoveEnd(h)
               PROVE  IF IsListEmpty(links, h) THEN out'[2] = h
                      ELSE out'[2] \in Entries \cap linked
    OBVIOUS
  <2>1. h \in linked /\ (out'[2] = links.Flink[h] \/ out'[2] = links.Blink[h])
    BY DEF RemoveEnd, Done
  <2>2. IsListEmpty(links, h) <=> Now[h] = << >>
    BY <2>1, ListsAre
  <2> QED BY <2>1, <2>2, EndIs
<1>2. LInv /\ [Next]_vars => [P]_vars
  BY <1>1
<1> HIDE DEF P
<1>3. Spec => [][P]_vars
  BY <1>2, ListsInvariant, PTL DEF Spec
<1> QED BY <1>3 DEF P
=============================================================================
