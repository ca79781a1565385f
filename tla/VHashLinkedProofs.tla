------------------------- MODULE VHashLinkedProofs -------------------------
(***************************************************************************)
(* The hash table at the level of its pointers, for any keys, hash         *)
(* function, nodes and callbacks, in a program without VHash_Add_Node: its *)
(* links are chains of just the nodes that are allocated, at every step of *)
(* every call, and the calls implement VHash.                              *)
(***************************************************************************)
EXTENDS VHashLinked, ListLinksProofs

\* The lists that are read from the buckets.
ChainsOf(l) == [h \in Buckets |-> ListOf(l, h, Cardinality(Nodes), Null)]

\* ch are chains of l, and no node is in two.
Held(l, ch) ==
  /\ l \in LinksOn(Cells, Null)
  /\ ch \in [Buckets -> Seq(Nodes)]
  /\ \A h \in Buckets : ch[h] \in Chains(Cells, h) /\ Chain(l, h, ch[h])
  /\ \A g, h \in Buckets : g # h => Ring(g, ch[g]) \cap Ring(h, ch[h]) = {}

\* In the chains are the allocated nodes, each in that of its key.
Filled(it, ch) ==
  /\ \A h \in Buckets : \A i \in 1..Len(ch[h]) :
       ch[h][i] \in DOMAIN it /\ Hash[it[ch[h][i]].key] = h
  /\ \A n \in DOMAIN it : \E h \in Buckets : \E i \in 1..Len(ch[h]) : ch[h][i] = n

Items(it) ==
  /\ DOMAIN it \subseteq Nodes /\ it = [n \in DOMAIN it |-> it[n]]
  /\ \A n \in DOMAIN it : it[n].key \in Keys /\ it[n] = [key |-> it[n].key, val |-> it[n].val]

\* A table, its links and its nodes; without a table nothing is allocated.
InTable(t, l, it, ch) ==
  /\ t \in TableType \cup {Null} /\ l \in LinksOn(Cells, Null) /\ Items(it)
  /\ t = Null => DOMAIN it = {}
  /\ t # Null => Held(l, ch) /\ Filled(it, ch)

\* Where the search of the call in progress stands: at the node, or the head,
\* behind the first i, none of which has the key.
Searched(ch, i) ==
  /\ i \in 0..Len(ch) /\ call.at = At(ch, Hash[call.key], i + 1)
  /\ \A j \in 1..i : item[ch[j]].key # call.key

\* The chains before call.at are swept.
Swept(ch) ==
  /\ call.at \in 0..BucketCount
  /\ \A h \in Buckets : h < call.at => ch[h] = << >> /\ table.sum[h] = 0
  /\ before.table # Null /\ before.table.complete = table.complete

CallInv ==
  call # Null =>
    /\ call \in CallType /\ table # Null
    /\ call.op \in (Searches \cup Sweeps \cup {"Next", "Stat", "Lock"}) \ {"Add"}
    /\ call.op \in NeedCallbacks \cup {"Get"} => table.complete
    /\ call.op \in Searches => call.key \in Keys
    /\ call.op = "Next" => call.at \in DOMAIN item \cup {Null}
    /\ InTable(before.table, before.links, before.item, ChainsOf(before.links))
    /\ ~(call.op \in Sweeps /\ call.pc = "run") =>
         before.table = table /\ before.links = links /\ before.item = item
    /\ call.op \in Searches /\ call.pc = "run" =>
         \E i \in Nat : Searched(ChainsOf(links)[Hash[call.key]], i)
    /\ call.op \in Sweeps /\ call.pc = "run" => Swept(ChainsOf(links))

TInv ==
  /\ max \in {0, 1} /\ (table # Null => max = 1)
  /\ InTable(table, links, item, ChainsOf(links))
  /\ CallInv

\* The inductive invariant.
LinkedInv == "Add" \notin uses => TInv

-----------------------------------------------------------------------------
LEMMA Constants ==
  /\ Null \notin Cells /\ Null \notin TableType /\ Null \notin CallType
  /\ \A h \in Buckets : h \in Cells /\ h \notin Nodes /\ h \in Nat /\ h < BucketCount
  /\ \A n \in Nodes : n \in Cells /\ n \notin Buckets
  /\ IsFiniteSet(Nodes) /\ Cardinality(Nodes) \in Nat /\ BucketCount \in Nat \ {0}
  /\ \A k \in Keys : Hash[k] \in Buckets
BY BucketsAssumption, NodesAssumption, NullAssumption, FS_CardinalityType DEF Cells, Buckets

\* Chains are what is read.
LEMMA HeldIsRead ==
  ASSUME NEW l, NEW ch, Held(l, ch)
  PROVE  ChainsOf(l) = ch
<1>1. ASSUME NEW h \in Buckets
      PROVE  ListOf(l, h, Cardinality(Nodes), Null) = ch[h]
  <2>1. /\ h \in Cells /\ ch[h] \in Chains(Cells, h) /\ Chain(l, h, ch[h])
        /\ l \in LinksOn(Cells, Null) /\ ch[h] \in Seq(Nodes)
    BY <1>1, Constants DEF Held
  <2>2. \A i \in 1..Len(ch[h]) : ch[h][i] \in Nodes
    BY <2>1
  <2>3. Len(ch[h]) <= Cardinality(Nodes)
    BY <2>1, <2>2, Constants, ChainIsShort
  <2> QED BY <2>1, <2>3, Constants, ListIsChain
<1> QED BY <1>1 DEF Held, ChainsOf

\* The chain of one bucket is replaced, by one of its cells and of free ones.
LEMMA HeldUpdated ==
  ASSUME NEW l, NEW ch, Held(l, ch), NEW l2 \in LinksOn(Cells, Null), NEW h \in Buckets,
         NEW c \in Seq(Nodes), c \in Chains(Cells, h), Chain(l2, h, c),
         NEW N \in SUBSET Nodes, \A g \in Buckets : Ring(g, ch[g]) \cap N = {},
         Only(Cells, l, l2, Ring(h, ch[h]) \cup N), Ring(h, c) \subseteq Ring(h, ch[h]) \cup N
  PROVE  Held(l2, [ch EXCEPT ![h] = c])
<1> DEFINE ch2 == [ch EXCEPT ![h] = c]
           W == Ring(h, ch[h]) \cup N
<1>1. ch2 \in [Buckets -> Seq(Nodes)] /\ ch2[h] = c /\ \A g \in Buckets \ {h} : ch2[g] = ch[g]
  BY DEF Held
<1> HIDE DEF ch2
<1>2. ASSUME NEW g \in Buckets \ {h}
      PROVE  Ring(g, ch[g]) \cap W = {}
  BY DEF Held
<1>3. ASSUME NEW g \in Buckets
      PROVE  ch2[g] \in Chains(Cells, g) /\ Chain(l2, g, ch2[g])
  <2>1. CASE g = h
    BY <1>1, <2>1
  <2>2. CASE g # h
    <3>1. g \in Cells /\ ch[g] \in Chains(Cells, g) /\ Chain(l, g, ch[g]) /\ ch2[g] = ch[g]
      BY <1>1, <2>2, Constants DEF Held
    <3>2. ASSUME NEW i \in 0..Len(ch[g])
          PROVE  At(ch[g], g, i) \in Cells \ W
      <4>1. At(ch[g], g, i) \in Ring(g, ch[g])
        BY DEF At, Ring
      <4>2. At(ch[g], g, i) \in Cells
        BY <3>1, AtPlaces
      <4> QED BY <1>2, <2>2, <4>1, <4>2
    <3>3. \A i \in 0..Len(ch[g]) : /\ l2.Flink[At(ch[g], g, i)] = l.Flink[At(ch[g], g, i)]
                                   /\ l2.Blink[At(ch[g], g, i)] = l.Blink[At(ch[g], g, i)]
      BY <3>2 DEF Only
    <3>4. Chain(l2, g, ch[g])
      BY <3>1, <3>3, ChainKept
    <3> QED BY <3>1, <3>4
  <2> QED BY <2>1, <2>2
<1>4. ASSUME NEW f \in Buckets, NEW g \in Buckets, f # g
      PROVE  Ring(f, ch2[f]) \cap Ring(g, ch2[g]) = {}
  <2>1. CASE f = h
    BY <1>1, <1>2, <1>4, <2>1
  <2>2. CASE g = h
    BY <1>1, <1>2, <1>4, <2>2
  <2>3. CASE f # h /\ g # h
    BY <1>1, <1>4, <2>3 DEF Held
  <2> QED BY <2>1, <2>2, <2>3
<1> QED BY <1>1, <1>3, <1>4 DEF Held, ch2

\* A node that is not allocated is in no chain.
LEMMA FreeIsApart ==
  ASSUME NEW l, NEW it, NEW ch, Held(l, ch), Filled(it, ch), NEW n \in Nodes \ DOMAIN it
  PROVE  \A h \in Buckets : n \notin Ring(h, ch[h]) /\ Apart(Cells, h, ch[h], n)
BY Constants DEF Filled, Ring, Apart

\* Nodes of a chain stay nodes.
LEMMA StayNodes ==
  ASSUME NEW h \in Buckets, NEW c \in Chains(Cells, h), c \in Seq(Nodes)
  PROVE  /\ \A n \in Nodes : Put(c, Len(c), n) \in Seq(Nodes)
         /\ \A i \in 1..Len(c) : Without(c, i) \in Seq(Nodes)
<1>1. Len(c) \in Nat /\ \A j \in 1..Len(c) : c[j] \in Nodes
  OBVIOUS
<1>2. \A n \in Nodes : Put(c, Len(c), n) \in Seq(Nodes)
  BY PutLastIsAppend
<1>3. ASSUME NEW i \in 1..Len(c)
      PROVE  Without(c, i) \in Seq(Nodes)
  <2> DEFINE n == Len(c) - 1
             p == Without(c, i)
  <2>1. p \in [1..n -> Nodes]
    <3> SUFFICES ASSUME NEW j \in 1..n
                 PROVE  (IF j < i THEN c[j] ELSE c[j + 1]) \in Nodes
      BY DEF Without
    <3>1. j \in 1..Len(c) /\ j + 1 \in 1..Len(c)
      BY <1>1
    <3> QED BY <1>1, <3>1
  <2>2. n \in Nat
    BY <1>1
  <2> HIDE DEF n, p
  <2>3. p \in Seq(Nodes)
    BY <2>1, <2>2
  <2> QED BY <2>3 DEF p
<1> QED BY <1>2, <1>3


Added(it, n, k) ==
  [m \in DOMAIN it \cup {n} |-> IF m = n THEN [key |-> k, val |-> ZeroVal] ELSE it[m]]

\* A free node is linked at the end of the chain of its key.
LEMMA LinkDoes ==
  ASSUME NEW l, NEW it, NEW ch, Held(l, ch), Filled(it, ch), Items(it),
         NEW n \in Nodes \ DOMAIN it, NEW k \in Keys
  PROVE  LET h == Hash[k]
             it2 == Added(it, n, k)
             l2 == InsertTailList(l, h, n)
             ch2 == [ch EXCEPT ![h] = Append(ch[h], n)]
         IN  /\ l2 \in LinksOn(Cells, Null)
             /\ Held(l2, ch2) /\ Filled(it2, ch2) /\ Items(it2)
<1> DEFINE h == Hash[k]
           it2 == Added(it, n, k)
           l2 == InsertTailList(l, h, n)
           c == Put(ch[h], Len(ch[h]), n)
           ch2 == [ch EXCEPT ![h] = Append(ch[h], n)]
<1>1. /\ h \in Buckets /\ h \in Cells /\ n \in Cells /\ l \in LinksOn(Cells, Null)
      /\ ch \in [Buckets -> Seq(Nodes)] /\ ch[h] \in Chains(Cells, h) /\ Chain(l, h, ch[h])
      /\ Len(ch[h]) \in Nat /\ n \in Nodes
  BY Constants DEF Held
<1>2. \A g \in Buckets : n \notin Ring(g, ch[g]) /\ Apart(Cells, g, ch[g], n)
  BY FreeIsApart
<1> HIDE DEF h
<1>3. /\ l2 \in LinksOn(Cells, Null) /\ Only(Cells, l, l2, Ring(h, ch[h]) \cup {n})
      /\ Chain(l2, h, c)
  BY <1>1, <1>2, InsertTailDoes
<1>4. c = Append(ch[h], n) /\ c \in Seq(Nodes)
  <2>1. ch[h] \in Seq(Nodes) /\ n \in Nodes
    BY <1>1
  <2>2. c = Append(ch[h], n)
    BY <2>1, PutLastIsAppend
  <2> QED BY <2>1, <2>2
<1>5. c \in Chains(Cells, h) /\ Ring(h, c) = Ring(h, ch[h]) \cup {n}
  <2>1. /\ n \in Cells \ {h} /\ \A j \in 1..Len(ch[h]) : ch[h][j] # n
    BY <1>1, <1>2 DEF Apart
  <2>2. Len(ch[h]) \in 0..Len(ch[h])
    BY <1>1
  <2> QED BY <1>1, <2>1, <2>2, PutPlaces, PutCells
<1> HIDE DEF c, l2
<1>6. Held(l2, ch2)
  <2>1. \A g \in Buckets : Ring(g, ch[g]) \cap {n} = {}
    BY <1>2
  <2>2. Held(l2, [ch EXCEPT ![h] = c])
    BY <1>1, <1>3, <1>4, <1>5, <2>1, HeldUpdated
  <2> QED BY <1>4, <2>2
<1>7. /\ ch2[h] = Append(ch[h], n) /\ \A g \in Buckets \ {h} : ch2[g] = ch[g]
  BY <1>1
<1>8. /\ DOMAIN it2 = DOMAIN it \cup {n} /\ it2[n] = [key |-> k, val |-> ZeroVal]
      /\ \A m \in DOMAIN it : it2[m] = it[m]
  <2>1. n \notin DOMAIN it
    OBVIOUS
  <2> QED BY <2>1 DEF Added
<1>9. /\ Len(ch2[h]) = Len(ch[h]) + 1 /\ ch2[h][Len(ch[h]) + 1] = n
      /\ \A i \in 1..Len(ch[h]) : ch2[h][i] = ch[h][i]
  BY <1>1, <1>7
<1> HIDE DEF ch2
<1>n. it2 = [m \in DOMAIN it2 |-> it2[m]]
  BY DEF Added
<1> HIDE DEF it2
<1>10. Filled(it2, ch2)
  <2>1. ASSUME NEW g \in Buckets, NEW i \in 1..Len(ch2[g])
        PROVE  ch2[g][i] \in DOMAIN it2 /\ Hash[it2[ch2[g][i]].key] = g
    <3>1. CASE g = h /\ i = Len(ch[h]) + 1
      BY <1>8, <1>9, <3>1 DEF h
    <3>2. CASE g = h /\ i # Len(ch[h]) + 1
      <4>1. i \in 1..Len(ch[h])
        BY <1>1, <1>9, <3>2
      <4>2. ch[h][i] \in DOMAIN it /\ Hash[it[ch[h][i]].key] = h
        BY <1>1, <4>1 DEF Filled
      <4>3. ch2[g][i] = ch[h][i] /\ it2[ch[h][i]] = it[ch[h][i]] /\ ch[h][i] \in DOMAIN it2
        BY <1>8, <1>9, <3>2, <4>1, <4>2
      <4> QED BY <3>2, <4>2, <4>3
    <3>3. CASE g # h
      BY <1>7, <1>8, <3>3 DEF Filled
    <3> QED BY <3>1, <3>2, <3>3
  <2>2. ASSUME NEW m \in DOMAIN it2
        PROVE  \E g \in Buckets : \E i \in 1..Len(ch2[g]) : ch2[g][i] = m
    <3>1. CASE m = n
      <4>1. Len(ch[h]) + 1 \in 1..Len(ch2[h])
        BY <1>1, <1>9
      <4> QED BY <1>1, <1>9, <3>1, <4>1
    <3>2. CASE m # n
      <4>1. PICK g \in Buckets : \E i \in 1..Len(ch[g]) : ch[g][i] = m
        BY <1>8, <3>2 DEF Filled
      <4>2. PICK i \in 1..Len(ch[g]) : ch[g][i] = m
        BY <4>1
      <4>3. CASE g = h
        <5>1. i \in 1..Len(ch2[h]) /\ ch2[h][i] = m
          BY <1>1, <1>9, <4>2, <4>3
        <5> QED BY <1>1, <5>1
      <4>4. CASE g # h
        BY <1>7, <4>2, <4>4
      <4> QED BY <4>3, <4>4
    <3> QED BY <3>1, <3>2
  <2> QED BY <2>1, <2>2 DEF Filled
<1>11. Items(it2)
  <2>1. ASSUME NEW m \in DOMAIN it2
        PROVE  it2[m].key \in Keys /\ it2[m] = [key |-> it2[m].key, val |-> it2[m].val]
    <3>1. CASE m = n
      BY <1>8, <3>1
    <3>2. CASE m # n
      BY <1>8, <3>2 DEF Items
    <3> QED BY <3>1, <3>2
  <2>2. DOMAIN it2 \subseteq Nodes
    BY <1>1, <1>8 DEF Items
  <2> QED BY <1>n, <2>1, <2>2 DEF Items
<1> QED BY <1>3, <1>6, <1>10, <1>11 DEF h, l2, ch2, it2

\* A node is taken out of its chain, and freed.
LEMMA UnlinkDoes ==
  ASSUME NEW l, NEW it, NEW ch, Held(l, ch), Filled(it, ch), Items(it),
         NEW h \in Buckets, NEW i \in 1..Len(ch[h])
  PROVE  LET e == ch[h][i]
             l2 == Scrubbed(RemoveEntryList(l, e), e)
             ch2 == [ch EXCEPT ![h] = Without(ch[h], i)]
             it2 == [m \in DOMAIN it \ {e} |-> it[m]]
         IN  /\ l2 \in LinksOn(Cells, Null)
             /\ Held(l2, ch2) /\ Filled(it2, ch2) /\ Items(it2)
<1> DEFINE e == ch[h][i]
           l1 == RemoveEntryList(l, e)
           l2 == Scrubbed(l1, e)
           c == Without(ch[h], i)
           ch2 == [ch EXCEPT ![h] = c]
           it2 == [m \in DOMAIN it \ {e} |-> it[m]]
<1>1. /\ h \in Cells /\ l \in LinksOn(Cells, Null)
      /\ ch \in [Buckets -> Seq(Nodes)] /\ ch[h] \in Chains(Cells, h) /\ Chain(l, h, ch[h])
      /\ Len(ch[h]) \in Nat /\ ch[h] \in Seq(Nodes)
  BY Constants DEF Held
<1>2. e \in Nodes /\ e \in Cells /\ e \in Ring(h, ch[h]) /\ e # h
  BY <1>1, Constants DEF Ring
<1>3. /\ l1 \in LinksOn(Cells, Null) /\ Only(Cells, l, l1, Ring(h, ch[h]))
      /\ \A x \in Cells \ {e} :
           /\ l1.Flink[x] = IF x = At(ch[h], h, i - 1) THEN At(ch[h], h, i + 1) ELSE l.Flink[x]
           /\ l1.Blink[x] = IF x = At(ch[h], h, i + 1) THEN At(ch[h], h, i - 1) ELSE l.Blink[x]
  BY <1>1, RemoveEntryDoes
<1> HIDE DEF l1
<1>4. /\ l2 \in LinksOn(Cells, Null)
      /\ \A x \in Cells \ {e} : l2.Flink[x] = l1.Flink[x] /\ l2.Blink[x] = l1.Blink[x]
  BY <1>2, <1>3 DEF Scrubbed, LinksOn
<1> HIDE DEF l2
<1>5. Chain(l2, h, c)
  <2>1. \A x \in Cells \ {ch[h][i]} :
          /\ l2.Flink[x] = IF x = At(ch[h], h, i - 1) THEN At(ch[h], h, i + 1) ELSE l.Flink[x]
          /\ l2.Blink[x] = IF x = At(ch[h], h, i + 1) THEN At(ch[h], h, i - 1) ELSE l.Blink[x]
    BY <1>3, <1>4
  <2> QED BY <1>1, <2>1, ChainWithout
<1>6. Only(Cells, l, l2, Ring(h, ch[h]) \cup {})
  BY <1>2, <1>3, <1>4 DEF Only
<1>7. /\ c \in Chains(Cells, h) /\ c \in Seq(Nodes) /\ Ring(h, c) = Ring(h, ch[h]) \ {e}
      /\ Len(c) = Len(ch[h]) - 1
  BY <1>1, StayNodes, WithoutPlaces, WithoutCells
<1>8. \A j \in 1..(Len(ch[h]) - 1) : c[j] = IF j < i THEN ch[h][j] ELSE ch[h][j + 1]
  BY DEF Without
<1> HIDE DEF c
<1>9. Held(l2, ch2)
  <2>1. Ring(h, c) \subseteq Ring(h, ch[h]) \cup {}
    BY <1>7
  <2>2. \A g \in Buckets : Ring(g, ch[g]) \cap {} = {}
    OBVIOUS
  <2> QED BY <1>4, <1>5, <1>6, <1>7, <2>1, <2>2, HeldUpdated
<1>10. ch2[h] = c /\ \A g \in Buckets \ {h} : ch2[g] = ch[g]
  BY <1>1
<1>11. DOMAIN it2 = DOMAIN it \ {e} /\ \A m \in DOMAIN it2 : it2[m] = it[m]
  OBVIOUS
<1> HIDE DEF ch2, it2
<1>12. \A j, k \in 1..Len(ch[h]) : ch[h][j] = ch[h][k] => j = k
  BY <1>1 DEF Chains
<1>13. Filled(it2, ch2)
  <2>1. ASSUME NEW g \in Buckets, NEW j \in 1..Len(ch2[g])
        PROVE  ch2[g][j] \in DOMAIN it2 /\ Hash[it2[ch2[g][j]].key] = g
    <3>1. CASE g = h
      <4>1. ch2[g] = c /\ j \in 1..(Len(ch[h]) - 1)
        BY <1>7, <1>10, <3>1
      <4>2. PICK k \in 1..Len(ch[h]) : c[j] = ch[h][k] /\ k # i
        <5>1. CASE j < i
          <6>1. j \in 1..Len(ch[h]) /\ j # i /\ c[j] = ch[h][j]
            BY <1>1, <1>8, <4>1, <5>1
          <6> QED BY <6>1
        <5>2. CASE ~(j < i)
          <6>1. j + 1 \in 1..Len(ch[h]) /\ j + 1 # i /\ c[j] = ch[h][j + 1]
            BY <1>1, <1>8, <4>1, <5>2
          <6> QED BY <6>1
        <5> QED BY <5>1, <5>2
      <4>3. ch[h][k] # e
        BY <1>12, <4>2
      <4> QED BY <1>11, <3>1, <4>1, <4>2, <4>3 DEF Filled
    <3>2. CASE g # h
      <4>1. j \in 1..Len(ch[g]) /\ ch2[g][j] = ch[g][j]
        BY <1>10, <3>2
      <4>2. ch[g][j] # e
        <5>1. ch[g][j] \in Ring(g, ch[g])
          BY <4>1 DEF Ring
        <5>2. Ring(g, ch[g]) \cap Ring(h, ch[h]) = {}
          BY <3>2 DEF Held
        <5> QED BY <1>2, <5>1, <5>2
      <4> QED BY <1>11, <4>1, <4>2 DEF Filled
    <3> QED BY <3>1, <3>2
  <2>2. ASSUME NEW m \in DOMAIN it2
        PROVE  \E g \in Buckets : \E j \in 1..Len(ch2[g]) : ch2[g][j] = m
    <3>1. m \in DOMAIN it /\ m # e
      BY <1>11
    <3>2. PICK g \in Buckets : \E j \in 1..Len(ch[g]) : ch[g][j] = m
      BY <3>1 DEF Filled
    <3>3. PICK j \in 1..Len(ch[g]) : ch[g][j] = m
      BY <3>2
    <3>4. CASE g # h
      BY <1>10, <3>3, <3>4
    <3>5. CASE g = h /\ j < i
      <4>1. j \in 1..(Len(ch[h]) - 1) /\ c[j] = m
        BY <1>1, <1>8, <3>3, <3>5
      <4> QED BY <1>7, <1>10, <4>1
    <3>6. CASE g = h /\ ~(j < i)
      <4>1. j # i
        BY <3>1, <3>3, <3>6
      <4>2. j - 1 \in 1..(Len(ch[h]) - 1) /\ c[j - 1] = m
        BY <1>1, <1>8, <3>3, <3>6, <4>1
      <4> QED BY <1>7, <1>10, <4>2
    <3> QED BY <3>4, <3>5, <3>6
  <2> QED BY <2>1, <2>2 DEF Filled
<1>14. Items(it2)
  BY <1>11 DEF Items, it2
<1> QED BY <1>4, <1>9, <1>13, <1>14 DEF l2, l1, ch2, it2, c, e


-----------------------------------------------------------------------------
\* What VHash has for head, of any table and links.
AbsHead ==
  [m \in {0} |->
     IF Seen.table = Null THEN Null
     ELSE [complete |-> Seen.table.complete,
           bucket |-> [h \in Buckets |-> ListOf(Seen.links, h, Cardinality(Nodes), Null)],
           sum |-> Seen.table.sum, total |-> Seen.table.total]]

HeadOf(t, l) ==
  [m \in {0} |->
     IF t = Null THEN Null
     ELSE [complete |-> t.complete, bucket |-> ChainsOf(l), sum |-> t.sum, total |-> t.total]]

Members(ch) == UNION {{ch[h][i] : i \in DOMAIN ch[h]} : h \in Buckets}

LEMMA AbsHeadIs ==
  /\ AbsHead = HeadOf(Seen.table, Seen.links)
  /\ AbsHead' = HeadOf(Seen'.table, Seen'.links)
BY DEF AbsHead, HeadOf, ChainsOf

LEMMA HeadIsThere ==
  ASSUME NEW t, NEW l, NEW it, t # Null, InTable(t, l, it, ChainsOf(l))
  PROVE  /\ HeadOf(t, l)[0] # Null
         /\ HeadOf(t, l)[0] = [complete |-> t.complete, bucket |-> ChainsOf(l),
                               sum |-> t.sum, total |-> t.total]
         /\ t.complete \in BOOLEAN /\ t.sum \in [Buckets -> Int] /\ t.total \in Int
<1>1. t.complete \in BOOLEAN /\ t.sum \in [Buckets -> Int] /\ t.total \in Int
  BY DEF InTable, TableType
<1>2. ChainsOf(l) \in [Buckets -> Seq(Nodes)]
  BY DEF InTable, Held
<1>3. HeadOf(t, l)[0] = [complete |-> t.complete, bucket |-> ChainsOf(l),
                         sum |-> t.sum, total |-> t.total]
  BY DEF HeadOf
<1>4. HeadOf(t, l)[0] \in [complete : BOOLEAN, bucket : [Buckets -> Seq(Nodes)],
                           sum : [Buckets -> Int], total : Int]
  BY <1>1, <1>2, <1>3
<1> QED BY <1>1, <1>3, <1>4, NullAssumption

\* Is a sweep under way, it is seen to have done nothing yet.
Sweeping == call # Null /\ call.op \in Sweeps /\ call.pc = "run"

LEMMA SeenIs ==
  ASSUME TInv
  PROVE  /\ InTable(Seen.table, Seen.links, Seen.item, ChainsOf(Seen.links))
         /\ Seen.table # Null => max = 1
         /\ ~Sweeping => Seen.table = table /\ Seen.links = links /\ Seen.item = item
         /\ call # Null => Seen = before /\ Seen.table # Null /\ table # Null
<1>1. CASE call = Null
  <2>1. Seen = [table |-> table, links |-> links, item |-> item]
    BY <1>1 DEF Seen
  <2>2. Seen.table = table /\ Seen.links = links /\ Seen.item = item
    BY <2>1
  <2> QED BY <1>1, <2>2 DEF TInv
<1>2. CASE call # Null
  <2>1. Seen = before
    BY <1>2 DEF Seen
  <2>2. /\ InTable(before.table, before.links, before.item, ChainsOf(before.links))
        /\ table # Null /\ max = 1
        /\ ~Sweeping => before.table = table /\ before.links = links /\ before.item = item
    BY <1>2 DEF TInv, CallInv, Sweeping
  <2>3. before.table # Null
    BY <1>2, <2>2 DEF TInv, CallInv, Sweeping, Swept
  <2> QED BY <1>2, <2>1, <2>2, <2>3
<1> QED BY <1>1, <1>2

LEMMA SeenAfter ==
  ASSUME call' = Null
  PROVE  Seen'.table = table' /\ Seen'.links = links' /\ Seen'.item = item'
BY DEF Seen

\* What VHash says of the table, said of what is seen.
LEMMA View ==
  ASSUME TInv
  PROVE  /\ Abstract!InRange(0) <=> max = 1
         /\ Abstract!HasTable(0) <=> Seen.table # Null
         /\ Seen.table # Null => (Abstract!Ready(0) <=> Seen.table.complete)
         /\ Seen.table # Null => \A k : Abstract!Chain(0, k) = ChainsOf(Seen.links)[Hash[k]]
         /\ Seen.table # Null => Abstract!NodesOf(0) = DOMAIN Seen.item
<1>1. /\ InTable(Seen.table, Seen.links, Seen.item, ChainsOf(Seen.links))
      /\ max \in {0, 1} /\ (Seen.table # Null => max = 1)
  BY SeenIs DEF TInv
<1>2. Abstract!InRange(0) <=> max = 1
  BY <1>1 DEF Abstract!InRange
<1>3. Abstract!HasTable(0) <=> max = 1 /\ AbsHead[0] # Null
  BY <1>2 DEF Abstract!HasTable, AbsHead
<1>4. CASE Seen.table = Null
  <2>1. AbsHead[0] = Null
    BY <1>4 DEF AbsHead
  <2> QED BY <1>2, <1>3, <1>4, <2>1
<1>5. CASE Seen.table # Null
  <2>1. /\ AbsHead[0] # Null /\ AbsHead[0].complete = Seen.table.complete
        /\ AbsHead[0].bucket = ChainsOf(Seen.links)
    <3>1. HeadOf(Seen.table, Seen.links)[0] # Null
      BY <1>1, <1>5, HeadIsThere
    <3>2. HeadOf(Seen.table, Seen.links)[0] =
            [complete |-> Seen.table.complete, bucket |-> ChainsOf(Seen.links),
             sum |-> Seen.table.sum, total |-> Seen.table.total]
      BY <1>1, <1>5, HeadIsThere
    <3>3. AbsHead = HeadOf(Seen.table, Seen.links)
      BY AbsHeadIs
    <3> QED BY <3>1, <3>2, <3>3
  <2>2. Abstract!HasTable(0)
    BY <1>1, <1>3, <1>5, <2>1
  <2>3. Abstract!Ready(0) <=> Seen.table.complete
    BY <2>1, <2>2 DEF Abstract!Ready, AbsHead
  <2>4. \A k : Abstract!Chain(0, k) = ChainsOf(Seen.links)[Hash[k]]
    BY <2>1 DEF Abstract!Chain, AbsHead
  <2>5. Abstract!NodesOf(0) = Members(ChainsOf(Seen.links))
    <3>1. Abstract!NodesOf(0) = IF AbsHead[0] = Null THEN {} ELSE Members(AbsHead[0].bucket)
      BY Zenon DEF Abstract!NodesOf, AbsHead, Abstract!Buckets, Buckets, Members
    <3> QED BY <2>1, <3>1
  <2>6. Filled(Seen.item, ChainsOf(Seen.links))
        /\ \A h \in Buckets : DOMAIN ChainsOf(Seen.links)[h] = 1..Len(ChainsOf(Seen.links)[h])
    BY <1>1, <1>5 DEF InTable, Held
  <2>7. Abstract!NodesOf(0) = DOMAIN Seen.item
    <3> DEFINE ch == ChainsOf(Seen.links)
    <3>1. \A n \in Abstract!NodesOf(0) : \E h \in Buckets : \E i \in DOMAIN ch[h] : ch[h][i] = n
      BY <2>5 DEF Members
    <3>2. \A h \in Buckets : \A i \in DOMAIN ch[h] : ch[h][i] \in Abstract!NodesOf(0)
      BY <2>5 DEF Members
    <3> HIDE DEF ch
    <3>3. Filled(Seen.item, ch) /\ \A h \in Buckets : DOMAIN ch[h] = 1..Len(ch[h])
      BY <2>6 DEF ch
    <3>4. ASSUME NEW n \in Abstract!NodesOf(0) PROVE n \in DOMAIN Seen.item
      BY <3>1, <3>3 DEF Filled
    <3>5. ASSUME NEW n \in DOMAIN Seen.item PROVE n \in Abstract!NodesOf(0)
      <4>1. PICK h \in Buckets : \E i \in 1..Len(ch[h]) : ch[h][i] = n
        BY <3>3 DEF Filled
      <4>2. PICK i \in 1..Len(ch[h]) : ch[h][i] = n
        BY <4>1
      <4> QED BY <3>2, <3>3, <4>2
    <3> QED BY <3>4, <3>5
  <2> QED BY <1>1, <1>2, <1>5, <2>2, <2>3, <2>4, <2>7
<1> QED BY <1>4, <1>5


-----------------------------------------------------------------------------
\* The chain the call in progress searches, and where in it it stands.
Chained == ChainsOf(links)[Hash[call.key]]

StandsAt(i) ==
  /\ i \in 0..Len(Chained)
  /\ \A j \in 1..i : item[Chained[j]].key # call.key
  /\ i < Len(Chained) => /\ call.at = Chained[i + 1] /\ call.at \in DOMAIN item
                         /\ call.at # Hash[call.key]
                         /\ links.Flink[call.at] = At(Chained, Hash[call.key], (i + 1) + 1)
  /\ i = Len(Chained) => call.at = Hash[call.key] /\ call.at \notin DOMAIN item

LEMMA Standing ==
  ASSUME TInv, Running(Searches)
  PROVE  /\ call.key \in Keys /\ Hash[call.key] \in Buckets /\ Chained \in Seq(Nodes)
         /\ Len(Chained) \in Nat /\ ~Sweeping /\ table # Null /\ table.complete
         /\ \E i \in Nat : StandsAt(i)
<1> DEFINE h == Hash[call.key]
           c == Chained
<1>1. /\ call # Null /\ call.op \in Searches /\ call.pc = "run" /\ call.op # "Add"
      /\ call.key \in Keys /\ table # Null /\ table.complete
  BY DEF Running, TInv, CallInv, Searches, NeedCallbacks
<1>2. h \in Buckets /\ h \in Cells /\ h \notin Nodes
  BY <1>1, Constants
<1>3. /\ InTable(table, links, item, ChainsOf(links)) /\ Held(links, ChainsOf(links))
      /\ Filled(item, ChainsOf(links)) /\ Items(item)
  BY <1>1 DEF TInv, InTable
<1>4. /\ c \in Seq(Nodes) /\ Len(c) \in Nat /\ c \in Chains(Cells, h) /\ Chain(links, h, c)
      /\ \A i \in 1..Len(c) : c[i] \in DOMAIN item /\ c[i] # h /\ At(c, h, i) = c[i]
  <2>1. c \in Seq(Nodes) /\ c \in Chains(Cells, h) /\ Chain(links, h, c)
    BY <1>2, <1>3 DEF Held, Chained
  <2>2. \A i \in 1..Len(c) : c[i] \in DOMAIN item
    BY <1>2, <1>3 DEF Filled, Chained
  <2> QED BY <1>2, <2>1, <2>2, AtPlaces
<1>5. PICK i \in Nat : Searched(c, i)
  BY <1>1 DEF TInv, CallInv, Chained
<1>6. StandsAt(i)
  <2>1. i \in 0..Len(c) /\ call.at = At(c, h, i + 1) /\ \A j \in 1..i : item[c[j]].key # call.key
    BY <1>5 DEF Searched
  <2>2. CASE i < Len(c)
    <3>1. i + 1 \in 1..Len(c) /\ i # Len(c)
      BY <1>4, <2>1, <2>2
    <3>2. links.Flink[c[i + 1]] = At(c, h, (i + 1) + 1)
      BY <1>2, <1>4, <3>1, RingNeighbours
    <3> HIDE DEF c, h
    <3>3. call.at = c[i + 1]
      BY <1>4, <2>1, <3>1
    <3>4. StandsAt(i) <=>
            /\ i \in 0..Len(c) /\ (\A j \in 1..i : item[c[j]].key # call.key)
            /\ call.at = c[i + 1] /\ call.at \in DOMAIN item /\ call.at # h
            /\ links.Flink[call.at] = At(c, h, (i + 1) + 1)
      BY <2>2, <3>1 DEF StandsAt, c, h
    <3> QED BY <1>4, <2>1, <3>1, <3>2, <3>3, <3>4
  <2>3. CASE ~(i < Len(c))
    <3>1. i = Len(c) /\ call.at = h
      BY <1>2, <1>4, <2>1, <2>3, AtPlaces
    <3>2. h \notin DOMAIN item
      BY <1>2, <1>3 DEF Items
    <3> QED BY <2>1, <2>3, <3>1, <3>2 DEF StandsAt
  <2> QED BY <2>2, <2>3
<1>7. ~Sweeping
  BY <1>1 DEF Sweeping, Searches, Sweeps
<1> QED BY <1>1, <1>2, <1>4, <1>6, <1>7

\* What VHash looks for is what the search has found, or that there is nothing.
LEMMA SearchView ==
  ASSUME TInv, Running(Searches)
  PROVE  /\ Abstract!Ready(0) /\ Abstract!Chain(0, call.key) = Chained
         /\ Abstract!Hits(0, call.key) = {i \in 1..Len(Chained) : item[Chained[i]].key = call.key}
<1>1. /\ ~Sweeping /\ call # Null /\ Len(Chained) \in Nat /\ Chained \in Seq(Nodes)
      /\ table.complete
  BY Standing DEF Running
<1>2. Seen.table = table /\ Seen.links = links /\ Seen.item = item /\ Seen.table # Null
  BY <1>1, SeenIs
<1>3. Abstract!Ready(0) /\ Abstract!Chain(0, call.key) = Chained
  BY <1>1, <1>2, View DEF Chained
<1>4. Abstract!Hits(0, call.key) = {i \in 1..Len(Chained) : item[Chained[i]].key = call.key}
  BY <1>1, <1>2, <1>3 DEF Abstract!Hits, Abstract!pfnVHash_Compare
<1> QED BY <1>3, <1>4

LEMMA Hit ==
  ASSUME TInv, Running(Searches), Matches
  PROVE  /\ Abstract!Hits(0, call.key) # {}
         /\ Abstract!FirstHit(0, call.key) \in 1..Len(Chained)
         /\ Chained[Abstract!FirstHit(0, call.key)] = call.at
<1>1. /\ call.key \in Keys /\ Hash[call.key] \in Buckets /\ Chained \in Seq(Nodes)
      /\ Len(Chained) \in Nat
  BY Standing
<1>2. PICK i \in Nat : StandsAt(i)
  BY Standing
<1>3. i < Len(Chained) /\ i + 1 \in 1..Len(Chained) /\ call.at = Chained[i + 1]
      /\ item[call.at].key = call.key /\ \A j \in 1..i : item[Chained[j]].key # call.key
  BY <1>1, <1>2 DEF StandsAt, Matches
<1> DEFINE S == {j \in 1..Len(Chained) : item[Chained[j]].key = call.key}
<1>4. i + 1 \in S /\ \A j \in S : i + 1 <= j
  BY <1>1, <1>3
<1>5. \A x \in S : (\A j \in S : x <= j) => x = i + 1
  BY <1>1, <1>4
<1>6. Abstract!Hits(0, call.key) = S
  BY SearchView
<1> HIDE DEF S
<1>7. (CHOOSE x \in S : \A j \in S : x <= j) = i + 1
  BY <1>4, <1>5
<1>8. Abstract!FirstHit(0, call.key) = i + 1
  BY <1>6, <1>7, Zenon DEF Abstract!FirstHit
<1> QED BY <1>3, <1>4, <1>6, <1>8

LEMMA Miss ==
  ASSUME TInv, Running(Searches), AtEnd
  PROVE  Abstract!Hits(0, call.key) = {}
<1>1. PICK i \in Nat : StandsAt(i)
  BY Standing
<1>2. i = Len(Chained) /\ \A j \in 1..i : item[Chained[j]].key # call.key
  BY <1>1, Standing DEF StandsAt, AtEnd
<1> QED BY <1>2, SearchView

-----------------------------------------------------------------------------
\* The three ways a step goes: it is not seen; it returns and leaves the table
\* as it was; it returns and the table is another.
LEMMA Unseen ==
  ASSUME UNCHANGED <<max, res>>, Seen' = Seen
  PROVE  UNCHANGED <<Abstract!vars>>
BY DEF Abstract!vars

LEMMA Returned ==
  ASSUME TInv, call' = Null, UNCHANGED max, table' # Null => max = 1,
         InTable(table', links', item', ChainsOf(links'))
  PROVE  TInv'
BY DEF TInv, CallInv

LEMMA ReturnedSame ==
  ASSUME TInv, ~Sweeping, call' = Null, UNCHANGED <<max, table, links, item>>
  PROVE  TInv' /\ AbsHead' = AbsHead /\ Seen'.item = Seen.item
<1>1. Seen.table = table /\ Seen.links = links /\ Seen.item = item
  BY SeenIs
<1>2. Seen'.table = table' /\ Seen'.links = links' /\ Seen'.item = item'
  BY SeenAfter
<1>3. AbsHead' = AbsHead
  <2>1. AbsHead' = HeadOf(Seen'.table, Seen'.links) /\ AbsHead = HeadOf(Seen.table, Seen.links)
    BY AbsHeadIs
  <2>2. Seen'.table = Seen.table /\ Seen'.links = Seen.links
    BY <1>1, <1>2
  <2> QED BY <2>1, <2>2, Zenon
<1>4. TInv'
  <2>1. ChainsOf(links') = ChainsOf(links)
    BY Zenon
  <2>2. InTable(table', links', item', ChainsOf(links'))
    BY <2>1 DEF TInv
  <2> QED BY <2>2, Returned DEF TInv
<1> QED BY <1>1, <1>2, <1>3, <1>4


Implements == TInv' /\ (Abstract!Next \/ UNCHANGED <<Abstract!vars>>)

LEMMA CallImplements ==
  ASSUME TInv', Abstract!Call(0)
  PROVE  Implements
BY DEF Implements, Abstract!Next

\* Calls that search, and change nothing.
LEMMA GetFoundStep ==
  ASSUME TInv, GetFound
  PROVE  Implements
<1>1. /\ Running(Searches) /\ Matches /\ call' = Null /\ UNCHANGED <<max, table, links, item>>
      /\ res' = [of |-> <<0, call.key>>, ret |-> VHASH_OK, node |-> call.at, nums |-> << >>]
  BY DEF GetFound, Running, Searches, Leaves, Returns, About
<1>2. call.key \in Keys /\ TInv' /\ AbsHead' = AbsHead /\ Seen'.item = Seen.item
  BY <1>1, Standing, ReturnedSame
<1>3. Abstract!VHash_Get_Node(0, call.key)
  <2>1. /\ Abstract!Ready(0) /\ Abstract!Hits(0, call.key) # {}
        /\ Abstract!Chain(0, call.key)[Abstract!FirstHit(0, call.key)] = call.at
    BY <1>1, SearchView, Hit
  <2> QED BY <1>1, <1>2, <2>1 DEF Abstract!VHash_Get_Node, Abstract!Gives, AbsHead, Abstract!VHASH_OK, VHASH_OK
<1> QED BY <1>2, <1>3, CallImplements DEF Abstract!Call

LEMMA AddFoundStep ==
  ASSUME TInv, AddFound
  PROVE  Implements
<1>1. /\ Running(Searches) /\ Matches /\ call.op = "Add2" /\ call # Null
  BY DEF AddFound, Running, Searches, TInv, CallInv
<1>2. call' = Null /\ UNCHANGED <<max, table, links, item>>
  BY <1>1 DEF AddFound, Leaves, Returns
<1>3. call.key \in Keys /\ TInv' /\ AbsHead' = AbsHead /\ Seen'.item = Seen.item
  BY <1>1, <1>2, Standing, ReturnedSame
<1>4. /\ Abstract!Ready(0) /\ Abstract!Hits(0, call.key) # {}
      /\ Abstract!Chain(0, call.key)[Abstract!FirstHit(0, call.key)] = call.at
  BY <1>1, SearchView, Hit
<1>5. Abstract!AddFound(0, call.key)
  <2>1. CASE FALSE \in UpdateAnswers /\ Leaves(About, VHASH_EXIST, Null, << >>)
    BY <1>2, <1>3, <1>4, <2>1 DEF Leaves, Returns, About, Abstract!AddFound, Abstract!Answers, Abstract!Gives,
         AbsHead, Abstract!VHASH_EXIST, VHASH_EXIST
  <2>2. CASE /\ TRUE \in UpdateAnswers
             /\ \E c \in CopyAnswers :
                  IF c = VHASH_OK THEN Leaves(About, VHASH_UPDATE_OK, call.at, << >>)
                  ELSE Leaves(About, c, Null, << >>)
    <3>1. PICK c \in CopyAnswers :
                  IF c = VHASH_OK THEN Leaves(About, VHASH_UPDATE_OK, call.at, << >>)
                  ELSE Leaves(About, c, Null, << >>)
      BY <2>2
    <3> QED BY <1>2, <1>3, <1>4, <2>2, <3>1 DEF Leaves, Returns, About, Abstract!AddFound, Abstract!Answers,
              Abstract!Gives, AbsHead, Abstract!VHASH_OK, VHASH_OK, Abstract!VHASH_UPDATE_OK, VHASH_UPDATE_OK
  <2> QED BY <1>1, <2>1, <2>2 DEF AddFound
<1> QED BY <1>3, <1>5, CallImplements DEF Abstract!Call, Abstract!VHash_Add_Node2

LEMMA NotFoundStep ==
  ASSUME TInv, NotFound
  PROVE  Implements
<1>1. /\ Running(Searches) /\ AtEnd /\ call.op \in {"Get", "Del"} /\ call' = Null
      /\ UNCHANGED <<max, table, links, item>>
      /\ res' = [of |-> <<0, call.key>>, ret |-> VHASH_NOT_FOUND, node |-> Null, nums |-> << >>]
  BY DEF NotFound, Running, Searches, Leaves, Returns, About
<1>2. call.key \in Keys /\ TInv' /\ AbsHead' = AbsHead /\ Seen'.item = Seen.item
  BY <1>1, Standing, ReturnedSame
<1>3. Abstract!Ready(0) /\ Abstract!Hits(0, call.key) = {}
  BY <1>1, SearchView, Miss
<1>4. Abstract!VHash_Get_Node(0, call.key)
  BY <1>1, <1>2, <1>3 DEF Abstract!VHash_Get_Node, Abstract!Answers, Abstract!Gives, AbsHead,
       Abstract!VHASH_NOT_FOUND, VHASH_NOT_FOUND
<1> QED BY <1>2, <1>4, CallImplements DEF Abstract!Call

LEMMA AddFailsStep ==
  ASSUME TInv, AddFails
  PROVE  Implements
<1>1. /\ Running(Searches) /\ AtEnd /\ call' = Null /\ UNCHANGED <<max, table, links, item>>
  BY DEF AddFails, Running, Searches, Leaves, Returns
<1>2. /\ call.key \in Keys /\ TInv' /\ AbsHead' = AbsHead /\ Seen'.item = Seen.item
      /\ Seen.item = item
  BY <1>1, Standing, ReturnedSame, SeenIs
<1>3. Abstract!Ready(0) /\ Abstract!Hits(0, call.key) = {}
  BY <1>1, SearchView, Miss
<1>4. Abstract!AddFails(0, call.key)
  <2>1. CASE Leaves(About, VHASH_NOT_INNIF, Null, << >>)
    BY <1>1, <1>2, <1>3, <2>1 DEF Leaves, Returns, About, Abstract!AddFails, Abstract!Answers, Abstract!Gives,
         AbsHead, Abstract!VHASH_NOT_INNIF, VHASH_NOT_INNIF
  <2>2. CASE Free # {} /\ \E c \in CopyAnswers \ {VHASH_OK} : Leaves(About, c, Null, << >>)
    <3>1. PICK c \in CopyAnswers \ {VHASH_OK} : Leaves(About, c, Null, << >>)
      BY <2>2
    <3>2. Abstract!Free # {}
      BY <1>2, <2>2 DEF Abstract!Free, Free
    <3> QED BY <1>1, <1>2, <1>3, <3>1, <3>2 DEF Leaves, Returns, About, Abstract!AddFails, Abstract!Answers,
              Abstract!Gives, AbsHead, Abstract!VHASH_OK, VHASH_OK
  <2> QED BY <2>1, <2>2 DEF AddFails
<1> QED BY <1>2, <1>4, CallImplements DEF Abstract!Call, Abstract!VHash_Add_Node2


LEMMA StatStep ==
  ASSUME TInv, VHash_Node_Stat
  PROVE  Implements
<1>1. /\ call # Null /\ call.op = "Stat" /\ ~Sweeping /\ call' = Null
      /\ UNCHANGED <<max, table, links, item>>
      /\ res' = [of |-> Null, ret |-> VHASH_OK, node |-> Null,
                 nums |-> [i \in 1..BucketCount |-> table.sum[i - 1]]]
  BY DEF VHash_Node_Stat, Running, Sweeping, Sweeps, Leaves, Returns
<1>2. /\ TInv' /\ AbsHead' = AbsHead /\ Seen'.item = Seen.item
      /\ Seen.table = table /\ Seen.links = links /\ Seen.item = item /\ table # Null
      /\ InTable(Seen.table, Seen.links, Seen.item, ChainsOf(Seen.links))
  BY <1>1, ReturnedSame, SeenIs
<1>3. Abstract!HasTable(0) /\ AbsHead[0].sum = table.sum
  <2>1. Abstract!HasTable(0)
    BY <1>2, View
  <2>2. HeadOf(Seen.table, Seen.links)[0] = [complete |-> Seen.table.complete,
          bucket |-> ChainsOf(Seen.links), sum |-> Seen.table.sum, total |-> Seen.table.total]
    BY <1>2, HeadIsThere
  <2> QED BY <1>2, <2>1, <2>2, AbsHeadIs
<1>4. Abstract!VHash_Node_Stat(0)
  <2>1. [i \in 1..BucketCount |-> table.sum[i - 1]] = [i \in 1..BucketCount |-> AbsHead[0].sum[i - 1]]
    BY <1>3
  <2> QED BY <1>1, <1>2, <1>3, <2>1 DEF Abstract!VHash_Node_Stat, Abstract!Gives, AbsHead, Abstract!VHASH_OK, VHASH_OK
<1> QED BY <1>2, <1>4, CallImplements DEF Abstract!Call


\* Behind each node is the next of its chain, or the head.
LEMMA ChainPlaces ==
  ASSUME NEW l, NEW ch, Held(l, ch), NEW h \in Buckets
  PROVE  /\ ch[h] \in Seq(Nodes) /\ Len(ch[h]) \in Nat /\ ch[h] \in Chains(Cells, h)
         /\ Chain(l, h, ch[h]) /\ h \in Cells /\ h \notin Nodes
         /\ IsListEmpty(l, h) <=> ch[h] = << >>
         /\ IsListEmpty(l, h) <=> Len(ch[h]) = 0
         /\ ch[h] # << >> => /\ l.Flink[h] = Head(ch[h]) /\ l.Flink[h] = ch[h][1]
                             /\ 1 \in 1..Len(ch[h])
         /\ \A i \in 1..Len(ch[h]) :
              /\ i < Len(ch[h]) => l.Flink[ch[h][i]] = ch[h][i + 1] /\ ch[h][i + 1] # h
              /\ i = Len(ch[h]) => l.Flink[ch[h][i]] = h
         /\ \A i, j \in 1..Len(ch[h]) : ch[h][i] = ch[h][j] => i = j
<1> DEFINE c == ch[h]
<1>1. c \in Seq(Nodes) /\ c \in Chains(Cells, h) /\ Chain(l, h, c) /\ h \in Cells /\ h \notin Nodes
  BY Constants DEF Held
<1> HIDE DEF c
<1>2. Len(c) \in Nat /\ (Len(c) = 0 <=> c = << >>)
  BY <1>1
<1>3. /\ \A i \in 1..Len(c) : At(c, h, i) = c[i] /\ c[i] # h
      /\ At(c, h, Len(c) + 1) = h /\ \A i, j \in 1..Len(c) : c[i] = c[j] => i = j
  BY <1>1, AtPlaces DEF Chains
<1>4. /\ IsListEmpty(l, h) <=> Len(c) = 0
      /\ l.Flink[h] = At(c, h, 1) /\ \A i \in 1..Len(c) : l.Flink[c[i]] = At(c, h, i + 1)
  BY <1>1, RingNeighbours
<1>5. ASSUME c # << >> PROVE l.Flink[h] = c[1] /\ c[1] = Head(c) /\ 1 \in 1..Len(c)
  <2>1. 1 \in 1..Len(c)
    BY <1>2, <1>5
  <2> QED BY <1>1, <1>3, <1>4, <1>5, <2>1
<1>6. ASSUME NEW i \in 1..Len(c)
      PROVE  /\ i < Len(c) => l.Flink[c[i]] = c[i + 1] /\ c[i + 1] # h
             /\ i = Len(c) => l.Flink[c[i]] = h
  <2>1. i < Len(c) => i + 1 \in 1..Len(c)
    BY <1>2
  <2> QED BY <1>3, <1>4, <2>1
<1> QED BY <1>1, <1>2, <1>3, <1>4, <1>5, <1>6 DEF c

\* NextOf, of any chains and nodes.
NextIn(b, it, prev) ==
  LET home == Hash[it[prev].key]
      at == CHOOSE i \in DOMAIN b[home] : b[home][i] = prev
      from == IF prev = Null THEN 0 ELSE home + 1
      rest == {h \in Buckets : h >= from /\ b[h] # << >>}
  IN  IF prev # Null /\ at < Len(b[home]) THEN b[home][at + 1]
      ELSE IF rest = {} THEN Null
      ELSE Head(b[CHOOSE h \in rest : \A g \in rest : h <= g])

\* The first of the chains behind that are not empty is the same in both.
LEMMA NextStep ==
  ASSUME TInv, VHash_Get_NextNode
  PROVE  Implements
<1> DEFINE ch == ChainsOf(links)
           prev == call.at
           home == IF prev = Null THEN -1 ELSE Hash[item[prev].key]
           rest == {h \in Buckets : h > home /\ ~IsListEmpty(links, h)}
           next == IF prev # Null /\ links.Flink[prev] # home THEN links.Flink[prev]
                   ELSE IF rest = {} THEN Null
                   ELSE links.Flink[CHOOSE h \in rest : \A g \in rest : h <= g]
<1>1. /\ call # Null /\ call.op = "Next" /\ ~Sweeping /\ call' = Null
      /\ UNCHANGED <<max, table, links, item>>
      /\ res' = [of |-> Null, ret |-> VHASH_OK, node |-> next, nums |-> << >>]
  BY DEF VHash_Get_NextNode, Running, Sweeping, Sweeps, Leaves, Returns
<1>2. /\ TInv' /\ AbsHead' = AbsHead /\ Seen'.item = Seen.item
      /\ Seen.table = table /\ Seen.links = links /\ Seen.item = item /\ table # Null
      /\ InTable(Seen.table, Seen.links, Seen.item, ChainsOf(Seen.links))
  BY <1>1, ReturnedSame, SeenIs
<1>3. table.complete /\ prev \in DOMAIN item \cup {Null}
  BY <1>1 DEF TInv, CallInv, NeedCallbacks
<1>4. Held(links, ch) /\ Filled(item, ch) /\ Items(item)
  BY <1>2 DEF InTable
<1>5. /\ Abstract!Ready(0) /\ Abstract!NodesOf(0) = DOMAIN item
      /\ AbsHead[0].bucket = ch
  <2>1. Abstract!Ready(0) /\ Abstract!NodesOf(0) = DOMAIN item
    BY <1>2, <1>3, View
  <2>2. HeadOf(Seen.table, Seen.links)[0] = [complete |-> Seen.table.complete,
          bucket |-> ChainsOf(Seen.links), sum |-> Seen.table.sum, total |-> Seen.table.total]
    BY <1>2, HeadIsThere
  <2> QED BY <1>2, <2>1, <2>2, AbsHeadIs
<1> HIDE DEF ch
<1> DEFINE ahome == Hash[item[prev].key]
           at == CHOOSE i \in DOMAIN ch[ahome] : ch[ahome][i] = prev
           from == IF prev = Null THEN 0 ELSE ahome + 1
           arest == {h \in Buckets : h >= from /\ ch[h] # << >>}
           anext == IF prev # Null /\ at < Len(ch[ahome]) THEN ch[ahome][at + 1]
                    ELSE IF arest = {} THEN Null
                    ELSE Head(ch[CHOOSE h \in arest : \A g \in arest : h <= g])
<1>6. Abstract!NextOf(0, prev) = anext
  <2>1. Abstract!NextOf(0, prev) = NextIn(AbsHead[0].bucket, Seen.item, prev)
    BY Zenon DEF Abstract!NextOf, AbsHead, Abstract!Buckets, Buckets, NextIn
  <2>2. Abstract!NextOf(0, prev) = NextIn(ch, item, prev)
    BY <1>2, <1>5, <2>1, Zenon
  <2> QED BY <2>2, Zenon DEF NextIn
<1>7. prev # Null => /\ prev \in Nodes /\ ahome \in Buckets /\ home = ahome
                     /\ \E i \in 1..Len(ch[ahome]) : ch[ahome][i] = prev
  <2> SUFFICES ASSUME prev # Null
               PROVE  /\ prev \in Nodes /\ ahome \in Buckets /\ home = ahome
                      /\ \E i \in 1..Len(ch[ahome]) : ch[ahome][i] = prev
    OBVIOUS
  <2>1. PICK g \in Buckets : \E i \in 1..Len(ch[g]) : ch[g][i] = prev
    BY <1>3, <1>4 DEF Filled
  <2>2. PICK i \in 1..Len(ch[g]) : ch[g][i] = prev
    BY <2>1
  <2>3. ahome = g
    BY <1>4, <2>2 DEF Filled
  <2> QED BY <1>3, <1>4, <2>2, <2>3 DEF Items
<1>8. rest = arest
  <2>1. \A h \in Buckets : IsListEmpty(links, h) <=> ch[h] = << >>
    BY <1>4, ChainPlaces
  <2>2. \A h \in Buckets : h > home <=> h >= from
    BY <1>7, Constants
  <2> HIDE DEF home, from
  <2> QED BY <2>1, <2>2
<1>9. arest # {} => links.Flink[CHOOSE h \in arest : \A g \in arest : h <= g]
                    = Head(ch[CHOOSE h \in arest : \A g \in arest : h <= g])
  <2> SUFFICES ASSUME arest # {}
               PROVE  links.Flink[CHOOSE h \in arest : \A g \in arest : h <= g]
                      = Head(ch[CHOOSE h \in arest : \A g \in arest : h <= g])
    OBVIOUS
  <2>1. arest \in SUBSET Nat /\ \A h \in arest : h \in Buckets /\ ch[h] # << >>
    BY Constants
  <2> HIDE DEF arest
  <2>2. \E h \in arest : \A g \in arest : h <= g
    BY <2>1, LeastOfNats
  <2>3. (CHOOSE h \in arest : \A g \in arest : h <= g) \in arest
    BY <2>2
  <2> QED BY <1>4, <2>1, <2>3, ChainPlaces
<1>10. prev # Null =>
         /\ links.Flink[prev] # home <=> at < Len(ch[ahome])
         /\ at < Len(ch[ahome]) => links.Flink[prev] = ch[ahome][at + 1]
  <2> SUFFICES ASSUME prev # Null
               PROVE  /\ links.Flink[prev] # home <=> at < Len(ch[ahome])
                      /\ at < Len(ch[ahome]) => links.Flink[prev] = ch[ahome][at + 1]
    OBVIOUS
  <2>1. PICK i \in 1..Len(ch[ahome]) : ch[ahome][i] = prev
    BY <1>7
  <2>2. ahome \in Buckets /\ home = ahome
    BY <1>7
  <2> HIDE DEF home, ahome, prev
  <2>3. DOMAIN ch[ahome] = 1..Len(ch[ahome])
    BY <1>4, <2>2 DEF Held
  <2>4. at = i
    BY <1>4, <2>1, <2>2, <2>3, ChainPlaces
  <2> HIDE DEF at
  <2>5. /\ i < Len(ch[ahome]) => links.Flink[prev] = ch[ahome][i + 1] /\ ch[ahome][i + 1] # ahome
        /\ i = Len(ch[ahome]) => links.Flink[prev] = ahome
        /\ Len(ch[ahome]) \in Nat
    BY <1>4, <2>1, <2>2, ChainPlaces
  <2> QED BY <2>1, <2>2, <2>4, <2>5
<1>11. next = anext
  <2> HIDE DEF home, ahome, at, rest, arest, prev, ch
  <2> QED BY <1>8, <1>9, <1>10, Zenon
<1>12. Abstract!VHash_Get_NextNode(0, prev) /\ prev \in Nodes \cup {Null}
  <2>1. prev \in Nodes \cup {Null}
    BY <1>7
  <2>2. res' = [of |-> Null, ret |-> VHASH_OK, node |-> Abstract!NextOf(0, prev), nums |-> << >>]
    BY <1>1, <1>6, <1>11, Zenon
  <2>3. prev \in Abstract!NodesOf(0) \cup {Null} /\ Abstract!Ready(0)
    BY <1>3, <1>5
  <2> HIDE DEF prev
  <2> QED BY <1>1, <1>2, <2>1, <2>2, <2>3 DEF Abstract!VHash_Get_NextNode, Abstract!Gives, AbsHead,
           Abstract!VHASH_OK, VHASH_OK
<1> HIDE DEF prev
<1>13. Abstract!Call(0)
  BY <1>12 DEF Abstract!Call
<1> QED BY <1>2, <1>13, CallImplements


-----------------------------------------------------------------------------
\* Calls that link or free a node.
LEMMA ReturnedChanged ==
  ASSUME TInv, call # Null, call' = Null, UNCHANGED max, table' \in TableType,
         NEW ch2, Held(links', ch2), Filled(item', ch2), Items(item')
  PROVE  /\ TInv' /\ Seen'.item = item'
         /\ AbsHead' = [m \in {0} |-> [complete |-> table'.complete, bucket |-> ch2,
                                       sum |-> table'.sum, total |-> table'.total]]
<1>1. ChainsOf(links') = ch2 /\ table' # Null /\ links' \in LinksOn(Cells, Null)
  BY HeldIsRead, Constants DEF Held
<1>2. InTable(table', links', item', ChainsOf(links'))
  BY <1>1 DEF InTable
<1>3. max = 1
  BY SeenIs
<1>4. AbsHead' = HeadOf(Seen'.table, Seen'.links) /\ Seen'.table = table' /\ Seen'.links = links'
      /\ Seen'.item = item'
  BY AbsHeadIs, SeenAfter
<1>5. HeadOf(table', links') = [m \in {0} |-> [complete |-> table'.complete, bucket |-> ch2,
                                               sum |-> table'.sum, total |-> table'.total]]
  BY <1>1 DEF HeadOf
<1>6. AbsHead' = HeadOf(table', links')
  BY <1>4
<1> QED BY <1>2, <1>3, <1>4, <1>5, <1>6, Returned

\* The head of the module, as a record.
LEMMA HeadNow ==
  ASSUME TInv, call # Null, ~Sweeping
  PROVE  /\ AbsHead = [m \in {0} |-> [complete |-> table.complete, bucket |-> ChainsOf(links),
                                      sum |-> table.sum, total |-> table.total]]
         /\ table \in TableType /\ Seen.item = item
         /\ Held(links, ChainsOf(links)) /\ Filled(item, ChainsOf(links)) /\ Items(item)
<1>1. Seen.table = table /\ Seen.links = links /\ Seen.item = item /\ table # Null
      /\ InTable(table, links, item, ChainsOf(links))
  BY SeenIs DEF TInv
<1>2. AbsHead = HeadOf(Seen.table, Seen.links)
  BY AbsHeadIs
<1>3. AbsHead = HeadOf(table, links)
  BY <1>1, <1>2, Zenon
<1> QED BY <1>1, <1>3 DEF HeadOf, InTable

LEMMA Counted ==
  ASSUME NEW t \in TableType, NEW h \in Buckets, NEW x \in Int, NEW y \in Int
  PROVE  [t EXCEPT !.sum[h] = x, !.total = y] \in TableType
BY DEF TableType

LEMMA CountedDown ==
  ASSUME NEW t \in TableType, NEW h \in Buckets
  PROVE  LET t2 == [t EXCEPT !.sum[h] = @ - 1, !.total = @ - 1]
         IN  /\ t2 \in TableType /\ t2.complete = t.complete
             /\ t2.sum = [t.sum EXCEPT ![h] = @ - 1] /\ t2.total = t.total - 1
<1> DEFINE t2 == [t EXCEPT !.sum[h] = @ - 1, !.total = @ - 1]
<1>1. t.sum[h] - 1 \in Int /\ t.total - 1 \in Int
  BY DEF TableType
<1>2. t2 \in TableType
  BY <1>1, Counted
<1>3. /\ t2.complete = t.complete /\ t2.sum = [t.sum EXCEPT ![h] = @ - 1]
      /\ t2.total = t.total - 1
  BY DEF TableType
<1> QED BY <1>2, <1>3

LEMMA CountedUp ==
  ASSUME NEW t \in TableType, NEW h \in Buckets
  PROVE  LET t2 == [t EXCEPT !.sum[h] = @ + 1, !.total = @ + 1]
         IN  /\ t2 \in TableType /\ t2.complete = t.complete
             /\ t2.sum = [t.sum EXCEPT ![h] = @ + 1] /\ t2.total = t.total + 1
<1> DEFINE t2 == [t EXCEPT !.sum[h] = @ + 1, !.total = @ + 1]
<1>1. t.sum[h] + 1 \in Int /\ t.total + 1 \in Int
  BY DEF TableType
<1>2. t2 \in TableType
  BY <1>1, Counted
<1>3. /\ t2.complete = t.complete /\ t2.sum = [t.sum EXCEPT ![h] = @ + 1]
      /\ t2.total = t.total + 1
  BY DEF TableType
<1> QED BY <1>2, <1>3

LEMMA DelFoundStep ==
  ASSUME TInv, DelFound
  PROVE  Implements
<1> DEFINE h == Hash[call.key]
           ch == ChainsOf(links)
           f == Abstract!FirstHit(0, call.key)
           ch2 == [ch EXCEPT ![h] = Without(ch[h], f)]
<1>1. /\ Running(Searches) /\ Matches /\ call # Null /\ call' = Null /\ UNCHANGED max
      /\ links' = Scrubbed(RemoveEntryList(links, call.at), call.at)
      /\ item' = [m \in DOMAIN item \ {call.at} |-> item[m]]
      /\ table' = [table EXCEPT !.sum[h] = @ - 1, !.total = @ - 1]
      /\ res' = [of |-> <<0, call.key>>, ret |-> VHASH_OK, node |-> Null, nums |-> << >>]
  BY DEF DelFound, Running, Searches, Leaves, Returns, About, Drop
<1>2. /\ call.key \in Keys /\ h \in Buckets /\ ~Sweeping /\ ch[h] = Chained
      /\ f \in 1..Len(ch[h]) /\ ch[h][f] = call.at
      /\ Abstract!Ready(0) /\ Abstract!Hits(0, call.key) # {}
      /\ Abstract!Chain(0, call.key) = Chained
  BY <1>1, Standing, Hit, SearchView DEF Chained
<1>3. /\ AbsHead = [m \in {0} |-> [complete |-> table.complete, bucket |-> ch,
                                   sum |-> table.sum, total |-> table.total]]
      /\ table \in TableType /\ Seen.item = item /\ Held(links, ch) /\ Filled(item, ch) /\ Items(item)
  BY <1>1, <1>2, HeadNow
<1>4. /\ table' \in TableType /\ table'.complete = table.complete
      /\ table'.sum = [table.sum EXCEPT ![h] = @ - 1] /\ table'.total = table.total - 1
  BY <1>1, <1>2, <1>3, CountedDown
<1>5. ch[h] \in Seq(Nodes)
  BY <1>2, <1>3 DEF Held
<1> HIDE DEF f, ch, h
<1>6. Held(links', ch2) /\ Filled(item', ch2) /\ Items(item')
  <2>1. /\ links' = Scrubbed(RemoveEntryList(links, ch[h][f]), ch[h][f])
        /\ item' = [m \in DOMAIN item \ {ch[h][f]} |-> item[m]]
    BY <1>1, <1>2
  <2>2. LET e == ch[h][f]
            l2 == Scrubbed(RemoveEntryList(links, e), e)
            it2 == [m \in DOMAIN item \ {e} |-> item[m]]
        IN  Held(l2, ch2) /\ Filled(it2, ch2) /\ Items(it2)
    <3>1. Held(links, ch) /\ Filled(item, ch) /\ Items(item) /\ h \in Buckets
          /\ f \in 1..Len(ch[h])
      BY <1>2, <1>3
    <3> QED BY <3>1, UnlinkDoes, Zenon
  <2> QED BY <2>1, <2>2, Zenon
<1>7. /\ TInv' /\ Seen'.item = item'
      /\ AbsHead' = [m \in {0} |-> [complete |-> table'.complete, bucket |-> ch2,
                                    sum |-> table'.sum, total |-> table'.total]]
  BY <1>1, <1>4, <1>6, ReturnedChanged
<1>8. ch2 = [ch EXCEPT ![h] = Abstract!RemoveAt(@, f)]
  <2>1. Without(ch[h], f) = Abstract!RemoveAt(ch[h], f)
    BY <1>2, <1>5, WithoutIsRest DEF Abstract!RemoveAt
  <2> QED BY <2>1
<1>9. AbsHead' = [AbsHead EXCEPT ![0].bucket[h] = Abstract!RemoveAt(@, f),
                                 ![0].sum[h] = @ - 1, ![0].total = @ - 1]
  <2>1. AbsHead' = [m \in {0} |-> [complete |-> table.complete,
                                   bucket |-> [ch EXCEPT ![h] = Abstract!RemoveAt(@, f)],
                                   sum |-> [table.sum EXCEPT ![h] = @ - 1],
                                   total |-> table.total - 1]]
    BY <1>4, <1>7, <1>8, Zenon
  <2>2. AbsHead = [m \in {0} |-> [complete |-> table.complete, bucket |-> ch,
                                  sum |-> table.sum, total |-> table.total]]
    BY <1>3
  <2>3. [AbsHead EXCEPT ![0].bucket[h] = Abstract!RemoveAt(@, f),
                        ![0].sum[h] = @ - 1, ![0].total = @ - 1]
        = [m \in {0} |-> [complete |-> table.complete,
                          bucket |-> [ch EXCEPT ![h] = Abstract!RemoveAt(@, f)],
                          sum |-> [table.sum EXCEPT ![h] = @ - 1],
                          total |-> table.total - 1]]
    <3> DEFINE L == [AbsHead EXCEPT ![0].bucket[h] = Abstract!RemoveAt(@, f),
                                    ![0].sum[h] = @ - 1, ![0].total = @ - 1]
               R == [complete |-> table.complete, bucket |-> [ch EXCEPT ![h] = Abstract!RemoveAt(@, f)],
                     sum |-> [table.sum EXCEPT ![h] = @ - 1], total |-> table.total - 1]
    <3>1. L[0] = R
      BY <2>2
    <3>2. L = [m \in {0} |-> L[0]]
      BY <2>2
    <3> HIDE DEF L, R
    <3>3. L = [m \in {0} |-> R]
      BY <3>1, <3>2
    <3> QED BY <3>3 DEF L, R
  <2> QED BY <2>1, <2>3, Zenon
<1>10. Abstract!VHash_Del_Node(0, call.key)
  <2>1. Seen'.item = [n \in DOMAIN Seen.item \ {Abstract!Chain(0, call.key)[f]} |-> Seen.item[n]]
    BY <1>1, <1>2, <1>3, <1>7
  <2>2. Seen'.item = Abstract!Drop({Abstract!Chain(0, call.key)[f]})
    BY <2>1 DEF Abstract!Drop
  <2>3. Abstract!Answers(0, call.key, Abstract!VHASH_OK)
    BY <1>1 DEF Abstract!Answers, Abstract!Gives, Abstract!VHASH_OK, VHASH_OK
  <2> QED BY <1>1, <1>2, <1>9, <2>2, <2>3, Zenon DEF Abstract!VHash_Del_Node, AbsHead, f, h
<1> QED BY <1>2, <1>7, <1>10, CallImplements DEF Abstract!Call


LEMMA AddNewStep ==
  ASSUME TInv, AddNew
  PROVE  Implements
<1> DEFINE h == Hash[call.key]
           ch == ChainsOf(links)
<1>1. PICK n \in Free : Link(n, call.key) /\ Leaves(About, VHASH_OK, n, << >>)
  BY DEF AddNew, Allocated
<1> DEFINE ch2 == [ch EXCEPT ![h] = Append(ch[h], n)]
<1>2. /\ Running(Searches) /\ AtEnd /\ call # Null /\ call' = Null /\ UNCHANGED max
      /\ VHASH_OK \in CopyAnswers
      /\ links' = InsertTailList(links, h, n)
      /\ item' = [m \in DOMAIN item \cup {n} |->
                    IF m = n THEN [key |-> call.key, val |-> ZeroVal] ELSE item[m]]
      /\ table' = [table EXCEPT !.sum[h] = @ + 1, !.total = @ + 1]
      /\ res' = [of |-> <<0, call.key>>, ret |-> VHASH_OK, node |-> n, nums |-> << >>]
  BY <1>1 DEF AddNew, Running, Searches, Leaves, Returns, About, Link
<1>3. /\ call.key \in Keys /\ h \in Buckets /\ ~Sweeping /\ n \in Nodes \ DOMAIN item
      /\ Abstract!Ready(0) /\ Abstract!Hits(0, call.key) = {}
  BY <1>2, Standing, Miss, SearchView DEF Free
<1>4. /\ AbsHead = [m \in {0} |-> [complete |-> table.complete, bucket |-> ch,
                                   sum |-> table.sum, total |-> table.total]]
      /\ table \in TableType /\ Seen.item = item /\ Held(links, ch) /\ Filled(item, ch) /\ Items(item)
  BY <1>2, <1>3, HeadNow
<1>5. /\ table' \in TableType /\ table'.complete = table.complete
      /\ table'.sum = [table.sum EXCEPT ![h] = @ + 1] /\ table'.total = table.total + 1
  BY <1>2, <1>3, <1>4, CountedUp
<1> HIDE DEF ch
<1>6. Held(links', ch2) /\ Filled(item', ch2) /\ Items(item')
  <2>1. Held(links, ch) /\ Filled(item, ch) /\ Items(item) /\ n \in Nodes \ DOMAIN item
        /\ call.key \in Keys
    BY <1>3, <1>4
  <2>2. LET it2 == Added(item, n, call.key)
        IN  Held(InsertTailList(links, h, n), ch2) /\ Filled(it2, ch2) /\ Items(it2)
    BY <2>1, LinkDoes, Zenon
  <2>3. item' = Added(item, n, call.key)
    BY <1>2 DEF Added
  <2> QED BY <1>2, <2>2, <2>3
<1> HIDE DEF h
<1>7. /\ TInv' /\ Seen'.item = item'
      /\ AbsHead' = [m \in {0} |-> [complete |-> table'.complete, bucket |-> ch2,
                                    sum |-> table'.sum, total |-> table'.total]]
  BY <1>2, <1>5, <1>6, ReturnedChanged
<1>8. AbsHead' = [AbsHead EXCEPT ![0].bucket[h] = Append(@, n),
                                 ![0].sum[h] = @ + 1, ![0].total = @ + 1]
  <2>1. AbsHead' = [m \in {0} |-> [complete |-> table.complete,
                                   bucket |-> [ch EXCEPT ![h] = Append(@, n)],
                                   sum |-> [table.sum EXCEPT ![h] = @ + 1],
                                   total |-> table.total + 1]]
    BY <1>5, <1>7, Zenon
  <2>2. AbsHead = [m \in {0} |-> [complete |-> table.complete, bucket |-> ch,
                                  sum |-> table.sum, total |-> table.total]]
    BY <1>4
  <2>3. [AbsHead EXCEPT ![0].bucket[h] = Append(@, n), ![0].sum[h] = @ + 1, ![0].total = @ + 1]
        = [m \in {0} |-> [complete |-> table.complete, bucket |-> [ch EXCEPT ![h] = Append(@, n)],
                          sum |-> [table.sum EXCEPT ![h] = @ + 1], total |-> table.total + 1]]
    <3> DEFINE L == [AbsHead EXCEPT ![0].bucket[h] = Append(@, n),
                                    ![0].sum[h] = @ + 1, ![0].total = @ + 1]
               R == [complete |-> table.complete, bucket |-> [ch EXCEPT ![h] = Append(@, n)],
                     sum |-> [table.sum EXCEPT ![h] = @ + 1], total |-> table.total + 1]
    <3>1. L[0] = R
      BY <2>2
    <3>2. L = [m \in {0} |-> L[0]]
      BY <2>2
    <3> HIDE DEF L, R
    <3>3. L = [m \in {0} |-> R]
      BY <3>1, <3>2
    <3> QED BY <3>3 DEF L, R
  <2> QED BY <2>1, <2>3, Zenon
<1>9. Abstract!AddNew(0, call.key)
  <2>1. Seen'.item = [x \in DOMAIN Seen.item \cup {n} |->
                       IF x = n THEN [key |-> call.key, val |-> ZeroVal] ELSE Seen.item[x]]
    BY <1>2, <1>4, <1>7
  <2>2. n \in Abstract!Free
    BY <1>3, <1>4 DEF Abstract!Free
  <2>3. /\ Abstract!Gives(<<0, call.key>>, Abstract!VHASH_OK, n, << >>)
        /\ Abstract!VHASH_OK \in CopyAnswers
    BY <1>2 DEF Abstract!Gives, Abstract!VHASH_OK, VHASH_OK
  <2>4. [m \in {0} |-> CopyAnswers][0] = CopyAnswers
    OBVIOUS
  <2> QED BY <1>2, <1>3, <1>8, <2>1, <2>2, <2>3, <2>4, Zenon DEF Abstract!AddNew, AbsHead, h
<1> QED BY <1>3, <1>7, <1>9, CallImplements DEF Abstract!Call, Abstract!VHash_Add_Node2


-----------------------------------------------------------------------------
\* A call that goes on is not seen: before stays.
LEMMA GoesOn ==
  ASSUME TInv, call # Null, call' \in CallType, UNCHANGED <<max, res, before>>,
         table' # Null, InTable(table', links', item', ChainsOf(links')),
         call'.op = call.op, call'.key = call.key, call'.pc = "run",
         call.op = "Next" => call'.at \in DOMAIN item' \cup {Null},
         table'.complete = table.complete, call.op # "Lock",
         call.op \notin Sweeps => before.table = table' /\ before.links = links' /\ before.item = item',
         call.op \in Searches =>
           \E i \in Nat : Searched(ChainsOf(links)[Hash[call.key]], i)',
         call.op \in Sweeps => Swept(ChainsOf(links))'
  PROVE  Implements
<1>1. call' # Null /\ max = 1
  BY Constants, SeenIs
<1>2. UNCHANGED <<Abstract!vars>>
  <2>1. Seen' = Seen
    BY <1>1 DEF Seen
  <2> QED BY <2>1, Unseen
<1>3. /\ call.op \in (Searches \cup Sweeps \cup {"Next", "Stat", "Lock"}) \ {"Add"}
      /\ call.op \in NeedCallbacks \cup {"Get"} => table.complete
      /\ call.op \in Searches => call.key \in Keys
      /\ InTable(before.table, before.links, before.item, ChainsOf(before.links))
  BY DEF TInv, CallInv
<1>4. CallInv'
  <2>1. ChainsOf(before.links)' = ChainsOf(before.links)
    BY Zenon
  <2>2. InTable(before.table, before.links, before.item, ChainsOf(before.links))'
    BY <1>3, <2>1
  <2> QED BY <1>3, <2>2 DEF CallInv
<1>5. TInv'
  BY <1>1, <1>4 DEF TInv
<1> QED BY <1>2, <1>5 DEF Implements

LEMMA SweepIs ==
  ASSUME TInv, Running(Sweeps)
  PROVE  /\ call # Null /\ call.op \in Sweeps /\ call.pc = "run" /\ call \in CallType
         /\ table \in TableType /\ table # Null /\ Swept(ChainsOf(links))
         /\ Held(links, ChainsOf(links)) /\ Filled(item, ChainsOf(links)) /\ Items(item)
         /\ call.op \notin Searches /\ call.op # "Next" /\ call.op # "Lock"
         /\ call.op \notin NeedCallbacks \cup {"Get"}
<1>1. call # Null /\ call.op \in Sweeps /\ call.pc = "run"
  BY DEF Running
<1>2. call \in CallType /\ table # Null /\ Swept(ChainsOf(links))
      /\ InTable(table, links, item, ChainsOf(links))
  BY <1>1 DEF TInv, CallInv
<1> QED BY <1>1, <1>2 DEF InTable, Sweeps, Searches, NeedCallbacks

LEMMA SweepNodeStep ==
  ASSUME TInv, SweepNode
  PROVE  Implements
<1> DEFINE h == call.at
           ch == ChainsOf(links)
           ch2 == [ch EXCEPT ![h] = Without(ch[h], 1)]
<1>1. /\ Running(Sweeps) /\ h \in Buckets /\ ~IsListEmpty(links, h)
      /\ links' = Scrubbed(RemoveHeadList(links, h), links.Flink[h])
      /\ item' = [m \in DOMAIN item \ {links.Flink[h]} |-> item[m]]
      /\ UNCHANGED <<max, table, holder, call, res, before>>
  BY DEF SweepNode, OffItsList, Drop
<1>2. /\ Held(links, ch) /\ Filled(item, ch) /\ Items(item) /\ table \in TableType /\ table # Null
      /\ call # Null /\ call \in CallType /\ Swept(ch)
  BY <1>1, SweepIs
<1> HIDE DEF ch
<1>3. /\ ch[h] # << >> /\ 1 \in 1..Len(ch[h]) /\ links.Flink[h] = ch[h][1]
      /\ ch[h] \in Chains(Cells, h) /\ Chain(links, h, ch[h]) /\ h \in Cells
      /\ Len(ch[h]) # 0 /\ links \in LinksOn(Cells, Null)
  <2>1. Held(links, ch) /\ h \in Buckets /\ ~IsListEmpty(links, h)
    BY <1>1, <1>2
  <2>2. Len(ch[h]) # 0 /\ links \in LinksOn(Cells, Null)
    <3>1. links \in LinksOn(Cells, Null)
      BY <2>1 DEF Held
    <3> HIDE DEF h
    <3>2. IsListEmpty(links, h) <=> Len(ch[h]) = 0
      BY ONLY <2>1, ChainPlaces
    <3> QED BY ONLY <2>1, <3>1, <3>2
  <2>3. /\ ch[h] \in Chains(Cells, h) /\ Chain(links, h, ch[h]) /\ h \in Cells
        /\ ch[h] # << >> /\ links.Flink[h] = ch[h][1]
    BY <1>1, <2>2, <2>1, ChainPlaces
  <2>4. 1 \in 1..Len(ch[h])
    BY <1>2, <2>2, <2>1 DEF Held
  <2> QED BY <2>2, <2>3, <2>4
<1>4. RemoveHeadList(links, h) = RemoveEntryList(links, ch[h][1])
  BY <1>3, RemoveEndDoes
<1>5. Held(links', ch2) /\ Filled(item', ch2) /\ Items(item')
  <2>1. LET e == ch[h][1]
            l2 == Scrubbed(RemoveEntryList(links, e), e)
            it2 == [m \in DOMAIN item \ {e} |-> item[m]]
        IN  Held(l2, ch2) /\ Filled(it2, ch2) /\ Items(it2)
    <3>1. Held(links, ch) /\ Filled(item, ch) /\ Items(item) /\ h \in Buckets /\ 1 \in 1..Len(ch[h])
      BY <1>1, <1>2, <1>3
    <3> HIDE DEF h
    <3> QED BY <3>1, UnlinkDoes, Zenon
  <2> QED BY <1>1, <1>3, <1>4, <2>1, Zenon
<1>6. ChainsOf(links') = ch2 /\ links' \in LinksOn(Cells, Null)
  BY <1>5, HeldIsRead DEF Held
<1>7. InTable(table', links', item', ChainsOf(links'))
  BY <1>1, <1>2, <1>5, <1>6 DEF InTable
<1>8. Swept(ChainsOf(links))'
  <2>1. \A g \in Buckets : g < h => ch2[g] = << >> /\ table.sum[g] = 0
    <3> TAKE g \in Buckets
    <3> HAVE g < h
    <3>1. ch[g] = << >> /\ table.sum[g] = 0
      BY <1>2 DEF Swept
    <3>2. g # h
      BY <1>1, Constants
    <3>3. ch2[g] = ch[g]
      BY <1>2, <3>2 DEF Held
    <3> QED BY <3>1, <3>3
  <2>2. h \in 0..BucketCount /\ before.table # Null /\ before.table.complete = table.complete
    BY <1>2 DEF Swept
  <2> HIDE DEF ch2
  <2> QED BY <1>1, <1>6, <2>1, <2>2 DEF Swept
<1> QED BY <1>1, <1>2, <1>7, <1>8, SweepIs, GoesOn

LEMMA SweepBucketStep ==
  ASSUME TInv, SweepBucket
  PROVE  Implements
<1> DEFINE h == call.at
           ch == ChainsOf(links)
<1>1. /\ Running(Sweeps) /\ h \in Buckets /\ IsListEmpty(links, h)
      /\ table' = [table EXCEPT !.sum[h] = 0]
      /\ call' = [call EXCEPT !.at = h + 1]
      /\ UNCHANGED <<max, links, item, holder, res, before>>
  BY DEF SweepBucket, EmptySum
<1>2. /\ Held(links, ch) /\ Filled(item, ch) /\ Items(item) /\ table \in TableType /\ table # Null
      /\ call # Null /\ call \in CallType /\ Swept(ch)
  BY <1>1, SweepIs
<1>3. /\ table' \in TableType /\ table'.complete = table.complete
      /\ table'.sum = [table.sum EXCEPT ![h] = 0]
  BY <1>1, <1>2 DEF TableType
<1>4. table' # Null /\ InTable(table', links', item', ChainsOf(links'))
  <2>1. table' # Null
    BY <1>3, Constants
  <2>2. ChainsOf(links') = ch
    BY <1>1, Zenon
  <2> QED BY <1>1, <1>2, <1>3, <2>1, <2>2 DEF InTable, Held
<1>5. /\ call' \in CallType /\ call'.op = call.op /\ call'.key = call.key /\ call'.pc = call.pc
      /\ call'.at = h + 1
  <2>1. h + 1 \in Cells \cup {Null, BucketCount}
    BY <1>1, Constants DEF Buckets, Cells
  <2> HIDE DEF h
  <2> QED BY <1>1, <1>2, <2>1 DEF CallType
<1>6. Swept(ChainsOf(links))'
  <2>1. ChainsOf(links') = ch
    BY <1>1, Zenon
  <2>2. ch[h] = << >>
    BY <1>1, <1>2, ChainPlaces
  <2>3. \A g \in Buckets : g < h => ch[g] = << >> /\ table.sum[g] = 0
    BY <1>2 DEF Swept
  <2>4. \A g \in Buckets : g < h + 1 => ch[g] = << >> /\ table'.sum[g] = 0
    <3> TAKE g \in Buckets
    <3> HAVE g < h + 1
    <3>1. CASE g = h
      BY <1>1, <1>2, <1>3, <2>2, <3>1 DEF TableType
    <3>2. CASE g # h
      <4>1. g < h
        BY <1>1, <3>2, Constants
      <4> QED BY <1>2, <1>3, <2>3, <3>2, <4>1 DEF TableType
    <3> QED BY <3>1, <3>2
  <2>5. h + 1 \in 0..BucketCount /\ before.table # Null /\ before.table.complete = table'.complete
    BY <1>1, <1>2, <1>3, Constants DEF Swept
  <2> HIDE DEF ch, h
  <2> QED BY <1>1, <1>5, <2>1, <2>4, <2>5 DEF Swept
<1> QED BY <1>1, <1>2, <1>3, <1>4, <1>5, <1>6, SweepIs, GoesOn


\* When every chain is swept, the table is as VHash leaves it.
LEMMA SweepDoneStep ==
  ASSUME TInv, SweepDone
  PROVE  Implements
<1> DEFINE ch == ChainsOf(links)
           t == [complete |-> before.table.complete, sum |-> [h \in Buckets |-> 0], total |-> 0]
<1>1. /\ Running(Sweeps) /\ call.at = BucketCount /\ call' = Null
      /\ table' = IF call.op = "Clean" THEN [table EXCEPT !.total = 0] ELSE Null
      /\ UNCHANGED <<max, links, item, before>>
      /\ res' = [of |-> Null, ret |-> VHASH_OK, node |-> Null, nums |-> << >>]
  BY DEF SweepDone, Leaves, Returns
<1>2. /\ Held(links, ch) /\ Filled(item, ch) /\ Items(item) /\ table \in TableType /\ table # Null
      /\ call # Null /\ Swept(ch)
  BY <1>1, SweepIs
<1>3. \A h \in Buckets : ch[h] = << >> /\ table.sum[h] = 0
  BY <1>1, <1>2, Constants DEF Swept
<1>4. ch = [h \in Buckets |-> << >>] /\ table.sum = [h \in Buckets |-> 0]
  BY <1>2, <1>3 DEF Held, TableType
<1>5. DOMAIN item = {}
  <2> SUFFICES ASSUME NEW n \in DOMAIN item PROVE FALSE
    OBVIOUS
  <2>1. PICK h \in Buckets : \E i \in 1..Len(ch[h]) : ch[h][i] = n
    BY <1>2 DEF Filled
  <2>2. Len(ch[h]) = 0
    BY <1>3
  <2> QED BY <2>1, <2>2
<1>6. [table EXCEPT !.total = 0] = t /\ t \in TableType
  <2>1. PICK a \in BOOLEAN, s \in [Buckets -> Int], n \in Int :
          table = [complete |-> a, sum |-> s, total |-> n]
    BY <1>2 DEF TableType
  <2>2. a = before.table.complete /\ s = [h \in Buckets |-> 0]
    BY <1>2, <1>4, <2>1 DEF Swept
  <2>3. [table EXCEPT !.total = 0] = [complete |-> a, sum |-> s, total |-> 0]
    BY <2>1
  <2>4. [complete |-> a, sum |-> s, total |-> 0] \in TableType
    BY DEF TableType
  <2> QED BY <2>2, <2>3, <2>4
<1>7. /\ Seen = before /\ before.table # Null
      /\ InTable(Seen.table, Seen.links, Seen.item, ChainsOf(Seen.links))
      /\ Abstract!HasTable(0) /\ Abstract!NodesOf(0) = DOMAIN Seen.item
  <2>1. Seen = before /\ Seen.table # Null
    BY <1>2, SeenIs
  <2> QED BY <2>1, SeenIs, View
<1>8. AbsHead = [m \in {0} |-> [complete |-> before.table.complete, bucket |-> ChainsOf(before.links),
                                sum |-> before.table.sum, total |-> before.table.total]]
  BY <1>7, AbsHeadIs DEF HeadOf
<1>9. Seen'.table = table' /\ Seen'.links = links /\ Seen'.item = item
      /\ AbsHead' = HeadOf(table', links)
  <2>1. Seen'.table = table' /\ Seen'.links = links' /\ Seen'.item = item'
    BY <1>1, SeenAfter
  <2>2. AbsHead' = HeadOf(Seen'.table, Seen'.links)
    BY AbsHeadIs
  <2> QED BY <1>1, <2>1, <2>2
<1>10. Seen'.item = Abstract!Drop(Abstract!NodesOf(0))
  <2>1. item = [n \in {} |-> Seen.item[n]]
    BY <1>2, <1>5 DEF Items
  <2>2. DOMAIN Seen.item \ Abstract!NodesOf(0) = {}
    BY <1>7
  <2>3. Abstract!Drop(Abstract!NodesOf(0)) =
          [n \in DOMAIN Seen.item \ Abstract!NodesOf(0) |-> Seen.item[n]]
    BY Zenon DEF Abstract!Drop
  <2> QED BY <1>9, <2>1, <2>2, <2>3, Zenon
<1>11. Abstract!Returns(Abstract!VHASH_OK)
  BY <1>1 DEF Abstract!Returns, Abstract!Gives, Abstract!VHASH_OK, VHASH_OK
<1>12. TInv'
  <2>1. ChainsOf(links') = ch
    BY <1>1, Zenon
  <2>2. table' \in {t, Null} /\ t # Null
    BY <1>1, <1>6, Constants
  <2> HIDE DEF ch, t
  <2>3. InTable(table', links', item', ChainsOf(links'))
    BY <1>1, <1>2, <1>5, <1>6, <2>1, <2>2 DEF InTable, Held
  <2> QED BY <1>1, <1>2, <2>3, Returned, SeenIs
<1>13. CASE call.op = "Clean"
  <2>1. table' = t
    BY <1>1, <1>6, <1>13
  <2>2. t # Null
    BY <1>6, Constants
  <2>3. HeadOf(t, links) = [m \in {0} |-> Abstract!NewHead(before.table.complete)]
    BY <1>4, <2>2, Zenon DEF HeadOf, Abstract!NewHead, Abstract!Buckets, Buckets
  <2>4. AbsHead' = [AbsHead EXCEPT ![0] = Abstract!NewHead(@.complete)]
    <3>1. AbsHead[0].complete = before.table.complete
      BY <1>8
    <3>2. AbsHead' = [m \in {0} |-> Abstract!NewHead(before.table.complete)]
      BY <1>9, <2>1, <2>3
    <3>3. [AbsHead EXCEPT ![0] = Abstract!NewHead(AbsHead[0].complete)]
          = [m \in {0} |-> Abstract!NewHead(before.table.complete)]
      BY <1>8, <3>1
    <3> QED BY <3>2, <3>3
  <2>5. Abstract!VHash_Clean_Moudle(0)
    BY <1>1, <1>7, <1>10, <1>11, <2>4, Zenon DEF Abstract!VHash_Clean_Moudle, AbsHead
  <2> QED BY <1>12, <2>5, CallImplements DEF Abstract!Call
<1>14. CASE call.op # "Clean"
  <2>1. table' = Null
    BY <1>1, <1>14
  <2>2. AbsHead' = [m \in {0} |-> Null]
    BY <1>9, <2>1 DEF HeadOf
  <2>3. AbsHead' = [AbsHead EXCEPT ![0] = Null]
    BY <1>8, <2>2
  <2>4. Abstract!VHash_Destory_Moudle(0)
    BY <1>1, <1>7, <1>10, <1>11, <2>3, Zenon DEF Abstract!VHash_Destory_Moudle, AbsHead
  <2> QED BY <1>12, <2>4, CallImplements DEF Abstract!Call
<1> QED BY <1>13, <1>14


LEMMA AcquireStep ==
  ASSUME TInv, Acquire
  PROVE  Implements
<1>1. call # Null /\ call.pc = "lock" /\ ~Sweeping /\ UNCHANGED <<max, table, links, item, res, before>>
  BY DEF Acquire, Sweeping
<1>2. CASE call.op = "Lock"
  <2>1. call' = Null
    BY <1>2 DEF Acquire
  <2>2. TInv' /\ AbsHead' = AbsHead /\ Seen'.item = Seen.item
    BY <1>1, <2>1, ReturnedSame
  <2>3. UNCHANGED <<Abstract!vars>>
    BY <1>1, <2>2 DEF Abstract!vars, AbsHead
  <2> QED BY <2>2, <2>3 DEF Implements
<1>3. CASE call.op # "Lock"
  <2> DEFINE ch == ChainsOf(links)
             h == Hash[call.key]
             start == IF call.op \in Searches THEN links.Flink[h]
                      ELSE IF call.op \in Sweeps THEN 0 ELSE call.at
  <2>1. call' = [call EXCEPT !.pc = "run", !.at = start]
    BY <1>3 DEF Acquire
  <2>2. /\ call \in CallType /\ table # Null /\ InTable(table, links, item, ChainsOf(links))
        /\ before.table = table /\ before.links = links /\ before.item = item
        /\ call.op \in Searches => call.key \in Keys
        /\ call.op = "Next" => call.at \in DOMAIN item \cup {Null}
    BY <1>1 DEF TInv, CallInv
  <2>3. call.op \in Searches =>
          /\ h \in Buckets /\ h \in Cells /\ ch[h] \in Chains(Cells, h) /\ Chain(links, h, ch[h])
          /\ links.Flink[h] = At(ch[h], h, 0 + 1) /\ links.Flink[h] \in Cells
          /\ Len(ch[h]) \in Nat
    <3> SUFFICES ASSUME call.op \in Searches
                 PROVE  /\ h \in Buckets /\ h \in Cells /\ ch[h] \in Chains(Cells, h) /\ Chain(links, h, ch[h])
                        /\ links.Flink[h] = At(ch[h], h, 0 + 1) /\ links.Flink[h] \in Cells
                        /\ Len(ch[h]) \in Nat
      OBVIOUS
    <3>1. h \in Buckets /\ Held(links, ch)
      BY <2>2, Constants DEF InTable
    <3>2. h \in Cells /\ ch[h] \in Chains(Cells, h) /\ Chain(links, h, ch[h]) /\ Len(ch[h]) \in Nat
      BY <3>1, ChainPlaces
    <3>3. links.Flink[h] = At(ch[h], h, 1)
      BY <3>2, RingNeighbours
    <3>4. At(ch[h], h, 1) \in Cells
      BY <3>2, AtPlaces
    <3> QED BY <3>1, <3>2, <3>3, <3>4
  <2>4. start \in Cells \cup {Null, BucketCount}
    <3>1. 0 \in Cells
      BY Constants DEF Buckets, Cells
    <3>2. call.at \in Cells \cup {Null, BucketCount}
      BY <2>2 DEF CallType
    <3> QED BY <2>3, <3>1, <3>2
  <2> HIDE DEF start
  <2>5. /\ call' \in CallType /\ call'.op = call.op /\ call'.key = call.key /\ call'.pc = "run"
        /\ call'.at = start
    BY <2>1, <2>2, <2>4 DEF CallType
  <2>6. ChainsOf(links') = ch
    BY <1>1, Zenon
  <2>7. call.op \in Searches => \E i \in Nat : Searched(ChainsOf(links)[Hash[call.key]], i)'
    <3> SUFFICES ASSUME call.op \in Searches
                 PROVE  Searched(ChainsOf(links)[Hash[call.key]], 0)'
      OBVIOUS
    <3>1. 0 \in 0..Len(ch[h]) /\ call'.at = At(ch[h], h, 0 + 1)
      BY <2>3, <2>5 DEF start
    <3>2. ChainsOf(links')[Hash[call'.key]] = ch[h]
      BY <2>5, <2>6
    <3>3. Hash[call'.key] = h
      BY <2>5
    <3> HIDE DEF ch, h
    <3> QED BY <3>1, <3>2, <3>3 DEF Searched
  <2>8. call.op \in Sweeps => Swept(ChainsOf(links))'
    <3> SUFFICES ASSUME call.op \in Sweeps
                 PROVE  Swept(ChainsOf(links))'
      OBVIOUS
    <3>1. call'.at = 0
      BY <2>5 DEF start, Sweeps, Searches
    <3>2. \A g \in Buckets : ~(g < 0) /\ 0 \in 0..BucketCount
      BY Constants
    <3> QED BY <1>1, <2>2, <3>1, <3>2, Constants DEF Swept
  <2>9. call.op = "Next" => call'.at \in DOMAIN item' \cup {Null}
    BY <1>1, <2>2, <2>5 DEF start, Searches, Sweeps
  <2>10. InTable(table', links', item', ChainsOf(links'))
    BY <1>1, <2>2, <2>6
  <2> QED BY <1>1, <1>3, <2>2, <2>5, <2>7, <2>8, <2>9, <2>10, GoesOn
<1> QED BY <1>2, <1>3

LEMMA PassStep ==
  ASSUME TInv, Pass
  PROVE  Implements
<1> DEFINE c == Chained
           h == Hash[call.key]
<1>1. /\ Running(Searches) /\ ~AtEnd /\ ~Matches /\ call # Null /\ call.op \in Searches
      /\ call.op \notin Sweeps /\ call.op # "Next" /\ call.op # "Lock" /\ call.pc = "run"
      /\ call' = [call EXCEPT !.node = call.at, !.at = links.Flink[call.at]]
      /\ UNCHANGED <<max, table, links, item, holder, res, before>>
  BY DEF Pass, Running, Searches, Sweeps
<1>2. /\ call \in CallType /\ table # Null /\ InTable(table, links, item, ChainsOf(links))
      /\ before.table = table /\ before.links = links /\ before.item = item
  BY <1>1 DEF TInv, CallInv
<1>3. PICK i \in Nat : StandsAt(i)
  BY <1>1, Standing
<1>4. /\ h \in Buckets /\ Len(c) \in Nat /\ c \in Chains(Cells, h) /\ h \in Cells
  <2>1. h \in Buckets /\ Held(links, ChainsOf(links))
    BY <1>1, <1>2, Standing DEF InTable
  <2>2. /\ ChainsOf(links)[h] \in Chains(Cells, h) /\ h \in Cells
        /\ Len(ChainsOf(links)[h]) \in Nat
    BY <2>1, ChainPlaces
  <2> QED BY <2>1, <2>2 DEF Chained
<1>5. /\ i < Len(c) /\ call.at = c[i + 1] /\ call.at \in DOMAIN item
      /\ links.Flink[call.at] = At(c, h, (i + 1) + 1)
      /\ item[c[i + 1]].key # call.key /\ \A j \in 1..i : item[c[j]].key # call.key
  BY <1>1, <1>3, <1>4 DEF StandsAt, AtEnd, Matches
<1>6. links.Flink[call.at] \in Cells
  <2>1. (i + 1) + 1 \in Int
    OBVIOUS
  <2> QED BY <1>4, <1>5, <2>1, AtPlaces
<1>7. call.at \in Nodes
  BY <1>2, <1>5 DEF InTable, Items
<1> HIDE DEF c, h
<1>8. /\ call' \in CallType /\ call'.op = call.op /\ call'.key = call.key /\ call'.pc = "run"
      /\ call'.at = At(c, h, (i + 1) + 1)
  BY <1>1, <1>2, <1>5, <1>6, <1>7 DEF CallType
<1>9. ChainsOf(links') = ChainsOf(links)
  BY <1>1, Zenon
<1>10. \E n \in Nat : Searched(ChainsOf(links)[Hash[call.key]], n)'
  <2>1. i + 1 \in 0..Len(c) /\ i + 1 \in Nat
    BY <1>4, <1>5
  <2>2. \A j \in 1..(i + 1) : item[c[j]].key # call.key
    <3> TAKE j \in 1..(i + 1)
    <3>1. j \in 1..i \/ j = i + 1
      OBVIOUS
    <3> QED BY <1>5, <3>1
  <2>3. ChainsOf(links')[Hash[call'.key]] = c /\ Hash[call'.key] = h
    BY <1>8, <1>9 DEF c, h, Chained
  <2>4. Searched(ChainsOf(links)[Hash[call.key]], i + 1)'
    BY <1>1, <1>8, <2>1, <2>2, <2>3 DEF Searched
  <2> QED BY <2>1, <2>4
<1>11. InTable(table', links', item', ChainsOf(links'))
  BY <1>1, <1>2, <1>9
<1> QED BY <1>1, <1>2, <1>8, <1>10, <1>11, GoesOn


-----------------------------------------------------------------------------
\* Between calls.
LEMMA IdleIs ==
  ASSUME TInv, call = Null
  PROVE  /\ ~Sweeping /\ Seen.table = table /\ Seen.links = links /\ Seen.item = item
         /\ max \in {0, 1} /\ (table # Null => max = 1)
         /\ InTable(table, links, item, ChainsOf(links)) /\ Items(item)
         /\ Abstract!InRange(0) <=> max = 1
         /\ Abstract!HasTable(0) <=> table # Null
         /\ table = Null => AbsHead = [m \in {0} |-> Null]
         /\ table # Null => /\ AbsHead[0].complete = table.complete
                            /\ AbsHead[0].total = table.total
<1>1. ~Sweeping /\ Seen.table = table /\ Seen.links = links /\ Seen.item = item
  BY SeenIs DEF Sweeping
<1>2. /\ max \in {0, 1} /\ (table # Null => max = 1)
      /\ InTable(table, links, item, ChainsOf(links)) /\ Items(item)
  BY DEF TInv, InTable
<1>3. (Abstract!InRange(0) <=> max = 1) /\ (Abstract!HasTable(0) <=> table # Null)
  BY <1>1, View
<1>4. AbsHead = HeadOf(table, links)
  <2>1. AbsHead = HeadOf(Seen.table, Seen.links)
    BY AbsHeadIs
  <2> QED BY <1>1, <2>1, Zenon
<1>5. table = Null => AbsHead = [m \in {0} |-> Null]
  BY <1>4 DEF HeadOf
<1>6. table # Null => AbsHead[0].complete = table.complete /\ AbsHead[0].total = table.total
  <2> SUFFICES ASSUME table # Null
               PROVE  AbsHead[0].complete = table.complete /\ AbsHead[0].total = table.total
    OBVIOUS
  <2>1. HeadOf(table, links)[0] = [complete |-> table.complete, bucket |-> ChainsOf(links),
                                   sum |-> table.sum, total |-> table.total]
    BY <1>2, HeadIsThere
  <2> QED BY <1>4, <2>1
<1> QED BY <1>1, <1>2, <1>3, <1>5, <1>6

LEMMA InitStep ==
  ASSUME TInv, VHash_Init
  PROVE  Implements
<1>1. /\ call = Null /\ max = 0 /\ call' = Null /\ UNCHANGED <<table, links, item>>
      /\ \/ max' = 1 /\ res' = [of |-> Null, ret |-> VHASH_OK, node |-> Null, nums |-> << >>]
         \/ max' = 0 /\ res' = [of |-> Null, ret |-> -1, node |-> Null, nums |-> << >>]
  BY DEF VHash_Init, Returns
<1>2. table = Null /\ InTable(table, links, item, ChainsOf(links))
  BY <1>1, IdleIs
<1>3. ChainsOf(links') = ChainsOf(links)
  BY <1>1, Zenon
<1>4. TInv'
  <2>1. InTable(table', links', item', ChainsOf(links'))
    BY <1>1, <1>2, <1>3
  <2> QED BY <1>1, <1>2, <2>1 DEF TInv, CallInv
<1>5. AbsHead' = AbsHead /\ Seen'.item = Seen.item
  <2>1. Seen' = Seen
    BY <1>1 DEF Seen
  <2> QED BY <2>1 DEF AbsHead
<1>6. Abstract!VHash_Init
  BY <1>1, <1>5 DEF Abstract!VHash_Init, Abstract!Returns, Abstract!Gives, AbsHead, Abstract!VHASH_OK, VHASH_OK
<1> QED BY <1>4, <1>6 DEF Implements, Abstract!Next

\* The heads of a new table point at themselves: every chain is empty.
LEMMA NewChains ==
  ASSUME NEW l \in LinksOn(Cells, Null), NEW l2,
         l2 = [f \in DOMAIN l |-> [c \in Cells |-> IF c \in Buckets THEN c ELSE l[f][c]]]
  PROVE  Held(l2, [h \in Buckets |-> << >>])
<1> DEFINE ch == [h \in Buckets |-> << >>]
<1>1. l2 = [Flink |-> [c \in Cells |-> IF c \in Buckets THEN c ELSE l.Flink[c]],
            Blink |-> [c \in Cells |-> IF c \in Buckets THEN c ELSE l.Blink[c]]]
  BY DEF LinksOn
<1>2. l2 \in LinksOn(Cells, Null)
  BY <1>1 DEF LinksOn
<1>3. ASSUME NEW h \in Buckets
      PROVE  ch[h] = << >> /\ << >> \in Chains(Cells, h) /\ Chain(l2, h, << >>) /\ Ring(h, << >>) = {h}
  <2>1. h \in Cells /\ l2.Flink[h] = h /\ l2.Blink[h] = h
    BY <1>1, Constants
  <2>2. << >> \in Chains(Cells, h) /\ Len(<< >>) = 0
    BY DEF Chains
  <2>3. \A i \in 0..0 : At(<< >>, h, i) = h /\ At(<< >>, h, i + 1) = h
    BY <2>2 DEF At
  <2>4. Chain(l2, h, << >>)
    BY <2>1, <2>2, <2>3 DEF Chain
  <2>5. Ring(h, << >>) = {h}
    BY DEF Ring
  <2> QED BY <2>2, <2>4, <2>5
<1>4. ch \in [Buckets -> Seq(Nodes)]
  OBVIOUS
<1> HIDE DEF ch
<1>5. ASSUME NEW g \in Buckets, NEW h \in Buckets, g # h
      PROVE  Ring(g, ch[g]) \cap Ring(h, ch[h]) = {}
  <2>1. Ring(g, ch[g]) = {g} /\ Ring(h, ch[h]) = {h}
    BY <1>3
  <2> QED BY <1>5, <2>1
<1>6. \A h \in Buckets : ch[h] \in Chains(Cells, h) /\ Chain(l2, h, ch[h])
  BY <1>3
<1>7. Held(l2, ch)
  BY <1>2, <1>4, <1>5, <1>6 DEF Held
<1> QED BY <1>7 DEF ch

LEMMA CreateStep ==
  ASSUME TInv, NEW complete \in BOOLEAN, VHash_Create_Moudle(complete)
  PROVE  Implements
<1>1. /\ call = Null /\ call' = Null /\ UNCHANGED <<max, item>>
  BY DEF VHash_Create_Moudle, Returns
<1>2. /\ ~Sweeping /\ Seen.table = table /\ Seen.links = links /\ Seen.item = item
      /\ max \in {0, 1} /\ (table # Null => max = 1)
      /\ InTable(table, links, item, ChainsOf(links)) /\ Items(item)
      /\ Abstract!InRange(0) <=> max = 1
      /\ Abstract!HasTable(0) <=> table # Null
      /\ table = Null => AbsHead = [m \in {0} |-> Null]
  BY <1>1, IdleIs
<1>3. ASSUME NEW ret, UNCHANGED <<table, links>>, Returns(Null, ret, Null, << >>),
             \/ max = 0 /\ ret = VHASH_ERR
             \/ table # Null /\ ret = VHASH_OK
             \/ max = 1 /\ table = Null /\ ret = VHASH_NOT_INNIF
      PROVE  Implements
  <2>1. TInv' /\ AbsHead' = AbsHead /\ Seen'.item = Seen.item
    BY <1>1, <1>2, <1>3, ReturnedSame
  <2>2. Abstract!Returns(ret)
    BY <1>3 DEF Returns, Abstract!Returns, Abstract!Gives
  <2>3. Abstract!VHash_Create_Moudle(0, complete)
    <3>1. \/ ~Abstract!InRange(0) /\ Abstract!Returns(Abstract!VHASH_ERR)
          \/ Abstract!HasTable(0) /\ Abstract!Returns(Abstract!VHASH_OK)
          \/ /\ Abstract!InRange(0) /\ ~Abstract!HasTable(0)
             /\ Abstract!Returns(Abstract!VHASH_NOT_INNIF)
      BY <1>2, <1>3, <2>2 DEF Abstract!VHASH_OK, VHASH_OK, Abstract!VHASH_ERR, VHASH_ERR,
           Abstract!VHASH_NOT_INNIF, VHASH_NOT_INNIF
    <3>2. max' = max
      BY <1>1
    <3> QED BY <2>1, <3>1, <3>2, Zenon DEF Abstract!VHash_Create_Moudle, AbsHead
  <2> QED BY <2>1, <2>3, CallImplements DEF Abstract!Call
<1>4. ASSUME max = 1, table = Null,
             table' = [complete |-> complete, sum |-> [h \in Buckets |-> 0], total |-> 0],
             links' = [f \in DOMAIN links |->
                         [c \in Cells |-> IF c \in Buckets THEN c ELSE links[f][c]]],
             Returns(Null, VHASH_OK, Null, << >>)
      PROVE  Implements
  <2> DEFINE ch == [h \in Buckets |-> << >>]
  <2>1. links \in LinksOn(Cells, Null) /\ DOMAIN item = {}
    BY <1>2, <1>4 DEF InTable
  <2>2. Held(links', ch)
    BY <1>4, <2>1, NewChains
  <2>3. ChainsOf(links') = ch /\ links' \in LinksOn(Cells, Null)
    BY <2>2, HeldIsRead DEF Held
  <2>4. table' \in TableType /\ table' # Null
    <3>1. table' \in TableType
      BY <1>4 DEF TableType
    <3> QED BY <3>1, Constants
  <2>5. Filled(item', ch)
    BY <1>1, <2>1 DEF Filled
  <2>6. InTable(table', links', item', ChainsOf(links'))
    BY <1>1, <1>2, <2>2, <2>3, <2>4, <2>5 DEF InTable
  <2>7. TInv'
    BY <1>1, <1>4, <2>6, Returned
  <2>8. Seen'.table = table' /\ Seen'.links = links' /\ Seen'.item = item'
    BY <1>1, SeenAfter
  <2>9. AbsHead' = [AbsHead EXCEPT ![0] = Abstract!NewHead(complete)]
    <3>1. AbsHead' = HeadOf(table', links')
      BY <2>8, AbsHeadIs
    <3>2. HeadOf(table', links') =
            [m \in {0} |-> [complete |-> table'.complete, bucket |-> ch,
                            sum |-> table'.sum, total |-> table'.total]]
      BY <2>3, <2>4 DEF HeadOf
    <3>3. table'.complete = complete /\ table'.sum = [h \in Buckets |-> 0] /\ table'.total = 0
      BY <1>4
    <3>4. [complete |-> table'.complete, bucket |-> ch, sum |-> table'.sum, total |-> table'.total]
          = Abstract!NewHead(complete)
      BY <3>3, Zenon DEF Abstract!NewHead, Abstract!Buckets, Buckets
    <3>5. AbsHead' = [m \in {0} |-> Abstract!NewHead(complete)]
      BY <3>1, <3>2, <3>4
    <3>6. AbsHead = [m \in {0} |-> Null]
      BY <1>2, <1>4
    <3> QED BY <3>5, <3>6
  <2>10. Abstract!Returns(Abstract!VHASH_OK)
    BY <1>4 DEF Returns, Abstract!Returns, Abstract!Gives, Abstract!VHASH_OK, VHASH_OK
  <2>11. Abstract!VHash_Create_Moudle(0, complete)
    <3>1. Seen'.item = Seen.item /\ max' = max /\ Abstract!InRange(0) /\ ~Abstract!HasTable(0)
      BY <1>1, <1>2, <1>4, <2>8
    <3> QED BY <2>9, <2>10, <3>1, Zenon DEF Abstract!VHash_Create_Moudle, AbsHead
  <2> QED BY <2>7, <2>11, CallImplements DEF Abstract!Call
<1> QED BY <1>3, <1>4 DEF VHash_Create_Moudle


\* A call is refused, or begins: then it has seen the table as it is now.
LEMMA BeginStep ==
  ASSUME TInv, NEW op \in (Searches \cup Sweeps \cup {"Next", "Stat", "Lock"}) \ {"Add"},
         NEW k, NEW prev, Begin(op, k, prev),
         op \in Searches => k \in Keys, op \notin Searches => k = Null,
         op = "Next" => prev \in DOMAIN item \cup {Null}, op # "Next" => prev = Null
  PROVE  Implements
<1>1. /\ call = Null /\ (op = "Get" /\ table # Null => table.complete)
      /\ before' = [table |-> table, links |-> links, item |-> item]
      /\ UNCHANGED <<max, table, links, item, holder>>
  BY DEF Begin
<1>2. /\ ~Sweeping /\ Seen.table = table /\ Seen.links = links /\ Seen.item = item
      /\ max \in {0, 1} /\ (table # Null => max = 1)
      /\ InTable(table, links, item, ChainsOf(links)) /\ Items(item)
      /\ Abstract!HasTable(0) <=> table # Null
      /\ table # Null => AbsHead[0].complete = table.complete
  BY <1>1, IdleIs
<1>3. ASSUME table = Null, Returns(Null, VHASH_ERR, Null, << >>)
      PROVE  Implements
  <2>1. TInv' /\ AbsHead' = AbsHead /\ Seen'.item = Seen.item
    BY <1>1, <1>2, <1>3, ReturnedSame DEF Returns
  <2>2. Abstract!Returns(Abstract!VHASH_ERR) /\ ~Abstract!HasTable(0) /\ max' = max
    BY <1>1, <1>2, <1>3 DEF Returns, Abstract!Returns, Abstract!Gives, Abstract!VHASH_ERR, VHASH_ERR
  <2>3. Abstract!Refuse(0)
    BY <2>1, <2>2, Zenon DEF Abstract!Refuse, AbsHead
  <2> QED BY <2>1, <2>3, CallImplements DEF Abstract!Call
<1>4. ASSUME table # Null, ~table.complete, Returns(Null, VHASH_INTERFACE_ERR, Null, << >>)
      PROVE  Implements
  <2>1. TInv' /\ AbsHead' = AbsHead /\ Seen'.item = Seen.item
    BY <1>1, <1>2, <1>4, ReturnedSame DEF Returns
  <2>2. /\ Abstract!Returns(Abstract!VHASH_INTERFACE_ERR) /\ Abstract!HasTable(0) /\ max' = max
        /\ ~AbsHead[0].complete
    BY <1>1, <1>2, <1>4 DEF Returns, Abstract!Returns, Abstract!Gives,
         Abstract!VHASH_INTERFACE_ERR, VHASH_INTERFACE_ERR
  <2>3. Abstract!RefuseIncomplete(0)
    BY <2>1, <2>2, Zenon DEF Abstract!RefuseIncomplete, AbsHead
  <2> QED BY <2>1, <2>3, CallImplements DEF Abstract!Call
<1>5. ASSUME table # Null, op \in NeedCallbacks => table.complete, UNCHANGED res,
             call' = [op |-> op, key |-> k, pc |-> "lock", at |-> prev, node |-> Null]
      PROVE  Implements
  <2>1. call' # Null /\ call' \in CallType
    <3>1. k \in Keys \cup {Null}
      BY <1>5
    <3>2. prev \in Cells \cup {Null, BucketCount}
      BY <1>2, Constants DEF Items
    <3>3. op \in Searches \cup Sweeps \cup {"Next", "Stat", "Lock"} /\ "lock" \in {"lock", "run"}
      OBVIOUS
    <3>4. [op |-> op, key |-> k, pc |-> "lock", at |-> prev, node |-> Null] \in CallType
      BY <3>1, <3>2, <3>3 DEF CallType
    <3>5. call' \in CallType
      BY <1>5, <3>4, Zenon
    <3> QED BY <3>5, Constants
  <2>2. /\ before'.table = table /\ before'.links = links /\ before'.item = item
        /\ Seen = [table |-> table, links |-> links, item |-> item]
    BY <1>1 DEF Seen
  <2>3. UNCHANGED <<Abstract!vars>>
    <3>1. Seen' = Seen
      BY <1>1, <2>1, <2>2 DEF Seen
    <3> QED BY <1>1, <1>5, <3>1, Unseen
  <2>4. ChainsOf(links') = ChainsOf(links) /\ ChainsOf(before.links)' = ChainsOf(links)
    BY <1>1, <2>2, Zenon
  <2>5. InTable(before.table, before.links, before.item, ChainsOf(before.links))'
        /\ InTable(table', links', item', ChainsOf(links'))
    BY <1>1, <1>2, <2>2, <2>4
  <2>6. /\ call'.op = op /\ call'.key = k /\ call'.pc = "lock" /\ call'.at = prev
    BY <1>5
  <2>7. CallInv'
    BY <1>1, <1>5, <2>1, <2>2, <2>5, <2>6 DEF CallInv
  <2>8. TInv'
    BY <1>1, <1>2, <2>5, <2>7 DEF TInv
  <2> QED BY <2>3, <2>8 DEF Implements
<1> QED BY <1>3, <1>4, <1>5 DEF Begin

LEMMA TotalStep ==
  ASSUME TInv, VHash_Node_Total
  PROVE  Implements
<1>1. /\ call = Null /\ table # Null /\ call' = Null /\ UNCHANGED <<max, table, links, item>>
      /\ res' = [of |-> Null, ret |-> VHASH_OK, node |-> Null, nums |-> <<table.total>>]
  BY DEF VHash_Node_Total, Returns
<1>2. ~Sweeping /\ Abstract!HasTable(0) /\ AbsHead[0].total = table.total
  BY <1>1, IdleIs
<1>3. TInv' /\ AbsHead' = AbsHead /\ Seen'.item = Seen.item
  BY <1>1, <1>2, ReturnedSame
<1>4. Abstract!Gives(Null, Abstract!VHASH_OK, Null, <<AbsHead[0].total>>) /\ max' = max
  BY <1>1, <1>2 DEF Abstract!Gives, Abstract!VHASH_OK, VHASH_OK
<1>5. Abstract!VHash_Node_Total(0)
  BY <1>2, <1>3, <1>4, Zenon DEF Abstract!VHash_Node_Total, AbsHead
<1> QED BY <1>3, <1>5, CallImplements DEF Abstract!Call

LEMMA UnLockStep ==
  ASSUME TInv, VHash_unLock
  PROVE  Implements
<1>1. call = Null /\ call' = Null /\ UNCHANGED <<max, table, links, item, res>>
  BY DEF VHash_unLock
<1>2. TInv' /\ AbsHead' = AbsHead /\ Seen'.item = Seen.item
  BY <1>1, IdleIs, ReturnedSame
<1>3. UNCHANGED <<Abstract!vars>>
  BY <1>1, <1>2 DEF Abstract!vars, AbsHead
<1> QED BY <1>2, <1>3 DEF Implements

LEMMA StoreStep ==
  ASSUME TInv, NEW v \in Vals, Store(v)
  PROVE  Implements
<1> DEFINE ch == ChainsOf(links)
<1>1. /\ call = Null /\ call' = Null /\ UNCHANGED <<max, table, links, res>> /\ res.node # Null
      /\ item' = [item EXCEPT ![res.node].val = v]
  BY DEF Store
<1>2. /\ InTable(table, links, item, ch) /\ Items(item) /\ Seen.item = item
      /\ Seen.table = table /\ Seen.links = links /\ (table # Null => max = 1)
  BY <1>1, IdleIs
<1>3. /\ DOMAIN item' = DOMAIN item /\ item' = [n \in DOMAIN item' |-> item'[n]]
      /\ \A n \in DOMAIN item : /\ item'[n].key = item[n].key
                                /\ item'[n] = [key |-> item'[n].key, val |-> item'[n].val]
  <2>1. DOMAIN item' = DOMAIN item /\ item' = [n \in DOMAIN item' |-> item'[n]]
    BY <1>1
  <2>2. ASSUME NEW n \in DOMAIN item
        PROVE  item'[n].key = item[n].key /\ item'[n] = [key |-> item'[n].key, val |-> item'[n].val]
    <3>1. item[n] = [key |-> item[n].key, val |-> item[n].val]
      BY <1>2 DEF Items
    <3>2. CASE n = res.node
      <4>1. item'[n] = [item[n] EXCEPT !.val = v]
        BY <1>1, <3>2
      <4>2. item'[n] = [key |-> item[n].key, val |-> v]
        BY <3>1, <4>1
      <4> QED BY <4>2
    <3>3. CASE n # res.node
      <4>1. item'[n] = item[n]
        BY <1>1, <3>3
      <4> QED BY <3>1, <4>1
    <3> QED BY <3>2, <3>3
  <2> QED BY <2>1, <2>2
<1>4. Items(item') /\ (Filled(item, ch) => Filled(item', ch))
  <2>1. Items(item')
    BY <1>2, <1>3 DEF Items
  <2>2. Filled(item, ch) => Filled(item', ch)
    BY <1>3 DEF Filled
  <2> QED BY <2>1, <2>2
<1>5. ChainsOf(links') = ch
  BY <1>1, Zenon
<1>6. TInv'
  <2>1. InTable(table', links', item', ChainsOf(links'))
    BY <1>1, <1>2, <1>3, <1>4, <1>5 DEF InTable
  <2> QED BY <1>1, <1>2, <2>1, Returned
<1>7. Seen'.table = Seen.table /\ Seen'.links = Seen.links /\ Seen'.item = item'
  BY <1>1, <1>2, SeenAfter
<1>8. AbsHead' = AbsHead
  BY <1>7, AbsHeadIs
<1>9. Abstract!Store(v)
  BY <1>1, <1>2, <1>7, <1>8, Zenon DEF Abstract!Store, AbsHead
<1> QED BY <1>6, <1>9 DEF Implements, Abstract!Next


-----------------------------------------------------------------------------
LEMMA Begins == Init => TInv /\ Abstract!Init
<1> SUFFICES ASSUME Init PROVE TInv /\ Abstract!Init
  OBVIOUS
<1>1. /\ max = 0 /\ table = Null /\ item = << >> /\ call = Null
      /\ links = [Flink |-> [c \in Cells |-> Null], Blink |-> [c \in Cells |-> Null]]
      /\ res = [of |-> Null, ret |-> VHASH_OK, node |-> Null, nums |-> << >>]
  BY DEF Init
<1>2. links \in LinksOn(Cells, Null)
  BY <1>1 DEF LinksOn
<1>3. DOMAIN item = {} /\ Items(item)
  BY <1>1 DEF Items
<1>4. TInv
  BY <1>1, <1>2, <1>3 DEF TInv, InTable, CallInv
<1>5. Seen.table = Null /\ Seen.item = << >>
  BY <1>1 DEF Seen
<1>6. AbsHead = [m \in {0} |-> Null]
  BY <1>5, AbsHeadIs DEF HeadOf
<1>7. Abstract!Init
  BY <1>1, <1>5, <1>6 DEF Abstract!Init, AbsHead, Abstract!VHASH_OK, VHASH_OK
<1> QED BY <1>4, <1>7

LEMMA CallsStep ==
  ASSUME TInv, "Add" \notin uses, Calls
  PROVE  Implements
<1>1. ASSUME NEW k \in Keys, Begin("Get", k, Null) PROVE Implements
  BY <1>1, BeginStep DEF Searches, Sweeps
<1>2. ASSUME NEW k \in Keys, NEW op \in {"Add2", "Del"}, Begin(op, k, Null) PROVE Implements
  BY <1>2, BeginStep DEF Searches, Sweeps
<1>3. ASSUME NEW prev \in DOMAIN item \cup {Null}, Begin("Next", Null, prev) PROVE Implements
  BY <1>3, BeginStep DEF Searches, Sweeps
<1>4. ASSUME NEW op \in Sweeps \cup {"Stat"}, Begin(op, Null, Null) PROVE Implements
  BY <1>4, BeginStep DEF Searches, Sweeps
<1>5. ASSUME PORT_VHash_Lock PROVE Implements
  <2>1. Begin("Lock", Null, Null)
    BY <1>5 DEF PORT_VHash_Lock
  <2> QED BY <2>1, BeginStep DEF Searches, Sweeps
<1>6. ASSUME PORT_VHash_unLock PROVE Implements
  BY <1>6, UnLockStep DEF PORT_VHash_unLock
<1> QED BY <1>1, <1>2, <1>3, <1>4, <1>5, <1>6, CreateStep, InitStep, TotalStep, StoreStep DEF Calls

LEMMA ContinuesStep ==
  ASSUME TInv, Continues
  PROVE  Implements
<1>1. ~AddOver
  BY DEF AddOver, Running, TInv, CallInv
<1> QED BY <1>1, AcquireStep, PassStep, GetFoundStep, AddFoundStep, DelFoundStep, NotFoundStep, AddNewStep,
         AddFailsStep, SweepNodeStep, SweepBucketStep, SweepDoneStep, NextStep, StatStep DEF Continues

\* Every step keeps the invariant and is a step of VHash or none.
LEMMA EveryStep ==
  ASSUME LinkedInv, [Next]_vars
  PROVE  LinkedInv' /\ (("Add" \in uses \/ Abstract!Next) \/ UNCHANGED <<Abstract!vars>>)
<1>1. CASE UNCHANGED vars
  <2>1. UNCHANGED <<Abstract!vars>>
    <3>1. Seen' = Seen
      BY <1>1 DEF vars, Seen
    <3> QED BY <1>1, <3>1, Unseen DEF vars
  <2>2. LinkedInv'
    <3>1. ChainsOf(links)' = ChainsOf(links) /\ ChainsOf(before.links)' = ChainsOf(before.links)
      BY <1>1, Zenon DEF vars
    <3>2. CallInv => CallInv'
      <4> SUFFICES ASSUME CallInv, call # Null PROVE CallInv'
        BY <1>1 DEF vars, CallInv
      <4>1. call.op \in Sweeps /\ call.pc = "run" => Swept(ChainsOf(links))'
        BY <1>1, <3>1 DEF vars, CallInv, Swept
      <4>2. call.op \in Searches /\ call.pc = "run" =>
              \E i \in Nat : Searched(ChainsOf(links)[Hash[call.key]], i)'
        BY <1>1, <3>1 DEF vars, CallInv, Searched
      <4>3. InTable(before.table, before.links, before.item, ChainsOf(before.links))'
        BY <1>1, <3>1 DEF vars, CallInv
      <4> QED BY <1>1, <4>1, <4>2, <4>3 DEF vars, CallInv
    <3>3. TInv => TInv'
      BY <1>1, <3>1, <3>2 DEF vars, TInv
    <3> QED BY <1>1, <3>3 DEF vars, LinkedInv
  <2> QED BY <2>1, <2>2
<1>2. CASE Next /\ "Add" \in uses
  BY <1>2 DEF Next, LinkedInv
<1>3. CASE Next /\ "Add" \notin uses
  <2>1. Implements
    BY <1>3, CallsStep, ContinuesStep DEF Next, LinkedInv
  <2> QED BY <1>3, <2>1 DEF Next, LinkedInv, Implements
<1> QED BY <1>1, <1>2, <1>3

\* In a program without VHash_Add_Node the links are those of a table, or of
\* the step of a call that is under way in it.
THEOREM LinksAreTable == Spec => []LinkedInv
<1>1. Init => LinkedInv
  BY Begins DEF LinkedInv
<1>2. LinkedInv /\ [Next]_vars => LinkedInv'
  BY EveryStep
<1> QED BY <1>1, <1>2, PTL DEF Spec

\* NeverLost, of vhash.c and list.c: no step of any call follows a link out of
\* the table.
THEOREM NothingLost == Spec => []NeverLost
<1>1. LinkedInv => NeverLost
  <2> SUFFICES ASSUME LinkedInv, table # Null, "Add" \notin uses
               PROVE  LET live == Buckets \cup DOMAIN item
                      IN  /\ \A c \in live :
                               /\ links.Flink[c] \in live /\ links.Blink[links.Flink[c]] = c
                               /\ links.Blink[c] \in live /\ links.Flink[links.Blink[c]] = c
                          /\ Running(Searches) => call.at \in live
    BY DEF NeverLost
  <2> DEFINE live == Buckets \cup DOMAIN item
             ch == ChainsOf(links)
  <2>1. TInv /\ Held(links, ch) /\ Filled(item, ch)
    BY DEF LinkedInv, TInv, InTable
  <2>2. ASSUME NEW h \in Buckets
        PROVE  /\ h \in Cells /\ ch[h] \in Chains(Cells, h) /\ Chain(links, h, ch[h])
               /\ Ring(h, ch[h]) \subseteq live
    BY <2>1, ChainPlaces DEF Filled, Ring
  <2>3. ASSUME NEW c \in live
        PROVE  \E h \in Buckets : c \in Ring(h, ch[h])
    BY <2>1 DEF Filled, Ring
  <2> HIDE DEF live, ch
  <2>4. ASSUME NEW c \in live
        PROVE  /\ links.Flink[c] \in live /\ links.Blink[links.Flink[c]] = c
               /\ links.Blink[c] \in live /\ links.Flink[links.Blink[c]] = c
    <3>1. PICK h \in Buckets : c \in Ring(h, ch[h])
      BY <2>3
    <3>2. /\ h \in Cells /\ ch[h] \in Chains(Cells, h) /\ Chain(links, h, ch[h])
          /\ Ring(h, ch[h]) \subseteq live
      BY <2>2
    <3>3. /\ links.Flink[c] \in Ring(h, ch[h]) /\ links.Blink[c] \in Ring(h, ch[h])
          /\ links.Blink[links.Flink[c]] = c /\ links.Flink[links.Blink[c]] = c
      BY <3>1, <3>2, RingNeighbours
    <3> QED BY <3>2, <3>3
  <2>5. Running(Searches) => call.at \in live
    <3> SUFFICES ASSUME Running(Searches) PROVE call.at \in live
      OBVIOUS
    <3>1. PICK i \in Nat : StandsAt(i)
      BY <2>1, Standing
    <3>2. Hash[call.key] \in Buckets /\ Len(Chained) \in Nat
      BY <2>1, Standing
    <3> QED BY <3>1, <3>2 DEF StandsAt, live
  <2> QED BY <2>4, <2>5 DEF live
<1> QED BY <1>1, LinksAreTable, PTL

\* Every call of vhash.c, run step by step over the links of list.c, is one
\* step of VHash: the whole of what the table promises is kept by its code.
THEOREM CallsAreAtomic == Spec => AtomicSpec
<1>1. Init => Abstract!Init
  BY Begins
<1>2. LinkedInv /\ [Next]_vars => ["Add" \in uses \/ Abstract!Next]_<<Abstract!vars>>
  BY EveryStep
<1> QED BY <1>1, <1>2, LinksAreTable, PTL DEF Spec, AtomicSpec
=============================================================================
