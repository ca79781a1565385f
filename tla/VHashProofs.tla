---------------------------- MODULE VHashProofs ----------------------------
(***************************************************************************)
(* The hash table, for any modules, keys, hash function, callbacks and     *)
(* sequences of calls: its invariants, and that it implements PortMap.  Then *)
(* what its callers make of it: an enumeration between whose calls nodes are *)
(* added and deleted, the wrappers of port_vhash.c, and pkt_recv, call by  *)
(* call, which is the tracer of Tracer.                                    *)
(***************************************************************************)
EXTENDS VHashScan, PktRecv, SequenceTheorems, FiniteSetTheorems, WellFoundedInduction, TLAPS

\* TypeOK but for the caller's data, which no call looks at.
Shape ==
  /\ max \in {0, ModuleMax}
  /\ DOMAIN head = Ids
  /\ \A m \in Ids : head[m] \in HeadType \cup {Null}
  /\ DOMAIN item \subseteq Nodes
  /\ \A n \in DOMAIN item :
       item[n].key \in Keys /\ item[n] = [key |-> item[n].key, val |-> item[n].val]
  /\ res.ret \in -1..VHASH_UPDATE_OK
  /\ res.node \in Nodes \cup {Null}
Typed == \A n \in DOMAIN item : item[n].val \in Vals

\* The invariants of the table hold together: each call relies on all of
\* them.
IInv == Shape /\ HeapIsTable /\ KeysUnique /\ CountersAgree

\* The type invariant in two parts: what the proofs of the calls go by, and
\* what the callers store.
LEMMA Types == TypeOK <=> Shape /\ Typed
<1>1. TypeOK => Shape /\ Typed
  BY DEF TypeOK, Shape, Typed
<1>2. Shape /\ Typed => TypeOK
  <2> SUFFICES ASSUME Shape, Typed, NEW n \in DOMAIN item
               PROVE  item[n] \in [key : Keys, val : Vals]
    BY DEF TypeOK, Shape, Typed
  <2> QED BY DEF Shape, Typed
<1> QED BY <1>1, <1>2

-----------------------------------------------------------------------------
(***************************************************************************)
(* Chains.                                                                 *)
(***************************************************************************)
\* What the chains of a table hold.
LEMMA ChainedNodes ==
  ASSUME NEW hd \in HeadType, NEW n
  PROVE  n \in UNION {{hd.bucket[h][i] : i \in DOMAIN hd.bucket[h]} : h \in Buckets} <=>
           \E h \in Buckets : \E i \in 1..Len(hd.bucket[h]) : hd.bucket[h][i] = n
<1>1. \A h \in Buckets : DOMAIN hd.bucket[h] = 1..Len(hd.bucket[h])
  BY DEF HeadType
<1> QED BY <1>1

\* The nodes of a module are what its chains hold.
LEMMA NodesAreChained ==
  ASSUME Shape, NEW m \in Ids, head[m] # Null, NEW n
  PROVE  n \in NodesOf(m) <=>
           \E h \in Buckets : \E i \in 1..Len(head[m].bucket[h]) : head[m].bucket[h][i] = n
<1>1. head[m] \in HeadType
  BY DEF Shape
<1>2. NodesOf(m) = UNION {{head[m].bucket[h][i] : i \in DOMAIN head[m].bucket[h]} : h \in Buckets}
  BY DEF NodesOf
<1> QED BY ONLY <1>1, <1>2, ChainedNodes

\* What is left of a chain when one place is taken out of it.
LEMMA RemoveAtProperties ==
  ASSUME NEW S, NEW s \in Seq(S), NEW i \in 1..Len(s)
  PROVE  /\ RemoveAt(s, i) \in Seq(S) /\ Len(RemoveAt(s, i)) = Len(s) - 1
         /\ \A j \in 1..(Len(s) - 1) :
              RemoveAt(s, i)[j] = IF j < i THEN s[j] ELSE s[j + 1]
<1> DEFINE before == SubSeq(s, 1, i - 1)
           after == SubSeq(s, i + 1, Len(s))
<1>1. Len(s) \in Nat /\ i \in Nat /\ i >= 1 /\ i <= Len(s)
  BY LenProperties
<1>2. \A j \in 1..Len(s) : s[j] \in S
  BY ElementOfSeq
<1>3. /\ before \in Seq(S) /\ Len(before) = i - 1
      /\ \A j \in 1..(i - 1) : before[j] = s[j]
  <2>1. 1 \in Int /\ i - 1 \in Int /\ \A j \in 1..(i - 1) : s[j] \in S
    BY <1>1, <1>2
  <2>2. /\ before \in Seq(S)
        /\ Len(before) = IF 1 <= i - 1 THEN i - 1 - 1 + 1 ELSE 0
        /\ \A j \in 1..(i - 1 - 1 + 1) : before[j] = s[1 + j - 1]
    BY <2>1, SubSeqProperties
  <2> HIDE DEF before
  <2> QED BY <1>1, <2>2
<1>4. /\ after \in Seq(S) /\ Len(after) = Len(s) - i
      /\ \A j \in 1..(Len(s) - i) : after[j] = s[i + j]
  <2>1. i + 1 \in Int /\ Len(s) \in Int /\ \A j \in (i + 1)..Len(s) : s[j] \in S
    BY <1>1, <1>2
  <2>2. /\ after \in Seq(S)
        /\ Len(after) = IF i + 1 <= Len(s) THEN Len(s) - (i + 1) + 1 ELSE 0
        /\ \A j \in 1..(Len(s) - (i + 1) + 1) : after[j] = s[(i + 1) + j - 1]
    BY <2>1, SubSeqProperties
  <2> HIDE DEF after
  <2> QED BY <1>1, <2>2
<1>5. RemoveAt(s, i) = before \o after
  BY DEF RemoveAt
<1> HIDE DEF before, after
<1>6. /\ before \o after \in Seq(S)
      /\ Len(before \o after) = Len(before) + Len(after)
      /\ \A j \in 1..(Len(before) + Len(after)) :
           (before \o after)[j] = IF j <= Len(before) THEN before[j] ELSE after[j - Len(before)]
  BY <1>3, <1>4, ConcatProperties
<1>7. \A j \in 1..(Len(s) - 1) : (before \o after)[j] = IF j < i THEN s[j] ELSE s[j + 1]
  <2> SUFFICES ASSUME NEW j \in 1..(Len(s) - 1)
               PROVE  (before \o after)[j] = IF j < i THEN s[j] ELSE s[j + 1]
    OBVIOUS
  <2>1. (before \o after)[j] = IF j <= i - 1 THEN before[j] ELSE after[j - (i - 1)]
    BY <1>1, <1>3, <1>4, <1>6
  <2>2. CASE j < i
    <3>1. j \in 1..(i - 1)
      BY <1>1, <2>2
    <3> QED BY <1>1, <1>3, <2>1, <2>2, <3>1
  <2>3. CASE ~(j < i)
    <3>1. j - (i - 1) \in 1..(Len(s) - i) /\ i + (j - (i - 1)) = j + 1
      BY <1>1, <2>3
    <3> QED BY <1>1, <1>4, <2>1, <2>3, <3>1
  <2> QED BY <2>2, <2>3
<1> QED BY <1>1, <1>3, <1>4, <1>5, <1>6, <1>7

\* A node is in the chain of its key, at one place.
LEMMA NodeHasPlace ==
  ASSUME IInv, NEW m \in Ids, head[m] # Null, NEW n \in NodesOf(m)
  PROVE  /\ n \in DOMAIN item /\ n \in Nodes /\ item[n].key \in Keys
         /\ Hash[item[n].key] \in Buckets
         /\ \E i \in 1..Len(Chain(m, item[n].key)) :
              /\ Chain(m, item[n].key)[i] = n
              /\ \A j \in 1..Len(Chain(m, item[n].key)) :
                   Chain(m, item[n].key)[j] = n => j = i
<1>1. n \in DOMAIN item /\ n \in Nodes
  BY DEF IInv, HeapIsTable, Shape
<1>2. item[n].key \in Keys
  BY <1>1 DEF IInv, Shape
<1>3. Hash[item[n].key] \in Buckets
  BY <1>2, BucketsAssumption
<1>4. PICK h \in Buckets : \E i \in 1..Len(head[m].bucket[h]) : head[m].bucket[h][i] = n
  BY NodesAreChained DEF IInv
<1>4a. PICK i \in 1..Len(head[m].bucket[h]) : head[m].bucket[h][i] = n
  BY <1>4
<1>5. DOMAIN head[m].bucket[h] = 1..Len(head[m].bucket[h])
  BY DEF IInv, Shape, HeadType
<1>6. Hash[item[n].key] = h
  BY <1>4a, <1>5 DEF IInv, HeapIsTable
<1>7. \A j \in 1..Len(head[m].bucket[h]) : head[m].bucket[h][j] = n => j = i
  BY <1>4a, <1>5 DEF IInv, HeapIsTable
<1> QED BY <1>1, <1>2, <1>3, <1>4a, <1>6, <1>7 DEF Chain

\* What is in a chain is a node of the module.
LEMMA PlaceHasNode ==
  ASSUME Shape, NEW m \in Ids, head[m] # Null, NEW h \in Buckets,
         NEW i \in 1..Len(head[m].bucket[h])
  PROVE  head[m].bucket[h][i] \in NodesOf(m) /\ head[m].bucket[h][i] \in Nodes
<1>1. head[m].bucket[h] \in Seq(Nodes)
  BY DEF Shape, HeadType
<1> QED BY <1>1, NodesAreChained, ElementOfSeq

\* The search finds the one node of the key, and finds it if there is one.
LEMMA SearchFinds ==
  ASSUME IInv, NEW m \in Ids, Ready(m), NEW k \in Keys
  PROVE  /\ Hits(m, k) # {} =>
              /\ FirstHit(m, k) \in 1..Len(Chain(m, k))
              /\ Chain(m, k)[FirstHit(m, k)] \in NodesOf(m)
              /\ item[Chain(m, k)[FirstHit(m, k)]].key = k
         /\ \A n \in NodesOf(m) :
              item[n].key = k => /\ Hits(m, k) # {}
                                 /\ Chain(m, k)[FirstHit(m, k)] = n
<1>1. head[m] # Null /\ Hash[k] \in Buckets
  BY BucketsAssumption DEF Ready, HasTable
<1>2. DOMAIN Chain(m, k) = 1..Len(Chain(m, k)) /\ Chain(m, k) = head[m].bucket[Hash[k]]
  BY <1>1 DEF IInv, Shape, HeadType, Chain
<1>3. \A i \in Hits(m, k) : /\ i \in 1..Len(Chain(m, k)) /\ Chain(m, k)[i] \in NodesOf(m)
                            /\ item[Chain(m, k)[i]].key = k
  BY <1>1, <1>2, PlaceHasNode DEF IInv, Hits, pfnVHash_Compare
<1>4. \A i, j \in Hits(m, k) : i = j
  <2> SUFFICES ASSUME NEW i \in Hits(m, k), NEW j \in Hits(m, k) PROVE i = j
    OBVIOUS
  <2>1. Chain(m, k)[i] = Chain(m, k)[j]
    BY <1>3 DEF IInv, KeysUnique
  <2>2. \A f, g \in DOMAIN head[m].bucket[Hash[k]] :
          head[m].bucket[Hash[k]][f] = head[m].bucket[Hash[k]][g] => f = g
    BY <1>1 DEF IInv, HeapIsTable
  <2> QED BY ONLY <1>2, <1>3, <2>1, <2>2
<1>5. Hits(m, k) # {} => FirstHit(m, k) \in Hits(m, k)
  <2> SUFFICES ASSUME NEW i \in Hits(m, k) PROVE FirstHit(m, k) \in Hits(m, k)
    OBVIOUS
  <2>1. \A j \in Hits(m, k) : i <= j
    BY <1>3, <1>4
  <2> QED BY <2>1 DEF FirstHit
<1>6. ASSUME NEW n \in NodesOf(m), item[n].key = k
      PROVE  Hits(m, k) # {}
  <2>1. PICK i \in 1..Len(Chain(m, k)) : Chain(m, k)[i] = n
    BY <1>1, <1>6, NodeHasPlace
  <2>2. i \in Hits(m, k)
    BY <1>2, <1>6, <2>1 DEF Hits, pfnVHash_Compare
  <2> QED BY <2>2
<1>7. ASSUME NEW n \in NodesOf(m), item[n].key = k
      PROVE  Chain(m, k)[FirstHit(m, k)] = n
  BY <1>3, <1>5, <1>6, <1>7 DEF IInv, KeysUnique
<1> QED BY <1>3, <1>5, <1>6, <1>7

-----------------------------------------------------------------------------
(***************************************************************************)
(* The kinds of steps.  Each keeps the invariant.                          *)
(***************************************************************************)
\* A call that changes no table, and gives a node that is allocated or none.
LEMMA ReportKeeps ==
  ASSUME IInv, UNCHANGED <<head, item>>, max' \in {0, ModuleMax},
         res'.ret \in -1..VHASH_UPDATE_OK, res'.node \in DOMAIN item \cup {Null}
  PROVE  IInv'
<1>1. Shape'
  BY DEF IInv, Shape
<1>2. HeapIsTable'
  <2>1. \A m \in Ids : NodesOf(m)' = NodesOf(m)
    BY DEF NodesOf
  <2>2. DOMAIN item' = UNION {NodesOf(m)' : m \in Ids}
    BY <2>1 DEF IInv, HeapIsTable
  <2>3. \A m, o \in Ids : m # o => NodesOf(m)' \cap NodesOf(o)' = {}
    BY <2>1 DEF IInv, HeapIsTable
  <2> QED BY <2>2, <2>3 DEF IInv, HeapIsTable
<1>3. KeysUnique'
  BY DEF IInv, KeysUnique, NodesOf
<1>4. CountersAgree'
  BY DEF IInv, CountersAgree, NodesOf
<1> QED BY <1>1, <1>2, <1>3, <1>4 DEF IInv

\* The nodes of a module depend on its head alone.
LEMMA SameNodes ==
  ASSUME NEW m \in Ids, head'[m] = head[m]
  PROVE  NodesOf(m)' = NodesOf(m)
BY DEF NodesOf

\* A new table is empty.
LEMMA NewHeadEmpty ==
  ASSUME NEW complete \in BOOLEAN
  PROVE  /\ NewHead(complete) \in HeadType
         /\ \A h \in Buckets : /\ NewHead(complete).bucket[h] = << >>
                                /\ NewHead(complete).sum[h] = 0
         /\ NewHead(complete).total = 0
<1>1. << >> \in Seq(Nodes)
  BY EmptySeq
<1> QED BY <1>1 DEF NewHead, HeadType

\* A table is made, emptied or removed: its nodes are freed.
LEMMA ResetKeeps ==
  ASSUME IInv, NEW m \in Ids, NEW new,
         new = Null \/ \E complete \in BOOLEAN : new = NewHead(complete),
         head' = [head EXCEPT ![m] = new],
         DOMAIN item' = DOMAIN item \ NodesOf(m),
         \A n \in DOMAIN item' : item'[n] = item[n],
         max' = max, res'.ret \in -1..VHASH_UPDATE_OK, res'.node = Null
  PROVE  IInv'
<1>1. /\ DOMAIN head' = Ids /\ head'[m] = new
      /\ \A o \in Ids \ {m} : head'[o] = head[o]
  BY DEF IInv, Shape
<1>2. new # Null =>
        /\ new \in HeadType /\ new.total = 0
        /\ \A h \in Buckets : new.bucket[h] = << >> /\ new.sum[h] = 0
  BY NewHeadEmpty
<1>3. Shape'
  BY <1>1, <1>2 DEF IInv, Shape
<1>4. \A o \in Ids \ {m} : NodesOf(o)' = NodesOf(o)
  BY <1>1, SameNodes
<1>5. NodesOf(m)' = {}
  <2>1. CASE new = Null
    BY <1>1, <2>1 DEF NodesOf
  <2>2. CASE new # Null
    <3>1. \A h \in Buckets : DOMAIN head'[m].bucket[h] = {}
      BY <1>1, <1>2, <2>2
    <3> QED BY <1>1, <2>2, <3>1 DEF NodesOf
  <2> QED BY <2>1, <2>2
<1>6. HeapIsTable'
  <2>1. DOMAIN item' = UNION {NodesOf(o)' : o \in Ids}
    BY <1>4, <1>5 DEF IInv, HeapIsTable
  <2>2. \A o, p \in Ids : o # p => NodesOf(o)' \cap NodesOf(p)' = {}
    BY <1>4, <1>5 DEF IInv, HeapIsTable
  <2>3. ASSUME NEW o \in Ids, head'[o] # Null, NEW h \in Buckets
        PROVE  /\ \A i \in DOMAIN head'[o].bucket[h] : Hash[item'[head'[o].bucket[h][i]].key] = h
               /\ \A i, j \in DOMAIN head'[o].bucket[h] :
                    head'[o].bucket[h][i] = head'[o].bucket[h][j] => i = j
    <3>1. CASE o = m
      BY <1>1, <1>2, <2>3, <3>1
    <3>2. CASE o # m
      <4>1. head'[o] = head[o] /\ head[o] # Null
        BY <1>1, <2>3, <3>2
      <4>2. DOMAIN head[o].bucket[h] = 1..Len(head[o].bucket[h])
        BY <4>1 DEF IInv, Shape, HeadType
      <4>3. \A i \in DOMAIN head[o].bucket[h] :
               item'[head[o].bucket[h][i]] = item[head[o].bucket[h][i]]
        <5> SUFFICES ASSUME NEW i \in DOMAIN head[o].bucket[h]
                     PROVE  head[o].bucket[h][i] \in DOMAIN item'
          OBVIOUS
        <5>1. head[o].bucket[h][i] \in NodesOf(o)
          BY <4>1, <4>2, PlaceHasNode DEF IInv
        <5> QED BY <1>4, <2>1, <3>2, <5>1
      <4>4. /\ \A i \in DOMAIN head[o].bucket[h] : Hash[item[head[o].bucket[h][i]].key] = h
            /\ \A i, j \in DOMAIN head[o].bucket[h] :
                 head[o].bucket[h][i] = head[o].bucket[h][j] => i = j
        BY <4>1 DEF IInv, HeapIsTable
      <4>5. \A i \in DOMAIN head[o].bucket[h] : Hash[item'[head[o].bucket[h][i]].key] = h
        BY ONLY <4>3, <4>4
      <4> QED BY ONLY <4>1, <4>4, <4>5
    <3> QED BY <3>1, <3>2
  <2> QED BY <2>1, <2>2, <2>3 DEF HeapIsTable
<1>7. KeysUnique'
  <2>1. \A o \in Ids : NodesOf(o)' \subseteq NodesOf(o) /\ NodesOf(o)' \subseteq DOMAIN item'
    BY <1>4, <1>5, <1>6 DEF HeapIsTable
  <2> QED BY <2>1 DEF IInv, KeysUnique
<1>8. CountersAgree'
  <2>1. Cardinality({}) = 0
    BY FS_EmptySet
  <2>2. \A o \in Ids \ {m} : head'[o] # Null =>
          /\ \A h \in Buckets : head'[o].sum[h] = Len(head'[o].bucket[h])
          /\ head'[o].total = Cardinality(NodesOf(o)')
    BY <1>1, <1>4 DEF IInv, CountersAgree
  <2>3. new # Null =>
          /\ \A h \in Buckets : head'[m].sum[h] = Len(head'[m].bucket[h])
          /\ head'[m].total = Cardinality(NodesOf(m)')
    BY <1>1, <1>2, <1>5, <2>1
  <2> QED BY <1>1, <2>2, <2>3 DEF CountersAgree
<1> QED BY <1>3, <1>6, <1>7, <1>8 DEF IInv

\* Writing the value of an allocated node changes no key and no chain.
LEMMA StoreKeeps ==
  ASSUME IInv, NEW n \in DOMAIN item, NEW v,
         item' = [item EXCEPT ![n].val = v], UNCHANGED <<max, head, res>>
  PROVE  IInv'
<1>1. /\ DOMAIN item' = DOMAIN item
      /\ \A o \in DOMAIN item : item'[o].key = item[o].key /\ item'[o].key \in Keys
      /\ \A o \in DOMAIN item : item'[o] = [key |-> item'[o].key, val |-> item'[o].val]
  BY DEF IInv, Shape
<1>2. \A m \in Ids : NodesOf(m)' = NodesOf(m) /\ NodesOf(m) \subseteq DOMAIN item
  <2>1. \A m \in Ids : NodesOf(m)' = NodesOf(m)
    BY DEF NodesOf
  <2> QED BY <2>1 DEF IInv, HeapIsTable
<1>3. Shape'
  BY <1>1 DEF IInv, Shape
<1>4. HeapIsTable'
  <2>1. DOMAIN item' = UNION {NodesOf(m)' : m \in Ids}
    BY <1>1, <1>2 DEF IInv, HeapIsTable
  <2>2. \A m, o \in Ids : m # o => NodesOf(m)' \cap NodesOf(o)' = {}
    BY <1>2 DEF IInv, HeapIsTable
  <2>3. ASSUME NEW m \in Ids, head[m] # Null, NEW h \in Buckets, NEW i \in DOMAIN head[m].bucket[h]
        PROVE  Hash[item'[head[m].bucket[h][i]].key] = h
    <3>1. DOMAIN head[m].bucket[h] = 1..Len(head[m].bucket[h])
      BY <2>3 DEF IInv, Shape, HeadType
    <3>2. head[m].bucket[h][i] \in DOMAIN item
      BY <1>2, <2>3, <3>1, PlaceHasNode DEF IInv
    <3>3. Hash[item[head[m].bucket[h][i]].key] = h
      BY <2>3 DEF IInv, HeapIsTable
    <3> QED BY <1>1, <3>2, <3>3
  <2>4. res'.node # Null => res'.node \in DOMAIN item'
    BY <1>1 DEF IInv, HeapIsTable
  <2>5. \A m \in Ids : head'[m] # Null =>
          \A h \in Buckets : \A i, j \in DOMAIN head'[m].bucket[h] :
            head'[m].bucket[h][i] = head'[m].bucket[h][j] => i = j
    BY DEF IInv, HeapIsTable
  <2>6. \A m \in Ids : head'[m] # Null =>
          \A h \in Buckets : \A i \in DOMAIN head'[m].bucket[h] :
            Hash[item'[head'[m].bucket[h][i]].key] = h
    BY <2>3
  <2> QED BY <2>1, <2>2, <2>4, <2>5, <2>6 DEF HeapIsTable
<1>5. KeysUnique'
  BY <1>1, <1>2 DEF IInv, KeysUnique
<1>6. CountersAgree'
  BY <1>2 DEF IInv, CountersAgree
<1> QED BY <1>3, <1>4, <1>5, <1>6 DEF IInv

\* A chain, its count and the total are replaced.
Rechained(m, b, chain, count, total) ==
  [head EXCEPT ![m].bucket[b] = chain, ![m].sum[b] = count, ![m].total = total]

\* What of the heads that changes, and what stays.
HeadChange(m, b, chain, count, total) ==
  /\ DOMAIN head' = Ids
  /\ head'[m] \in HeadType /\ head'[m] # Null
  /\ head'[m].total = total
  /\ head'[m].bucket[b] = chain /\ head'[m].sum[b] = count
  /\ \A h \in Buckets \ {b} :
       head'[m].bucket[h] = head[m].bucket[h] /\ head'[m].sum[h] = head[m].sum[h]
  /\ \A o \in Ids \ {m} : head'[o] = head[o]

\* A module whose chain, count and total are replaced changes so.
LEMMA HeadChanges ==
  ASSUME Shape, NEW m \in Ids, head[m] # Null, NEW b \in Buckets,
         NEW chain \in Seq(Nodes), NEW count \in Nat, NEW total \in Nat,
         head' = Rechained(m, b, chain, count, total)
  PROVE  HeadChange(m, b, chain, count, total)
<1>1. head[m] \in HeadType
  BY DEF Shape
<1>2. /\ head'[m] = [head[m] EXCEPT !.bucket[b] = chain, !.sum[b] = count, !.total = total]
      /\ DOMAIN head' = Ids
      /\ \A o \in Ids \ {m} : head'[o] = head[o]
  BY DEF Shape, Rechained
<1>3. head'[m] = [complete |-> head[m].complete,
                  bucket |-> [head[m].bucket EXCEPT ![b] = chain],
                  sum |-> [head[m].sum EXCEPT ![b] = count],
                  total |-> total]
  BY <1>1, <1>2 DEF HeadType
<1>4. head'[m] \in HeadType
  <2>1. /\ head[m].bucket \in [Buckets -> Seq(Nodes)]
        /\ head[m].sum \in [Buckets -> Nat] /\ head[m].complete \in BOOLEAN
    BY <1>1 DEF HeadType
  <2> DEFINE buckets == [head[m].bucket EXCEPT ![b] = chain]
             sums == [head[m].sum EXCEPT ![b] = count]
  <2>2. buckets \in [Buckets -> Seq(Nodes)] /\ sums \in [Buckets -> Nat]
    BY <2>1
  <2>3. head'[m] = [complete |-> head[m].complete, bucket |-> buckets, sum |-> sums, total |-> total]
    BY <1>3
  <2> HIDE DEF buckets, sums
  <2>4. [complete |-> head[m].complete, bucket |-> buckets, sum |-> sums, total |-> total] \in HeadType
    BY <2>1, <2>2 DEF HeadType
  <2> QED BY <2>3, <2>4
<1>5. head'[m] # Null
  BY <1>4, NodesAssumption
<1>6. /\ head'[m].bucket[b] = chain /\ head'[m].sum[b] = count
      /\ \A h \in Buckets \ {b} :
           head'[m].bucket[h] = head[m].bucket[h] /\ head'[m].sum[h] = head[m].sum[h]
  <2>1. DOMAIN head[m].bucket = Buckets /\ DOMAIN head[m].sum = Buckets
    BY <1>1 DEF HeadType
  <2>2. head'[m].bucket = [head[m].bucket EXCEPT ![b] = chain]
    BY <1>3
  <2>3. head'[m].sum = [head[m].sum EXCEPT ![b] = count]
    BY <1>3
  <2>4. head'[m].bucket[b] = chain /\ \A h \in Buckets \ {b} : head'[m].bucket[h] = head[m].bucket[h]
    BY <2>1, <2>2
  <2>5. head'[m].sum[b] = count /\ \A h \in Buckets \ {b} : head'[m].sum[h] = head[m].sum[h]
    BY <2>1, <2>3
  <2> QED BY <2>4, <2>5
<1> QED BY <1>2, <1>3, <1>4, <1>5, <1>6 DEF HeadChange

\* What the nodes of a module and the heap are after a node was added, and
\* after one was removed.
Gains(m, k, n) ==
  /\ NodesOf(m)' = NodesOf(m) \cup {n} /\ n \notin NodesOf(m)
  /\ head'[m] # Null /\ \A o \in Ids \ {m} : head'[o] = head[o]
  /\ \A x \in DOMAIN item : item'[x] = item[x]
  /\ item'[n] = [key |-> k, val |-> ZeroVal]
  /\ Gives(<<m, k>>, VHASH_OK, n, << >>)
Loses(m, n) ==
  /\ NodesOf(m)' = NodesOf(m) \ {n} /\ n \in NodesOf(m)
  /\ head'[m] # Null /\ \A o \in Ids \ {m} : head'[o] = head[o]
  /\ \A x \in DOMAIN item \ {n} : item'[x] = item[x]

\* A fresh node goes to the end of the chain of a key that was not there.
LEMMA AddKeeps ==
  ASSUME IInv, NEW m \in Ids, NEW k \in Keys, AddNew(m, k)
  PROVE  IInv' /\ \E n : Gains(m, k, n)
<1> DEFINE b == Hash[k]
           c == head[m].bucket[b]
<1>1. /\ b \in Buckets /\ Ready(m) /\ head[m] # Null /\ head[m] \in HeadType
      /\ Hits(m, k) = {} /\ max' = max
  BY BucketsAssumption DEF AddNew, Ready, HasTable, IInv, Shape
<1>2. PICK n \in Free :
        /\ item' = [x \in DOMAIN item \cup {n} |->
                      IF x = n THEN [key |-> k, val |-> ZeroVal] ELSE item[x]]
        /\ head' = [head EXCEPT ![m].bucket[b] = Append(@, n),
                                ![m].sum[b] = @ + 1, ![m].total = @ + 1]
        /\ res' = [of |-> <<m, k>>, ret |-> VHASH_OK, node |-> n, nums |-> << >>]
  BY DEF AddNew, Gives
<1>3. n \in Nodes /\ n \notin DOMAIN item
  BY <1>2 DEF Free
<1>4. c \in Seq(Nodes) /\ head[m].sum[b] \in Nat /\ head[m].total \in Nat
  BY <1>1 DEF HeadType
<1>4a. c = head[m].bucket[b]
  OBVIOUS
<1> HIDE DEF b, c
<1>5. /\ Append(c, n) \in Seq(Nodes) /\ Len(Append(c, n)) = Len(c) + 1 /\ Len(c) \in Nat
      /\ \A i \in 1..Len(c) : Append(c, n)[i] = c[i]
      /\ Append(c, n)[Len(c) + 1] = n
  BY <1>3, <1>4, AppendProperties
<1>6. head' = Rechained(m, b, Append(c, n), head[m].sum[b] + 1, head[m].total + 1)
  BY <1>1, <1>2, <1>4a DEF IInv, Shape, HeadType, Rechained
<1>7. /\ DOMAIN head' = Ids
      /\ head'[m] \in HeadType /\ head'[m] # Null
      /\ head'[m].total = head[m].total + 1
      /\ head'[m].bucket[b] = Append(c, n) /\ head'[m].sum[b] = head[m].sum[b] + 1
      /\ \A h \in Buckets \ {b} :
           head'[m].bucket[h] = head[m].bucket[h] /\ head'[m].sum[h] = head[m].sum[h]
      /\ \A o \in Ids \ {m} : head'[o] = head[o]
  <2>1. head[m].sum[b] + 1 \in Nat /\ head[m].total + 1 \in Nat
    BY <1>4
  <2>2. Shape
    BY DEF IInv
  <2>3. head[m] # Null /\ b \in Buckets /\ Append(c, n) \in Seq(Nodes)
    BY <1>1, <1>5
  <2>4. HeadChange(m, b, Append(c, n), head[m].sum[b] + 1, head[m].total + 1)
    BY ONLY <1>6, <2>1, <2>2, <2>3, HeadChanges, Zenon
  <2> QED BY ONLY <2>4 DEF HeadChange
<1>8. NodesOf(m)' = NodesOf(m) \cup {n}
  <2>1. \A x : x \in NodesOf(m)' <=>
           \E h \in Buckets : \E i \in 1..Len(head'[m].bucket[h]) : head'[m].bucket[h][i] = x
    BY <1>7, ChainedNodes DEF NodesOf
  <2>2. \A x : x \in NodesOf(m) <=>
           \E h \in Buckets : \E i \in 1..Len(head[m].bucket[h]) : head[m].bucket[h][i] = x
    BY <1>1, NodesAreChained DEF IInv
  <2>3. ASSUME NEW x \in NodesOf(m) PROVE x \in NodesOf(m)'
    <3>1. PICK h \in Buckets : \E i \in 1..Len(head[m].bucket[h]) : head[m].bucket[h][i] = x
      BY <2>2, <2>3
    <3>2. PICK i \in 1..Len(head[m].bucket[h]) : head[m].bucket[h][i] = x
      BY <3>1
    <3>3. i \in 1..Len(head'[m].bucket[h]) /\ head'[m].bucket[h][i] = x
      <4>1. CASE h = b
        <5>1. head[m].bucket[h] = c /\ head'[m].bucket[h] = Append(c, n)
          BY ONLY <4>1, <1>4a, <1>7
        <5>2. i \in 1..Len(c) /\ c[i] = x
          BY ONLY <5>1, <3>2
        <5>3. i \in 1..Len(Append(c, n)) /\ Append(c, n)[i] = x
          BY ONLY <1>5, <5>2, SMT
        <5> QED BY ONLY <5>1, <5>3
      <4>2. CASE h # b
        <5>1. head'[m].bucket[h] = head[m].bucket[h]
          BY <1>7, <4>2
        <5> QED BY ONLY <5>1, <3>2
      <4> QED BY <4>1, <4>2
    <3> QED BY <2>1, <3>3
  <2>4. n \in NodesOf(m)'
    <3>1. Len(c) + 1 \in 1..Len(head'[m].bucket[b]) /\ head'[m].bucket[b][Len(c) + 1] = n
      BY <1>1, <1>5, <1>7
    <3> QED BY <1>1, <2>1, <3>1
  <2>5. ASSUME NEW x \in NodesOf(m)' PROVE x \in NodesOf(m) \cup {n}
    <3>1. PICK h \in Buckets : \E i \in 1..Len(head'[m].bucket[h]) : head'[m].bucket[h][i] = x
      BY <2>1, <2>5
    <3>2. PICK i \in 1..Len(head'[m].bucket[h]) : head'[m].bucket[h][i] = x
      BY <3>1
    <3>3. CASE h # b
      BY <1>7, <2>2, <3>2, <3>3
    <3>4. CASE h = b
      <4>1. i \in 1..(Len(c) + 1) /\ Append(c, n)[i] = x
        BY <1>5, <1>7, <3>2, <3>4
      <4>2. CASE i = Len(c) + 1
        BY <1>5, <4>1, <4>2
      <4>3. CASE i # Len(c) + 1
        <5>1. i \in 1..Len(c) /\ c[i] = x
          BY <1>5, <4>1, <4>3
        <5> QED BY <1>1, <1>4a, <2>2, <5>1
      <4> QED BY <4>2, <4>3
    <3> QED BY <3>3, <3>4
  <2> QED BY <2>3, <2>4, <2>5
<1>9. \A o \in Ids \ {m} : NodesOf(o)' = NodesOf(o)
  BY <1>7, SameNodes
<1>10. /\ DOMAIN item' = DOMAIN item \cup {n}
       /\ \A x \in DOMAIN item : item'[x] = item[x]
       /\ item'[n].key = k /\ item'[n] = [key |-> item'[n].key, val |-> item'[n].val]
  BY <1>2, <1>3
<1>11. \A o \in Ids : NodesOf(o) \subseteq DOMAIN item
  BY DEF IInv, HeapIsTable
<1>12. Shape'
  <2>1. \A o \in Ids : head'[o] \in HeadType \cup {Null}
    BY <1>7 DEF IInv, Shape
  <2>2. DOMAIN item' \subseteq Nodes /\ \A x \in DOMAIN item' :
          item'[x].key \in Keys /\ item'[x] = [key |-> item'[x].key, val |-> item'[x].val]
    BY <1>3, <1>10 DEF IInv, Shape
  <2>3. res'.ret \in -1..VHASH_UPDATE_OK /\ res'.node \in Nodes \cup {Null}
    BY <1>2, <1>3 DEF VHASH_OK, VHASH_UPDATE_OK
  <2> QED BY <1>1, <1>7, <2>1, <2>2, <2>3 DEF IInv, Shape
<1>13. HeapIsTable'
  <2>1. DOMAIN item' = UNION {NodesOf(o)' : o \in Ids}
    BY <1>8, <1>9, <1>10 DEF IInv, HeapIsTable
  <2>2. \A o, p \in Ids : o # p => NodesOf(o)' \cap NodesOf(p)' = {}
    BY <1>3, <1>8, <1>9, <1>11 DEF IInv, HeapIsTable
  <2>3. ASSUME NEW o \in Ids, head'[o] # Null, NEW h \in Buckets,
               NEW i \in DOMAIN head'[o].bucket[h]
        PROVE  /\ Hash[item'[head'[o].bucket[h][i]].key] = h
               /\ \A j \in DOMAIN head'[o].bucket[h] :
                    head'[o].bucket[h][i] = head'[o].bucket[h][j] => i = j
    <3>1. DOMAIN head'[o].bucket[h] = 1..Len(head'[o].bucket[h])
      BY <1>12, <2>3 DEF Shape, HeadType
    <3>2. CASE o # m \/ h # b
      <4>1. head[o] # Null /\ head'[o].bucket[h] = head[o].bucket[h]
        BY <1>1, <1>7, <2>3, <3>2
      <4>2. head[o].bucket[h][i] \in DOMAIN item
        BY <1>11, <3>1, <4>1, PlaceHasNode DEF IInv
      <4>3. /\ Hash[item[head[o].bucket[h][i]].key] = h
            /\ \A j \in DOMAIN head[o].bucket[h] :
                 head[o].bucket[h][i] = head[o].bucket[h][j] => i = j
        BY <4>1 DEF IInv, HeapIsTable
      <4> QED BY <1>10, <4>1, <4>2, <4>3
    <3>3. CASE o = m /\ h = b
      <4>1. DOMAIN c = 1..Len(c)
        BY <1>4
      <4>2. \A j \in 1..Len(c) : c[j] \in DOMAIN item /\ Hash[item[c[j]].key] = b
        BY <1>1, <1>11, <4>1, <1>4a, PlaceHasNode DEF IInv, HeapIsTable
      <4>3. \A j, l \in 1..Len(c) : c[j] = c[l] => j = l
        BY <1>1, <1>4a, <4>1 DEF IInv, HeapIsTable
      <4>4. head'[o].bucket[h] = Append(c, n) /\ i \in 1..(Len(c) + 1)
        BY <1>1, <1>5, <1>7, <3>1, <3>3
      <4>5. Hash[item'[Append(c, n)[i]].key] = b
        BY <1>5, <1>10, <4>2, <4>4 DEF b
      <4>6. ASSUME NEW j \in 1..(Len(c) + 1), Append(c, n)[i] = Append(c, n)[j]
            PROVE  i = j
        BY <1>3, <1>5, <4>2, <4>3, <4>4, <4>6
      <4> QED BY <1>5, <3>1, <3>3, <4>4, <4>5, <4>6
    <3> QED BY <3>2, <3>3
  <2>4. res'.node \in DOMAIN item'
    BY <1>2, <1>10
  <2> QED BY <2>1, <2>2, <2>3, <2>4 DEF HeapIsTable
<1>14. KeysUnique'
  <2>1. \A x \in NodesOf(m) : item[x].key # k
    BY <1>1, SearchFinds
  <2>2. \A x, y \in NodesOf(m)' : item'[x].key = item'[y].key => x = y
    BY <1>8, <1>10, <1>11, <2>1 DEF IInv, KeysUnique
  <2>3. ASSUME NEW o \in Ids \ {m}
        PROVE  \A x, y \in NodesOf(o)' : item'[x].key = item'[y].key => x = y
    BY <1>9, <1>10, <1>11 DEF IInv, KeysUnique
  <2> QED BY <2>2, <2>3 DEF KeysUnique
<1>15. CountersAgree'
  <2>1. Cardinality(NodesOf(m)') = Cardinality(NodesOf(m)) + 1
    <3>1. NodesOf(m) \subseteq Nodes /\ IsFiniteSet(NodesOf(m)) /\ n \notin NodesOf(m)
      BY <1>3, <1>11, FS_Subset, NodesAssumption DEF IInv, Shape
    <3> QED BY <1>8, <3>1, FS_AddElement
  <2>2. head'[m].total = Cardinality(NodesOf(m)')
    BY <1>1, <1>7, <2>1 DEF IInv, CountersAgree
  <2>3. \A h \in Buckets : head'[m].sum[h] = Len(head'[m].bucket[h])
    BY <1>1, <1>4a, <1>5, <1>7 DEF IInv, CountersAgree
  <2>4. \A o \in Ids \ {m} : head'[o] # Null =>
          /\ \A h \in Buckets : head'[o].sum[h] = Len(head'[o].bucket[h])
          /\ head'[o].total = Cardinality(NodesOf(o)')
    BY <1>7, <1>9 DEF IInv, CountersAgree
  <2> QED BY <2>2, <2>3, <2>4 DEF CountersAgree
<1>16. Gains(m, k, n)
  <2>1. n \notin NodesOf(m) /\ item'[n] = [key |-> k, val |-> ZeroVal]
    BY <1>2, <1>3, <1>11
  <2>2. Gives(<<m, k>>, VHASH_OK, n, << >>)
    BY <1>2 DEF Gives
  <2> QED BY <1>7, <1>8, <1>10, <2>1, <2>2 DEF Gains
<1> QED BY <1>12, <1>13, <1>14, <1>15, <1>16 DEF IInv

\* VHash_Del_Node where the key is there.
DelFound(m, k) ==
  /\ Ready(m) /\ Hits(m, k) # {}
  /\ item' = Drop({Chain(m, k)[FirstHit(m, k)]})
  /\ head' = [head EXCEPT ![m].bucket[Hash[k]] = RemoveAt(@, FirstHit(m, k)),
                          ![m].sum[Hash[k]] = @ - 1,
                          ![m].total = @ - 1]
  /\ Answers(m, k, VHASH_OK)
  /\ UNCHANGED max

\* The node of a key leaves its chain and is freed.
LEMMA DelKeeps ==
  ASSUME IInv, NEW m \in Ids, NEW k \in Keys, DelFound(m, k)
  PROVE  IInv' /\ Loses(m, Chain(m, k)[FirstHit(m, k)])
<1> DEFINE b == Hash[k]
           c == head[m].bucket[b]
           f == FirstHit(m, k)
           n == c[f]
           short == RemoveAt(c, f)
<1>1. /\ b \in Buckets /\ head[m] # Null /\ head[m] \in HeadType
      /\ c \in Seq(Nodes) /\ head[m].sum[b] \in Nat /\ head[m].total \in Nat
  BY BucketsAssumption DEF DelFound, Ready, HasTable, IInv, Shape, HeadType
<1>2. f \in 1..Len(c) /\ n \in NodesOf(m) /\ item[n].key = k
  BY SearchFinds DEF DelFound, Chain
<1>3. /\ item' = Drop({n})
      /\ head' = [head EXCEPT ![m].bucket[b] = RemoveAt(@, f),
                              ![m].sum[b] = @ - 1, ![m].total = @ - 1]
      /\ c = head[m].bucket[b] /\ n = c[f]
      /\ max' = max /\ res'.ret \in -1..VHASH_UPDATE_OK /\ res'.node = Null
  BY DEF DelFound, Chain, Answers, Gives, VHASH_OK, VHASH_UPDATE_OK
<1> HIDE DEF b, c, f, n
<1>4. /\ short \in Seq(Nodes) /\ Len(short) = Len(c) - 1 /\ Len(c) \in Nat
      /\ \A j \in 1..(Len(c) - 1) : short[j] = IF j < f THEN c[j] ELSE c[j + 1]
      /\ f \in Nat /\ f >= 1 /\ f <= Len(c)
  <2>1. /\ short \in Seq(Nodes) /\ Len(short) = Len(c) - 1
        /\ \A j \in 1..(Len(c) - 1) : short[j] = IF j < f THEN c[j] ELSE c[j + 1]
    BY ONLY <1>1, <1>2, RemoveAtProperties, Zenon
  <2>2. Len(c) \in Nat /\ f \in Nat /\ f >= 1 /\ f <= Len(c)
    BY <1>1, <1>2
  <2> QED BY <2>1, <2>2
<1>5. head' = Rechained(m, b, short, head[m].sum[b] - 1, head[m].total - 1)
  BY <1>1, <1>3 DEF IInv, Shape, HeadType, Rechained
<1> HIDE DEF short
<1>6. /\ NodesOf(m) \subseteq DOMAIN item /\ NodesOf(m) \subseteq Nodes
      /\ \A o \in Ids : NodesOf(o) \subseteq DOMAIN item
  BY DEF IInv, HeapIsTable, Shape
<1>7. /\ IsFiniteSet(NodesOf(m)) /\ Cardinality(NodesOf(m)) \in Nat
      /\ Cardinality(NodesOf(m) \ {n}) = Cardinality(NodesOf(m)) - 1
      /\ Cardinality(NodesOf(m) \ {n}) \in Nat
  <2>1. IsFiniteSet(NodesOf(m))
    BY <1>6, FS_Subset, NodesAssumption
  <2> QED BY <1>2, <2>1, FS_RemoveElement, FS_CardinalityType
<1>8. /\ head[m].sum[b] = Len(c) /\ head[m].total = Cardinality(NodesOf(m))
      /\ head[m].sum[b] - 1 \in Nat /\ head[m].total - 1 \in Nat
  BY <1>1, <1>3, <1>4, <1>7 DEF IInv, CountersAgree
<1>9. /\ DOMAIN head' = Ids
      /\ head'[m] \in HeadType /\ head'[m] # Null
      /\ head'[m].total = head[m].total - 1
      /\ head'[m].bucket[b] = short /\ head'[m].sum[b] = head[m].sum[b] - 1
      /\ \A h \in Buckets \ {b} :
           head'[m].bucket[h] = head[m].bucket[h] /\ head'[m].sum[h] = head[m].sum[h]
      /\ \A o \in Ids \ {m} : head'[o] = head[o]
  <2>1. Shape
    BY DEF IInv
  <2>2. head[m] # Null /\ b \in Buckets /\ short \in Seq(Nodes)
    BY <1>1, <1>4
  <2>3. head[m].sum[b] - 1 \in Nat /\ head[m].total - 1 \in Nat
    BY <1>8
  <2>4. HeadChange(m, b, short, head[m].sum[b] - 1, head[m].total - 1)
    BY ONLY <1>5, <2>1, <2>2, <2>3, HeadChanges, Zenon
  <2> QED BY ONLY <2>4 DEF HeadChange
<1>10. DOMAIN c = 1..Len(c) /\ \A i, j \in 1..Len(c) : c[i] = c[j] => i = j
  <2>1. DOMAIN c = 1..Len(c)
    BY <1>1
  <2> QED BY <1>1, <1>3, <2>1 DEF IInv, HeapIsTable
<1>11. \A j \in 1..(Len(c) - 1) : \E i \in 1..Len(c) : i # f /\ short[j] = c[i]
  <2> SUFFICES ASSUME NEW j \in 1..(Len(c) - 1)
               PROVE  \E i \in 1..Len(c) : i # f /\ short[j] = c[i]
    OBVIOUS
  <2>1. CASE j < f
    <3>1. j \in 1..Len(c) /\ j # f /\ short[j] = c[j]
      BY <1>4, <2>1
    <3> QED BY <3>1
  <2>2. CASE ~(j < f)
    <3>1. j + 1 \in 1..Len(c) /\ j + 1 # f /\ short[j] = c[j + 1]
      BY <1>4, <2>2
    <3> QED BY <3>1
  <2> QED BY <2>1, <2>2
<1>12. \A i \in 1..Len(c) : i # f => \E j \in 1..(Len(c) - 1) : short[j] = c[i]
  <2> SUFFICES ASSUME NEW i \in 1..Len(c), i # f
               PROVE  \E j \in 1..(Len(c) - 1) : short[j] = c[i]
    OBVIOUS
  <2>1. CASE i < f
    <3>1. i \in 1..(Len(c) - 1) /\ short[i] = c[i]
      BY <1>4, <2>1
    <3> QED BY <3>1
  <2>2. CASE i > f
    <3>1. i - 1 \in 1..(Len(c) - 1) /\ ~(i - 1 < f) /\ (i - 1) + 1 = i
      BY <1>4, <2>2
    <3>2. short[i - 1] = c[i]
      BY <1>4, <3>1
    <3> QED BY <3>1, <3>2
  <2>3. i < f \/ i > f
    BY <1>4
  <2> QED BY <2>1, <2>2, <2>3
<1>13. \A i, j \in 1..(Len(c) - 1) : short[i] = short[j] => i = j
  <2> SUFFICES ASSUME NEW i \in 1..(Len(c) - 1), NEW j \in 1..(Len(c) - 1), short[i] = short[j]
               PROVE  i = j
    OBVIOUS
  <2>1. /\ i \in 1..Len(c) /\ i + 1 \in 1..Len(c) /\ j \in 1..Len(c) /\ j + 1 \in 1..Len(c)
        /\ i \in Nat /\ j \in Nat
    BY <1>4
  <2>2. CASE i < f /\ j < f
    BY <1>4, <1>10, <2>1, <2>2
  <2>3. CASE ~(i < f) /\ ~(j < f)
    <3>1. c[i + 1] = c[j + 1]
      BY <1>4, <2>3
    <3>2. i + 1 = j + 1
      BY <1>10, <2>1, <3>1
    <3> QED BY <2>1, <3>2
  <2>4. CASE i < f /\ ~(j < f)
    <3>1. c[i] = c[j + 1]
      BY <1>4, <2>4
    <3>2. i = j + 1
      BY <1>10, <2>1, <3>1
    <3> QED BY <1>4, <2>1, <2>4, <3>2
  <2>5. CASE ~(i < f) /\ j < f
    <3>1. c[i + 1] = c[j]
      BY <1>4, <2>5
    <3>2. i + 1 = j
      BY <1>10, <2>1, <3>1
    <3> QED BY <1>4, <2>1, <2>5, <3>2
  <2> QED BY <2>2, <2>3, <2>4, <2>5
<1>14. NodesOf(m)' = NodesOf(m) \ {n}
  <2>1. \A x : x \in NodesOf(m)' <=>
           \E h \in Buckets : \E i \in 1..Len(head'[m].bucket[h]) : head'[m].bucket[h][i] = x
    BY <1>9, ChainedNodes DEF NodesOf
  <2>2. \A x : x \in NodesOf(m) <=>
           \E h \in Buckets : \E i \in 1..Len(head[m].bucket[h]) : head[m].bucket[h][i] = x
    BY <1>1, NodesAreChained DEF IInv
  <2>3. ASSUME NEW x \in NodesOf(m), x # n PROVE x \in NodesOf(m)'
    <3>1. PICK h \in Buckets : \E i \in 1..Len(head[m].bucket[h]) : head[m].bucket[h][i] = x
      BY <2>2, <2>3
    <3>2. PICK i \in 1..Len(head[m].bucket[h]) : head[m].bucket[h][i] = x
      BY <3>1
    <3>3. CASE h # b
      <4>1. i \in 1..Len(head'[m].bucket[h]) /\ head'[m].bucket[h][i] = x
        BY <1>9, <3>2, <3>3
      <4> QED BY <2>1, <4>1
    <3>4. CASE h = b
      <4>1. i \in 1..Len(c) /\ c[i] = x /\ i # f
        BY <1>3, <2>3, <3>2, <3>4
      <4>2. PICK j \in 1..(Len(c) - 1) : short[j] = c[i]
        BY <1>12, <4>1
      <4>3. j \in 1..Len(head'[m].bucket[b]) /\ head'[m].bucket[b][j] = x
        BY <1>4, <1>9, <4>1, <4>2
      <4> QED BY <1>1, <2>1, <4>3
    <3> QED BY <3>3, <3>4
  <2>4. ASSUME NEW x \in NodesOf(m)' PROVE x \in NodesOf(m) /\ x # n
    <3>1. PICK h \in Buckets : \E i \in 1..Len(head'[m].bucket[h]) : head'[m].bucket[h][i] = x
      BY <2>1, <2>4
    <3>2. PICK i \in 1..Len(head'[m].bucket[h]) : head'[m].bucket[h][i] = x
      BY <3>1
    <3>3. CASE h # b
      <4>1. i \in 1..Len(head[m].bucket[h]) /\ head[m].bucket[h][i] = x
        BY <1>9, <3>2, <3>3
      <4>2. x \in NodesOf(m)
        BY <2>2, <4>1
      <4>3. Hash[item[x].key] = h
        <5>1. DOMAIN head[m].bucket[h] = 1..Len(head[m].bucket[h])
          BY <1>1 DEF HeadType
        <5> QED BY <1>1, <4>1, <5>1 DEF IInv, HeapIsTable
      <4>4. x # n
        BY <1>2, <3>3, <4>3 DEF b
      <4> QED BY <4>2, <4>4
    <3>4. CASE h = b
      <4>1. i \in 1..(Len(c) - 1) /\ short[i] = x
        BY <1>4, <1>9, <3>2, <3>4
      <4>2. PICK j \in 1..Len(c) : j # f /\ short[i] = c[j]
        BY <1>11, <4>1
      <4>3. c[j] # n
        BY <1>2, <1>3, <1>10, <4>2
      <4>4. c[j] \in NodesOf(m)
        BY <1>1, <1>3, <2>2, <4>2
      <4> QED BY <4>1, <4>2, <4>3, <4>4
    <3> QED BY <3>3, <3>4
  <2> QED BY <2>3, <2>4
<1>15. \A o \in Ids \ {m} : NodesOf(o)' = NodesOf(o)
  BY <1>9, SameNodes
<1>16. DOMAIN item' = DOMAIN item \ {n} /\ \A x \in DOMAIN item' : item'[x] = item[x]
  BY <1>3 DEF Drop
<1>17. \A o \in Ids \ {m} : n \notin NodesOf(o)
  BY <1>2 DEF IInv, HeapIsTable
<1>18. Shape'
  <2>1. \A o \in Ids : head'[o] \in HeadType \cup {Null}
    BY <1>9 DEF IInv, Shape
  <2>2. DOMAIN item' \subseteq Nodes /\ \A x \in DOMAIN item' :
          item'[x].key \in Keys /\ item'[x] = [key |-> item'[x].key, val |-> item'[x].val]
    BY <1>16 DEF IInv, Shape
  <2> QED BY <1>3, <1>9, <2>1, <2>2 DEF IInv, Shape
<1>19. HeapIsTable'
  <2>1. DOMAIN item' = UNION {NodesOf(o)' : o \in Ids}
    <3>1. \A o \in Ids : NodesOf(o)' = NodesOf(o) \ {n}
      BY <1>14, <1>15, <1>17
    <3>2. DOMAIN item = UNION {NodesOf(o) : o \in Ids}
      BY DEF IInv, HeapIsTable
    <3> QED BY <1>16, <3>1, <3>2
  <2>2. \A o, p \in Ids : o # p => NodesOf(o)' \cap NodesOf(p)' = {}
    BY <1>14, <1>15 DEF IInv, HeapIsTable
  <2>3. ASSUME NEW o \in Ids, head'[o] # Null, NEW h \in Buckets,
               NEW i \in DOMAIN head'[o].bucket[h]
        PROVE  /\ Hash[item'[head'[o].bucket[h][i]].key] = h
               /\ \A j \in DOMAIN head'[o].bucket[h] :
                    head'[o].bucket[h][i] = head'[o].bucket[h][j] => i = j
    <3>1. DOMAIN head'[o].bucket[h] = 1..Len(head'[o].bucket[h])
      BY <1>18, <2>3 DEF Shape, HeadType
    <3>2. head'[o].bucket[h][i] \in NodesOf(o)'
      <4>1. head'[o] \in HeadType
        BY <1>18, <2>3 DEF Shape
      <4> QED BY <2>3, <3>1, <4>1, ChainedNodes DEF NodesOf
    <3>3. head'[o].bucket[h][i] \in DOMAIN item'
      BY <2>1, <3>2
    <3>4. CASE o # m \/ h # b
      <4>1. head[o] # Null /\ head'[o].bucket[h] = head[o].bucket[h]
        BY <1>1, <1>9, <2>3, <3>4
      <4>2. /\ Hash[item[head[o].bucket[h][i]].key] = h
            /\ \A j \in DOMAIN head[o].bucket[h] :
                 head[o].bucket[h][i] = head[o].bucket[h][j] => i = j
        BY <4>1 DEF IInv, HeapIsTable
      <4> QED BY <1>16, <3>3, <4>1, <4>2
    <3>5. CASE o = m /\ h = b
      <4>1. head'[o].bucket[h] = short /\ i \in 1..(Len(c) - 1)
        BY <1>4, <1>9, <3>1, <3>5
      <4>2. PICK j \in 1..Len(c) : short[i] = c[j]
        BY <1>11, <4>1
      <4>3. Hash[item[c[j]].key] = b
        BY <1>1, <1>3, <1>10 DEF IInv, HeapIsTable
      <4>4. Hash[item'[short[i]].key] = b
        BY <1>16, <3>3, <4>1, <4>2, <4>3
      <4>5. DOMAIN short = 1..(Len(c) - 1)
        BY <1>4
      <4> QED BY <1>13, <3>5, <4>1, <4>4, <4>5
    <3> QED BY <3>4, <3>5
  <2>4. res'.node # Null => res'.node \in DOMAIN item'
    BY <1>3
  <2> QED BY <2>1, <2>2, <2>3, <2>4 DEF HeapIsTable
<1>20. KeysUnique'
  <2>1. \A o \in Ids : NodesOf(o)' \subseteq NodesOf(o) /\ NodesOf(o)' \subseteq DOMAIN item'
    BY <1>14, <1>15, <1>19 DEF HeapIsTable
  <2> QED BY <1>16, <2>1 DEF IInv, KeysUnique
<1>21. CountersAgree'
  <2>1. head'[m].total = Cardinality(NodesOf(m)')
    BY <1>7, <1>8, <1>9, <1>14
  <2>2. \A h \in Buckets : head'[m].sum[h] = Len(head'[m].bucket[h])
    BY <1>1, <1>4, <1>8, <1>9 DEF IInv, CountersAgree
  <2>3. \A o \in Ids \ {m} : head'[o] # Null =>
          /\ \A h \in Buckets : head'[o].sum[h] = Len(head'[o].bucket[h])
          /\ head'[o].total = Cardinality(NodesOf(o)')
    BY <1>9, <1>15 DEF IInv, CountersAgree
  <2> QED BY <2>1, <2>2, <2>3 DEF CountersAgree
<1>22. Loses(m, n)
  BY <1>2, <1>9, <1>14, <1>16 DEF Loses
<1>23. n = Chain(m, k)[FirstHit(m, k)]
  BY DEF n, c, b, f, Chain
<1> QED BY <1>18, <1>19, <1>20, <1>21, <1>22, <1>23 DEF IInv

\* A set of natural numbers that is not empty has a least element.
LEMMA LeastOfNats ==
  ASSUME NEW ns \in SUBSET Nat, ns # {}
  PROVE  \E x \in ns : \A y \in ns : x <= y
<1>1. \E x \in ns : \A y \in ns : ~(<<y, x>> \in OpToRel(<, Nat))
  BY WFMin, NatLessThanWellFounded, Zenon
<1>2. \E x \in ns : \A y \in ns : ~(y < x)
  BY <1>1 DEF OpToRel
<1> QED BY <1>2

\* An enumeration gives a node of the module, or ends.
LEMMA NextIsNode ==
  ASSUME IInv, NEW m \in Ids, Ready(m), NEW prev \in NodesOf(m) \cup {Null}
  PROVE  NextOf(m, prev) \in NodesOf(m) \cup {Null}
<1> DEFINE home == Hash[item[prev].key]
           place == CHOOSE i \in DOMAIN head[m].bucket[home] : head[m].bucket[home][i] = prev
           from == IF prev = Null THEN 0 ELSE home + 1
           rest == {h \in Buckets : h >= from /\ head[m].bucket[h] # << >>}
           low == CHOOSE h \in rest : \A g \in rest : h <= g
<1>1. head[m] # Null /\ Shape /\ head[m] \in HeadType
  BY DEF Ready, HasTable, IInv, Shape
<1>2. CASE prev # Null /\ place < Len(head[m].bucket[home])
  <2>1. prev \in NodesOf(m)
    BY <1>2
  <2>2. home \in Buckets /\ \E i \in 1..Len(head[m].bucket[home]) : head[m].bucket[home][i] = prev
    BY <1>1, <2>1, NodeHasPlace DEF Chain
  <2>3. DOMAIN head[m].bucket[home] = 1..Len(head[m].bucket[home]) /\ Len(head[m].bucket[home]) \in Nat
    BY <1>1, <2>2 DEF HeadType
  <2>4. place \in 1..Len(head[m].bucket[home])
    <3>1. \E i \in DOMAIN head[m].bucket[home] : head[m].bucket[home][i] = prev
      BY <2>2, <2>3
    <3>2. place \in DOMAIN head[m].bucket[home]
      BY <3>1, Zenon
    <3> QED BY <2>3, <3>2
  <2>5. NextOf(m, prev) = head[m].bucket[home][place + 1]
    BY <1>2 DEF NextOf
  <2> HIDE DEF home, place
  <2>6. place + 1 \in 1..Len(head[m].bucket[home])
    BY <1>2, <2>3, <2>4
  <2> QED BY <1>1, <2>2, <2>5, <2>6, PlaceHasNode
<1>3. CASE ~(prev # Null /\ place < Len(head[m].bucket[home])) /\ rest = {}
  BY <1>3 DEF NextOf
<1>4. CASE ~(prev # Null /\ place < Len(head[m].bucket[home])) /\ rest # {}
  <2>1. NextOf(m, prev) = Head(head[m].bucket[low])
    BY <1>4 DEF NextOf
  <2>2. rest \in SUBSET Nat
    BY BucketsAssumption DEF Buckets
  <2>3. \E h \in rest : \A g \in rest : h <= g
    BY <1>4, <2>2, LeastOfNats
  <2>4. low \in rest
    BY <2>3
  <2>5. low \in Buckets /\ head[m].bucket[low] # << >>
    BY <2>4
  <2> HIDE DEF low
  <2>6. head[m].bucket[low] \in Seq(Nodes)
    BY <1>1, <2>5 DEF HeadType
  <2>7. 1 \in 1..Len(head[m].bucket[low]) /\ Head(head[m].bucket[low]) = head[m].bucket[low][1]
    BY <2>5, <2>6, EmptySeq
  <2> QED BY <1>1, <2>1, <2>5, <2>7, PlaceHasNode
<1> QED BY <1>2, <1>3, <1>4

-----------------------------------------------------------------------------
(***************************************************************************)
(* The invariant.                                                          *)
(***************************************************************************)
LEMMA Begins == Init => IInv
<1> SUFFICES ASSUME Init PROVE IInv
  OBVIOUS
<1>1. Shape
  BY DEF Init, Shape, VHASH_OK, VHASH_UPDATE_OK
<1>2. \A m \in Ids : head[m] = Null /\ NodesOf(m) = {}
  BY DEF Init, NodesOf
<1>3. DOMAIN item = {}
  BY DEF Init
<1>4. HeapIsTable
  BY <1>2, <1>3 DEF Init, HeapIsTable
<1>5. KeysUnique /\ CountersAgree
  BY <1>2 DEF KeysUnique, CountersAgree
<1> QED BY <1>1, <1>4, <1>5 DEF IInv

\* Every call on a table keeps the invariant.
LEMMA CallKeeps ==
  ASSUME IInv, NEW m \in Ids, Call(m)
  PROVE  IInv'
<1>0. /\ max \in {0, ModuleMax} /\ -1..VHASH_UPDATE_OK = -1..6
      /\ NodesOf(m) \subseteq DOMAIN item
  BY DEF IInv, Shape, HeapIsTable, VHASH_UPDATE_OK
<1>1. ASSUME NEW complete \in BOOLEAN, VHash_Create_Moudle(m, complete) PROVE IInv'
  <2>1. CASE UNCHANGED head
    BY <1>0, <1>1, <2>1, ReportKeeps
       DEF VHash_Create_Moudle, Returns, Gives, VHASH_OK, VHASH_ERR, VHASH_NOT_INNIF
  <2>2. CASE ~(UNCHANGED head)
    <3>1. /\ head[m] = Null /\ head' = [head EXCEPT ![m] = NewHead(complete)]
          /\ max' = max /\ item' = item
          /\ res'.ret \in -1..VHASH_UPDATE_OK /\ res'.node = Null
      BY <1>1, <2>2 DEF VHash_Create_Moudle, HasTable, Returns, Gives, VHASH_OK, VHASH_UPDATE_OK
    <3>2. NodesOf(m) = {}
      BY <3>1 DEF NodesOf
    <3>3. DOMAIN item' = DOMAIN item \ NodesOf(m) /\ \A n \in DOMAIN item' : item'[n] = item[n]
      BY <3>1, <3>2
    <3> QED BY <1>0, <3>1, <3>3, ResetKeeps
  <2> QED BY <2>1, <2>2
<1>2. CASE Refuse(m) \/ RefuseIncomplete(m)
  BY <1>0, <1>2, ReportKeeps
     DEF Refuse, RefuseIncomplete, Returns, Gives, VHASH_ERR, VHASH_INTERFACE_ERR
<1>3. CASE VHash_Destory_Moudle(m)
  <2>1. /\ head' = [head EXCEPT ![m] = Null] /\ max' = max
        /\ res'.ret \in -1..VHASH_UPDATE_OK /\ res'.node = Null
        /\ DOMAIN item' = DOMAIN item \ NodesOf(m) /\ \A n \in DOMAIN item' : item'[n] = item[n]
    BY <1>3 DEF VHash_Destory_Moudle, Returns, Gives, Drop, VHASH_OK, VHASH_UPDATE_OK
  <2> QED BY <1>0, <2>1, ResetKeeps
<1>4. CASE VHash_Clean_Moudle(m)
  <2>1. /\ head' = [head EXCEPT ![m] = NewHead(head[m].complete)] /\ max' = max
        /\ res'.ret \in -1..VHASH_UPDATE_OK /\ res'.node = Null
        /\ DOMAIN item' = DOMAIN item \ NodesOf(m) /\ \A n \in DOMAIN item' : item'[n] = item[n]
    BY <1>4 DEF VHash_Clean_Moudle, Returns, Gives, Drop, VHASH_OK, VHASH_UPDATE_OK, IInv, Shape
  <2>2. head[m].complete \in BOOLEAN
    BY <1>4 DEF VHash_Clean_Moudle, HasTable, IInv, Shape, HeadType
  <2> QED BY <1>0, <2>1, <2>2, ResetKeeps
<1>5. ASSUME NEW k \in Keys, VHash_Get_Node(m, k) PROVE IInv'
  <2>1. res'.ret \in -1..6 /\ res'.node \in DOMAIN item \cup {Null}
    <3>1. CASE Hits(m, k) # {}
      BY <1>0, <1>5, <3>1, SearchFinds DEF VHash_Get_Node, Gives, VHASH_OK
    <3>2. CASE Hits(m, k) = {}
      BY <1>5, <3>2 DEF VHash_Get_Node, Answers, Gives, VHASH_NOT_FOUND
    <3> QED BY <3>1, <3>2
  <2> QED BY <1>0, <1>5, <2>1, ReportKeeps DEF VHash_Get_Node
<1>6. ASSUME NEW k \in Keys, AddFound(m, k) PROVE IInv'
  <2>1. Chain(m, k)[FirstHit(m, k)] \in NodesOf(m)
    BY <1>6, SearchFinds DEF AddFound
  <2>2. CopyAnswers[m] \subseteq {0, 1}
    BY AnswersAssumption DEF VHASH_OK, VHASH_ERR
  <2>3. res'.ret \in -1..6 /\ res'.node \in DOMAIN item \cup {Null}
    <3>1. ASSUME NEW c \in CopyAnswers[m],
                 IF c = VHASH_OK
                 THEN Gives(<<m, k>>, VHASH_UPDATE_OK, Chain(m, k)[FirstHit(m, k)], << >>)
                 ELSE Answers(m, k, c)
          PROVE  res'.ret \in -1..6 /\ res'.node \in DOMAIN item \cup {Null}
      <4>1. c \in {0, 1}
        BY <2>2
      <4> QED BY <1>0, <2>1, <3>1, <4>1 DEF Answers, Gives, VHASH_OK, VHASH_UPDATE_OK
    <3>2. CASE Answers(m, k, VHASH_EXIST)
      BY <3>2 DEF Answers, Gives, VHASH_EXIST
    <3> QED BY <1>6, <3>1, <3>2 DEF AddFound
  <2> QED BY <1>0, <1>6, <2>3, ReportKeeps DEF AddFound
<1>7. ASSUME NEW k \in Keys, AddNew(m, k) PROVE IInv'
  BY <1>7, AddKeeps
<1>8. ASSUME NEW k \in Keys, AddFails(m, k) PROVE IInv'
  <2>1. CopyAnswers[m] \subseteq {0, 1}
    BY AnswersAssumption DEF VHASH_OK, VHASH_ERR
  <2>2. res'.ret \in -1..6 /\ res'.node = Null
    BY <1>8, <2>1 DEF AddFails, Answers, Gives, VHASH_NOT_INNIF
  <2> QED BY <1>0, <1>8, <2>2, ReportKeeps DEF AddFails
<1>9. ASSUME NEW k \in Keys, VHash_Del_Node(m, k) PROVE IInv'
  <2>1. CASE Hits(m, k) # {}
    <3>1. DelFound(m, k)
      BY <1>9, <2>1 DEF VHash_Del_Node, DelFound
    <3> QED BY <3>1, DelKeeps
  <2>2. CASE Hits(m, k) = {}
    BY <1>0, <1>9, <2>2, ReportKeeps DEF VHash_Del_Node, Answers, Gives, VHASH_NOT_FOUND
  <2> QED BY <2>1, <2>2
<1>10. ASSUME NEW prev \in Nodes \cup {Null}, VHash_Get_NextNode(m, prev) PROVE IInv'
  <2>1. NextOf(m, prev) \in NodesOf(m) \cup {Null}
    BY <1>10, NextIsNode DEF VHash_Get_NextNode
  <2>2. res'.ret = 0 /\ res'.node = NextOf(m, prev)
    BY <1>10 DEF VHash_Get_NextNode, Gives, VHASH_OK
  <2> QED BY <1>0, <1>10, <2>1, <2>2, ReportKeeps DEF VHash_Get_NextNode
<1>11. CASE VHash_Node_Stat(m) \/ VHash_Node_Total(m)
  BY <1>0, <1>11, ReportKeeps DEF VHash_Node_Stat, VHash_Node_Total, Gives, VHASH_OK
<1> QED BY <1>1, <1>2, <1>3, <1>4, <1>5, <1>6, <1>7, <1>8, <1>9, <1>10, <1>11
        DEF Call, VHash_Add_Node2

\* Every step does.
LEMMA StepKeeps == IInv /\ [Next]_vars => IInv'
<1> SUFFICES ASSUME IInv, [Next]_vars PROVE IInv'
  OBVIOUS
<1>1. CASE VHash_Init
  <2>1. /\ UNCHANGED <<head, item>> /\ max' \in {0, ModuleMax}
        /\ res'.ret \in -1..VHASH_UPDATE_OK /\ res'.node = Null
    BY <1>1 DEF VHash_Init, Returns, Gives, VHASH_OK, VHASH_UPDATE_OK
  <2> QED BY <2>1, ReportKeeps
<1>2. ASSUME NEW m \in Ids, Call(m) PROVE IInv'
  BY <1>2, CallKeeps
<1>3. ASSUME NEW v \in Vals, Store(v) PROVE IInv'
  <2>1. res.node \in DOMAIN item
    BY <1>3 DEF Store, IInv, HeapIsTable
  <2> QED BY <1>3, <2>1, StoreKeeps DEF Store
<1>4. CASE UNCHANGED vars
  BY <1>4, ReportKeeps DEF vars, IInv, Shape, HeapIsTable
<1> QED BY <1>1, <1>2, <1>3, <1>4 DEF Next

\* What the callers store stays data of theirs.
LEMMA StepTyped == IInv /\ Typed /\ [Next]_vars => Typed'
<1> SUFFICES ASSUME IInv, Typed, [Next]_vars PROVE Typed'
  OBVIOUS
<1>1. CASE UNCHANGED item
  BY <1>1 DEF Typed
<1>2. ASSUME NEW nodes, item' = Drop(nodes) PROVE Typed'
  BY <1>2 DEF Typed, Drop
<1>3. ASSUME NEW m \in Ids, NEW k \in Keys, AddNew(m, k) PROVE Typed'
  <2>1. PICK n \in Free : item' = [x \in DOMAIN item \cup {n} |->
                                     IF x = n THEN [key |-> k, val |-> ZeroVal] ELSE item[x]]
    BY <1>3 DEF AddNew
  <2> QED BY <2>1, ValsAssumption DEF Typed
<1>4. ASSUME NEW v \in Vals, Store(v) PROVE Typed'
  <2>1. res.node \in DOMAIN item /\ item' = [item EXCEPT ![res.node].val = v]
    BY <1>4 DEF Store, IInv, HeapIsTable
  <2>2. item[res.node] = [key |-> item[res.node].key, val |-> item[res.node].val]
    BY <2>1 DEF IInv, Shape
  <2>3. item'[res.node].val = v /\ DOMAIN item' = DOMAIN item
    BY <2>1, <2>2
  <2>4. \A n \in DOMAIN item : n # res.node => item'[n] = item[n]
    BY <2>1
  <2> QED BY <2>3, <2>4 DEF Typed
<1>5. CASE VHash_Init \/ UNCHANGED vars
  BY <1>1, <1>5 DEF VHash_Init, vars
<1>6. ASSUME NEW m \in Ids, Call(m) PROVE Typed'
  <2>1. ASSUME NEW complete, VHash_Create_Moudle(m, complete) PROVE Typed'
    BY <1>1, <2>1 DEF VHash_Create_Moudle
  <2>2. ASSUME NEW prev, VHash_Get_NextNode(m, prev) PROVE Typed'
    BY <1>1, <2>2 DEF VHash_Get_NextNode
  <2>3. CASE \/ Refuse(m) \/ RefuseIncomplete(m) \/ VHash_Node_Stat(m) \/ VHash_Node_Total(m)
    BY <1>1, <2>3 DEF Refuse, RefuseIncomplete, VHash_Node_Stat, VHash_Node_Total
  <2>4. CASE VHash_Destory_Moudle(m) \/ VHash_Clean_Moudle(m)
    BY <1>2, <2>4 DEF VHash_Destory_Moudle, VHash_Clean_Moudle
  <2>5. ASSUME NEW k \in Keys, VHash_Get_Node(m, k) \/ AddFound(m, k) \/ AddFails(m, k)
        PROVE  Typed'
    BY <1>1, <2>5 DEF VHash_Get_Node, AddFound, AddFails
  <2>6. ASSUME NEW k \in Keys, VHash_Del_Node(m, k) PROVE Typed'
    BY <1>1, <1>2, <2>6 DEF VHash_Del_Node
  <2> QED BY <1>3, <1>6, <2>1, <2>2, <2>3, <2>4, <2>5, <2>6 DEF Call, VHash_Add_Node2
<1> QED BY <1>3, <1>4, <1>5, <1>6 DEF Next

\* After any calls of vhash.c, whatever malloc and the callbacks answer, the
\* four parts of the invariant hold together: none is inductive alone.
THEOREM TableInvariant == Spec => []IInv
BY Begins, StepKeeps, PTL DEF Spec

\* What the variables hold.
THEOREM TypeCorrect == Spec => []TypeOK
<1>1. Init => Typed
  BY DEF Init, Typed
<1>2. IInv /\ Typed => TypeOK
  BY Types DEF IInv
<1> QED BY <1>1, <1>2, StepTyped, TableInvariant, PTL DEF Spec

\* Nothing leaks and nothing dangles: an allocated node is in one chain of one
\* module, once, the chain its key hashes to; a node in a chain is allocated,
\* and so is the node the latest call gave.
THEOREM HeapCorrect == Spec => []HeapIsTable
<1>1. IInv => HeapIsTable
  BY DEF IInv
<1> QED BY <1>1, TableInvariant, PTL

\* A module never has two nodes for one key.
THEOREM KeysCorrect == Spec => []KeysUnique
<1>1. IInv => KeysUnique
  BY DEF IInv
<1> QED BY <1>1, TableInvariant, PTL

\* ulDataNodeSum and uiTotal count the nodes.
THEOREM CountersCorrect == Spec => []CountersAgree
<1>1. IInv => CountersAgree
  BY DEF IInv
<1> QED BY <1>1, TableInvariant, PTL

-----------------------------------------------------------------------------
(***************************************************************************)
(* What a set of nodes stands for, with the contents of the heap.          *)
(***************************************************************************)
Table(nodes, heap) ==
  [k \in {heap[n].key : n \in nodes} |-> heap[CHOOSE n \in nodes : heap[n].key = k].val]
OneEach(nodes, heap) ==
  \A n, o \in nodes : heap[n].key = heap[o].key => n = o

\* The map that the refinement mapping takes from the chains and the heap.
LEMMA ContentsIsTable ==
  ASSUME NEW m \in Ids
  PROVE  Contents(m) = Table(NodesOf(m), item) /\ Contents(m)' = Table(NodesOf(m)', item')
BY DEF Contents, NodeOf, Table

\* t is a function with the key of each node, and its value.
Holds(t, nodes, heap) ==
  /\ t = [k \in DOMAIN t |-> t[k]]
  /\ DOMAIN t = {heap[n].key : n \in nodes}
  /\ \A n \in nodes : t[heap[n].key] = heap[n].val

\* Nodes with a key each make a map that holds just these keys.
LEMMA TableEntries ==
  ASSUME NEW nodes, NEW heap, OneEach(nodes, heap)
  PROVE  Holds(Table(nodes, heap), nodes, heap)
<1>1. /\ DOMAIN Table(nodes, heap) = {heap[n].key : n \in nodes}
      /\ Table(nodes, heap) = [k \in DOMAIN Table(nodes, heap) |-> Table(nodes, heap)[k]]
  BY DEF Table
<1>2. ASSUME NEW n \in nodes
      PROVE  Table(nodes, heap)[heap[n].key] = heap[n].val
  <2> DEFINE x == CHOOSE o \in nodes : heap[o].key = heap[n].key
  <2>1. Table(nodes, heap)[heap[n].key] = heap[x].val
    BY DEF Table
  <2>2. x \in nodes /\ heap[x].key = heap[n].key
    OBVIOUS
  <2> QED BY <2>1, <2>2 DEF OneEach
<1> QED BY <1>1, <1>2 DEF Holds

\* Functions are what they give.
LEMMA SameFunction ==
  ASSUME NEW S, NEW f, NEW g,
         f = [x \in S |-> f[x]], g = [x \in S |-> g[x]], \A x \in S : f[x] = g[x]
  PROVE  f = g
OBVIOUS

\* Only the nodes' own contents matter.
LEMMA TableOfSame ==
  ASSUME NEW nodes, NEW heap, NEW heap2, OneEach(nodes, heap),
         \A n \in nodes : heap2[n] = heap[n]
  PROVE  Table(nodes, heap2) = Table(nodes, heap)
<1>1. OneEach(nodes, heap2)
  BY DEF OneEach
<1> DEFINE t == Table(nodes, heap)
           u == Table(nodes, heap2)
<1>2. Holds(t, nodes, heap)
  BY TableEntries
<1>3. Holds(u, nodes, heap2)
  BY <1>1, TableEntries
<1> HIDE DEF t, u
<1>4. DOMAIN t = DOMAIN u /\ \A k \in DOMAIN t : t[k] = u[k]
  BY <1>2, <1>3 DEF Holds
<1>5. t = u
  BY <1>2, <1>3, <1>4, SameFunction DEF Holds
<1> QED BY <1>5 DEF t, u

\* A partial function with an entry more, and with one less.
With(t, key, val) == [k \in DOMAIN t \cup {key} |-> IF k = key THEN val ELSE t[k]]
Without(t, key) == [k \in DOMAIN t \ {key} |-> t[k]]

\* A node more is an entry more.
LEMMA TableWithNode ==
  ASSUME NEW nodes, NEW heap, NEW heap2, NEW n, OneEach(nodes, heap),
         n \notin nodes, \A o \in nodes : heap2[o] = heap[o] /\ heap[o].key # heap2[n].key
  PROVE  Table(nodes \cup {n}, heap2) = With(Table(nodes, heap), heap2[n].key, heap2[n].val)
<1> DEFINE t == Table(nodes, heap)
           u == Table(nodes \cup {n}, heap2)
           key == heap2[n].key
           v == With(t, key, heap2[n].val)
<1>1. OneEach(nodes \cup {n}, heap2)
  BY DEF OneEach
<1>2. Holds(t, nodes, heap)
  BY TableEntries
<1>3. Holds(u, nodes \cup {n}, heap2)
  BY <1>1, TableEntries
<1> HIDE DEF t, u
<1>4. DOMAIN u = DOMAIN t \cup {key}
  BY <1>2, <1>3 DEF Holds
<1>5. ASSUME NEW k \in DOMAIN u PROVE u[k] = IF k = key THEN heap2[n].val ELSE t[k]
  <2>1. CASE k = key
    BY <1>3, <2>1 DEF Holds
  <2>2. CASE k # key
    <3>1. PICK o \in nodes : k = heap[o].key
      BY <1>2, <1>4, <2>2 DEF Holds
    <3>2. t[k] = heap[o].val /\ u[k] = heap2[o].val /\ heap2[o] = heap[o]
      BY <1>2, <1>3, <3>1 DEF Holds
    <3> QED BY <2>2, <3>2
  <2> QED BY <2>1, <2>2
<1>6. u = v
  BY <1>3, <1>4, <1>5 DEF Holds, With
<1> QED BY <1>6 DEF t, u

\* A node less is an entry less.
LEMMA TableWithoutNode ==
  ASSUME NEW nodes, NEW heap, NEW heap2, NEW n \in nodes, OneEach(nodes, heap),
         \A o \in nodes \ {n} : heap2[o] = heap[o]
  PROVE  Table(nodes \ {n}, heap2) = Without(Table(nodes, heap), heap[n].key)
<1> DEFINE t == Table(nodes, heap)
           u == Table(nodes \ {n}, heap2)
           key == heap[n].key
<1>1. OneEach(nodes \ {n}, heap2)
  BY DEF OneEach
<1>2. Holds(t, nodes, heap)
  BY TableEntries
<1>3. Holds(u, nodes \ {n}, heap2)
  BY <1>1, TableEntries
<1> HIDE DEF t, u
<1>4. \A o \in nodes \ {n} : heap[o].key # key
  BY DEF OneEach
<1>5. DOMAIN u = DOMAIN t \ {key}
  BY <1>2, <1>3, <1>4 DEF Holds
<1>6. ASSUME NEW k \in DOMAIN u PROVE u[k] = t[k]
  BY <1>2, <1>3 DEF Holds
<1>7. u = Without(t, key)
  BY <1>3, <1>5, <1>6 DEF Holds, Without
<1> QED BY <1>7 DEF t, u

\* Writing a node's value writes the entry of its key.
LEMMA TableWritten ==
  ASSUME NEW nodes, NEW heap, NEW heap2, NEW n \in nodes, OneEach(nodes, heap),
         \A o \in nodes \ {n} : heap2[o] = heap[o], heap2[n].key = heap[n].key
  PROVE  Table(nodes, heap2) = [Table(nodes, heap) EXCEPT ![heap[n].key] = heap2[n].val]
<1> DEFINE t == Table(nodes, heap)
           u == Table(nodes, heap2)
           key == heap[n].key
           v == [t EXCEPT ![key] = heap2[n].val]
<1>1. OneEach(nodes, heap2)
  BY DEF OneEach
<1>2. Holds(t, nodes, heap)
  BY TableEntries
<1>3. Holds(u, nodes, heap2)
  BY <1>1, TableEntries
<1> HIDE DEF t, u
<1>4. \A o \in nodes \ {n} : heap[o].key # key
  BY DEF OneEach
<1>5. DOMAIN u = DOMAIN t
  BY <1>2, <1>3 DEF Holds
<1>6. ASSUME NEW k \in DOMAIN u PROVE u[k] = IF k = key THEN heap2[n].val ELSE t[k]
  <2>1. CASE k = key
    BY <1>3, <2>1 DEF Holds
  <2>2. CASE k # key
    BY <1>2, <1>3, <1>5, <2>2 DEF Holds
  <2> QED BY <2>1, <2>2
<1>7. v = [k \in DOMAIN t |-> IF k = key THEN heap2[n].val ELSE t[k]]
  BY <1>2 DEF Holds
<1>8. u = v
  BY <1>3, <1>5, <1>6, <1>7 DEF Holds
<1> QED BY <1>8 DEF t, u

-----------------------------------------------------------------------------
(***************************************************************************)
(* The mapping of MapSpec.                                                 *)
(***************************************************************************)
MapDict == [m \in Ids |-> IF head[m] = Null THEN Null ELSE Contents(m)]
MapEntry == IF res.node = Null THEN Null ELSE <<ModuleOf(res.node), item[res.node].key>>
MapGot == [of |-> res.of, ret |-> res.ret, nums |-> res.nums, entry |-> MapEntry]

Inv == IInv /\ Typed

\* What the tables stand for, where the invariant holds.
Mapped ==
  \A m \in Ids :
    /\ head[m] = Null => MapDict[m] = Null
    /\ head[m] # Null =>
         /\ MapDict[m] = Table(NodesOf(m), item) /\ MapDict[m] # Null
         /\ OneEach(NodesOf(m), item)
         /\ DOMAIN MapDict[m] = {item[n].key : n \in NodesOf(m)}
         /\ \A n \in NodesOf(m) : ModuleOf(n) = m

\* Where the invariant holds, the mapped map is the table.
LEMMA InvariantMapped == Inv => Mapped
<1> SUFFICES ASSUME Inv, NEW m \in Ids
             PROVE  /\ head[m] = Null => MapDict[m] = Null
                    /\ head[m] # Null =>
                         /\ MapDict[m] = Table(NodesOf(m), item) /\ MapDict[m] # Null
                         /\ OneEach(NodesOf(m), item)
                         /\ DOMAIN MapDict[m] = {item[n].key : n \in NodesOf(m)}
                         /\ \A n \in NodesOf(m) : ModuleOf(n) = m
  BY DEF Mapped
<1>1. CASE head[m] = Null
  BY <1>1 DEF MapDict
<1>2. CASE head[m] # Null
  <2>1. MapDict[m] = Table(NodesOf(m), item)
    BY <1>2, ContentsIsTable DEF MapDict
  <2>2. OneEach(NodesOf(m), item)
    BY DEF Inv, OneEach, IInv, KeysUnique
  <2>3. Holds(MapDict[m], NodesOf(m), item)
    BY <2>1, <2>2, TableEntries
  <2>4. DOMAIN MapDict[m] = {item[n].key : n \in NodesOf(m)}
    BY <2>3 DEF Holds
  <2>5. MapDict[m] # Null
    <3> DEFINE d == MapDict[m]
    <3>1. d = [k \in DOMAIN d |-> d[k]]
      BY <2>3 DEF Holds
    <3>2. \A n \in NodesOf(m) : d[item[n].key] = item[n].val
      BY <2>3 DEF Holds
    <3>3. \A n \in NodesOf(m) : item[n].key \in Keys /\ item[n].val \in Vals
      BY <1>2, NodeHasPlace DEF Inv, Typed
    <3>4. DOMAIN d = {item[n].key : n \in NodesOf(m)}
      BY <2>4
    <3> HIDE DEF d
    <3>5. \A k \in DOMAIN d : k \in Keys /\ d[k] \in Vals
      BY <3>2, <3>3, <3>4
    <3>6. d \in [DOMAIN d -> Vals] /\ DOMAIN d \in SUBSET Keys
      BY <3>1, <3>5
    <3>7. d # Null
      BY <3>6, NoTableAssumption
    <3> QED BY <3>7 DEF d
  <2>6. ASSUME NEW n \in NodesOf(m) PROVE ModuleOf(n) = m
    <3>1. \A o \in Ids : n \in NodesOf(o) => o = m
      BY DEF Inv, IInv, HeapIsTable
    <3> QED BY <3>1 DEF ModuleOf
  <2> QED BY <1>2, <2>1, <2>2, <2>4, <2>5, <2>6
<1> QED BY <1>1, <1>2

\* And after the step.
LEMMA InvariantMappedNext == Inv' => Mapped'
BY InvariantMapped, PTL

\* A call that reports a code, and changes no table.
LEMMA MapsReport ==
  ASSUME NEW ret \in -1..VHASH_UPDATE_OK, MapDict' = MapDict,
         MapGot' = [of |-> Null, ret |-> ret, nums |-> << >>, entry |-> Null]
  PROVE  Map!PNext
<1>1. Map!Report(ret)
  BY DEF Map!Report, Map!Gives, MapDict, MapGot, MapEntry
<1> QED BY <1>1 DEF Map!PNext

\* What a call gives, as the map has it.
LEMMA GivesNothing ==
  ASSUME NEW of, NEW ret, NEW nums, Gives(of, ret, Null, nums)
  PROVE  MapGot' = [of |-> of, ret |-> ret, nums |-> nums, entry |-> Null]
BY DEF Gives, MapGot, MapEntry

\* A call that gives a node gives, mapped, its key.
LEMMA GivesEntry ==
  ASSUME Inv', Mapped', NEW m \in Ids, head'[m] # Null, NEW n \in NodesOf(m)',
         NEW of, NEW ret, NEW nums, Gives(of, ret, n, nums)
  PROVE  MapGot' = [of |-> of, ret |-> ret, nums |-> nums, entry |-> <<m, item'[n].key>>]
<1>1. n # Null
  BY NodesAssumption DEF Inv, IInv, HeapIsTable, Shape
<1>2. ModuleOf(n)' = m
  BY DEF Mapped
<1>3. res'.node = n /\ res'.of = of /\ res'.ret = ret /\ res'.nums = nums
  BY DEF Gives
<1>4. MapEntry' = <<m, item'[n].key>>
  BY <1>1, <1>2, <1>3 DEF MapEntry
<1> QED BY <1>3, <1>4 DEF MapGot

\* Where the nodes and the heads stay, so does the map.
LEMMA MapStays ==
  ASSUME UNCHANGED <<head, item>>
  PROVE  MapDict' = MapDict
<1>1. \A m \in Ids : Contents(m)' = Contents(m)
  BY DEF Contents, NodesOf, NodeOf
<1> QED BY <1>1 DEF MapDict

\* A call on a module changes that module's entries alone.
LEMMA MapChangesAt ==
  ASSUME Mapped, NEW m \in Ids, NEW new,
         MapDict'[m] = new,
         \A o \in Ids \ {m} :
           head'[o] = head[o] /\ \A n \in NodesOf(o) : item'[n] = item[n]
  PROVE  MapDict' = [MapDict EXCEPT ![m] = new]
<1>1. ASSUME NEW o \in Ids \ {m}
      PROVE  MapDict'[o] = MapDict[o]
  <2>1. CASE head[o] = Null
    BY <2>1 DEF MapDict
  <2>2. CASE head[o] # Null
    <3>1. NodesOf(o)' = NodesOf(o)
      BY SameNodes
    <3>2. Table(NodesOf(o), item') = Table(NodesOf(o), item)
      BY <2>2, TableOfSame DEF Mapped
    <3>3. Contents(o)' = Contents(o)
      BY <3>1, <3>2, ContentsIsTable
    <3> QED BY <2>2, <3>3 DEF MapDict
  <2> QED BY <2>1, <2>2
<1>2. /\ MapDict = [o \in Ids |-> MapDict[o]]
      /\ MapDict' = [o \in Ids |-> MapDict'[o]]
  BY DEF MapDict
<1> QED BY <1>1, <1>2

\* The search finds what the map has.
LEMMA HitsAreEntries ==
  ASSUME Inv, NEW m \in Ids, Ready(m), NEW k \in Keys
  PROVE  /\ MapDict[m] # Null /\ head[m] # Null
         /\ Hits(m, k) # {} <=> k \in DOMAIN MapDict[m]
         /\ Hits(m, k) # {} => /\ Chain(m, k)[FirstHit(m, k)] \in NodesOf(m)
                               /\ item[Chain(m, k)[FirstHit(m, k)]].key = k
<1>1. head[m] # Null
  BY DEF Ready, HasTable
<1>2. MapDict[m] # Null /\ DOMAIN MapDict[m] = {item[n].key : n \in NodesOf(m)}
  BY <1>1, InvariantMapped DEF Mapped
<1> QED BY <1>1, <1>2, SearchFinds DEF Inv

-----------------------------------------------------------------------------
(***************************************************************************)
(* Each call is a step of the map.                                         *)
(***************************************************************************)
\* A call that neither changes a table nor is about an entry.
LEMMA ReportMaps ==
  ASSUME UNCHANGED <<head, item>>, NEW ret \in -1..VHASH_UPDATE_OK, Returns(ret)
  PROVE  Map!PNext
<1>1. MapDict' = MapDict
  BY MapStays
<1>2. MapGot' = [of |-> Null, ret |-> ret, nums |-> << >>, entry |-> Null]
  BY GivesNothing DEF Returns
<1> QED BY <1>1, <1>2, MapsReport

\* A table is made, emptied or removed.
LEMMA ResetMaps ==
  ASSUME Inv, Inv', NEW m \in Ids, NEW new,
         new = Null \/ \E complete \in BOOLEAN : new = NewHead(complete),
         head' = [head EXCEPT ![m] = new],
         DOMAIN item' = DOMAIN item \ NodesOf(m),
         \A n \in DOMAIN item' : item'[n] = item[n],
         Returns(VHASH_OK)
  PROVE  Map!PNext
<1>1. Mapped /\ Mapped'
  BY InvariantMapped, InvariantMappedNext
<1>2. head'[m] = new /\ \A o \in Ids \ {m} : head'[o] = head[o]
  BY DEF Inv, IInv, Shape
<1>3. MapDict'[m] = IF new = Null THEN Null ELSE Map!Empty
  <2>1. CASE new = Null
    BY <1>2, <2>1 DEF MapDict
  <2>2. CASE new # Null
    <3>1. /\ head'[m] # Null
          /\ head'[m] \in HeadType /\ \A h \in Buckets : head'[m].bucket[h] = << >>
      BY <1>2, <2>2, NewHeadEmpty
    <3>2. NodesOf(m)' = {}
      <4>1. \A h \in Buckets : DOMAIN head'[m].bucket[h] = {}
        BY <3>1
      <4> QED BY <3>1, <4>1 DEF NodesOf
    <3>3. MapDict'[m] = Table({}, item')
      BY <1>1, <3>1, <3>2 DEF Mapped
    <3>4. Table({}, item') = Map!Empty
      BY DEF Table, Map!Empty
    <3> QED BY <2>2, <3>3, <3>4
  <2> QED BY <2>1, <2>2
<1>4. ASSUME NEW o \in Ids \ {m}, NEW n \in NodesOf(o)
      PROVE  item'[n] = item[n]
  <2>1. HeapIsTable
    BY DEF Inv, IInv
  <2>2. n \in DOMAIN item /\ n \notin NodesOf(m)
    BY ONLY <2>1, n \in NodesOf(o), m \in Ids, o \in Ids \ {m} DEF HeapIsTable
  <2> QED BY <2>2
<1> DEFINE table == IF new = Null THEN Null ELSE Map!Empty
<1>5. MapDict' = [MapDict EXCEPT ![m] = table]
  <2>1. MapDict'[m] = table
    BY <1>3
  <2> HIDE DEF table
  <2> QED BY <1>1, <1>2, <1>4, <2>1, MapChangesAt
<1>6. MapGot' = [of |-> Null, ret |-> 0, nums |-> << >>, entry |-> Null]
  BY GivesNothing DEF Returns, VHASH_OK
<1>7. table \in {Null, Map!Empty}
  OBVIOUS
<1> HIDE DEF table
<1>8. Map!Reset(m, table)
  BY <1>5, <1>6, <1>7 DEF Map!Reset, Map!Gives, MapDict, MapGot, MapEntry
<1> QED BY <1>7, <1>8 DEF Map!PNext

\* The key is said to be there or not to be.
LEMMA VerdictMaps ==
  ASSUME Inv, NEW m \in Ids, NEW k \in Keys, Ready(m), UNCHANGED <<head, item>>,
         \/ Hits(m, k) = {} /\ Answers(m, k, VHASH_NOT_FOUND)
         \/ Hits(m, k) # {} /\ Answers(m, k, VHASH_EXIST)
  PROVE  Map!PNext
<1>1. MapDict' = MapDict
  BY MapStays
<1>2. MapDict[m] # Null /\ (Hits(m, k) # {} <=> k \in DOMAIN MapDict[m])
  BY HitsAreEntries
<1>3. /\ Hits(m, k) = {} =>
           MapGot' = [of |-> <<m, k>>, ret |-> 3, nums |-> << >>, entry |-> Null]
      /\ Hits(m, k) # {} =>
           MapGot' = [of |-> <<m, k>>, ret |-> 4, nums |-> << >>, entry |-> Null]
  BY GivesNothing DEF Answers, VHASH_NOT_FOUND, VHASH_EXIST
<1>4. Map!Verdict(m, k)
  BY <1>1, <1>2, <1>3
     DEF Map!Verdict, Map!Has, Map!Lacks, Map!Gives, MapDict, MapGot, MapEntry
<1> QED BY <1>4 DEF Map!PNext

\* The call cannot do what it should.
LEMMA FailureMaps ==
  ASSUME NEW m \in Ids, NEW k \in Keys, NEW ret \in {1, 2}, UNCHANGED <<head, item>>,
         Answers(m, k, ret)
  PROVE  Map!PNext
<1>1. MapDict' = MapDict
  BY MapStays
<1>2. MapGot' = [of |-> <<m, k>>, ret |-> ret, nums |-> << >>, entry |-> Null]
  BY GivesNothing DEF Answers
<1>3. Map!Failed(m, k, ret)
  BY <1>1, <1>2 DEF Map!Failed, Map!Gives, MapDict, MapGot, MapEntry
<1>4. ret \in -1..VHASH_UPDATE_OK
  BY DEF VHASH_UPDATE_OK
<1> QED BY <1>3, <1>4 DEF Map!PNext

\* The node of the key is given.
LEMMA FindMaps ==
  ASSUME Inv, Inv', NEW m \in Ids, NEW k \in Keys, Ready(m), Hits(m, k) # {},
         UNCHANGED <<head, item>>, NEW ret \in {0, 6},
         Gives(<<m, k>>, ret, Chain(m, k)[FirstHit(m, k)], << >>)
  PROVE  Map!PNext
<1> DEFINE n == Chain(m, k)[FirstHit(m, k)]
<1>1. MapDict' = MapDict
  BY MapStays
<1>2. /\ MapDict[m] # Null /\ head[m] # Null /\ k \in DOMAIN MapDict[m]
      /\ n \in NodesOf(m) /\ item[n].key = k
  BY HitsAreEntries
<1>3. Gives(<<m, k>>, ret, n, << >>)
  OBVIOUS
<1> HIDE DEF n
<1>4. n \in NodesOf(m)' /\ head'[m] # Null /\ item'[n].key = k
  BY <1>2 DEF NodesOf
<1>5. MapGot' = [of |-> <<m, k>>, ret |-> ret, nums |-> << >>, entry |-> <<m, k>>]
  BY <1>3, <1>4, GivesEntry, InvariantMappedNext
<1>6. Map!Find(m, k)
  BY <1>1, <1>2, <1>5 DEF Map!Find, Map!Has, Map!Gives, MapDict, MapGot, MapEntry
<1> QED BY <1>6 DEF Map!PNext


\* An addition of an absent key is one of PortMap.
LEMMA AddMaps ==
  ASSUME Inv, Inv', NEW m \in Ids, NEW k \in Keys, Ready(m), Hits(m, k) = {},
         NEW n, Gains(m, k, n)
  PROVE  Map!PNext
<1>1. Mapped /\ Mapped'
  BY InvariantMapped, InvariantMappedNext
<1>2. MapDict[m] # Null /\ head[m] # Null /\ k \notin DOMAIN MapDict[m]
  BY HitsAreEntries
<1>3. /\ NodesOf(m)' = NodesOf(m) \cup {n} /\ n \notin NodesOf(m) /\ head'[m] # Null
      /\ \A o \in Ids \ {m} : head'[o] = head[o]
      /\ \A x \in DOMAIN item : item'[x] = item[x]
      /\ item'[n].key = k /\ item'[n].val = ZeroVal
      /\ Gives(<<m, k>>, VHASH_OK, n, << >>)
  BY DEF Gains
<1>4. \A o \in Ids : \A x \in NodesOf(o) : item'[x] = item[x]
  BY <1>3 DEF Inv, IInv, HeapIsTable
<1> DEFINE d == MapDict[m]
           new == With(d, k, ZeroVal)
<1>5. MapDict'[m] = new
  <2>1. MapDict'[m] = Table(NodesOf(m) \cup {n}, item')
    BY <1>1, <1>3 DEF Mapped
  <2>2. /\ d = Table(NodesOf(m), item) /\ OneEach(NodesOf(m), item)
        /\ DOMAIN d = {item[x].key : x \in NodesOf(m)}
    BY <1>1, <1>2 DEF Mapped
  <2>3. \A x \in NodesOf(m) : item'[x] = item[x] /\ item[x].key # item'[n].key
    BY <1>2, <1>3, <1>4, <2>2
  <2>4. Table(NodesOf(m) \cup {n}, item') =
          With(Table(NodesOf(m), item), item'[n].key, item'[n].val)
    BY <1>3, <2>2, <2>3, TableWithNode
  <2> QED BY <1>3, <2>1, <2>2, <2>4
<1>6. MapDict' = [MapDict EXCEPT ![m] = new]
  <2> HIDE DEF new
  <2> QED BY <1>1, <1>3, <1>4, <1>5, MapChangesAt
<1>7. MapGot' = [of |-> <<m, k>>, ret |-> 0, nums |-> << >>, entry |-> <<m, k>>]
  BY <1>1, <1>3, GivesEntry DEF VHASH_OK
<1>8. Map!Add(m, k)
  BY <1>2, <1>6, <1>7 DEF With, Map!Add, Map!Lacks, Map!Gives, MapDict, MapGot, MapEntry
<1> QED BY <1>8 DEF Map!PNext

\* So is a deletion of a present one.
LEMMA DeleteMaps ==
  ASSUME Inv, Inv', NEW m \in Ids, NEW k \in Keys, Ready(m), Hits(m, k) # {},
         Loses(m, Chain(m, k)[FirstHit(m, k)]), Answers(m, k, VHASH_OK)
  PROVE  Map!PNext
<1> DEFINE n == Chain(m, k)[FirstHit(m, k)]
<1>1. Mapped /\ Mapped'
  BY InvariantMapped, InvariantMappedNext
<1>2. /\ MapDict[m] # Null /\ head[m] # Null /\ k \in DOMAIN MapDict[m]
      /\ n \in NodesOf(m) /\ item[n].key = k
  BY HitsAreEntries
<1>3. /\ NodesOf(m)' = NodesOf(m) \ {n} /\ head'[m] # Null
      /\ \A o \in Ids \ {m} : head'[o] = head[o]
      /\ \A x \in DOMAIN item \ {n} : item'[x] = item[x]
  BY DEF Loses
<1> HIDE DEF n
<1>4. /\ \A x \in NodesOf(m) \ {n} : item'[x] = item[x]
      /\ \A o \in Ids \ {m} : \A x \in NodesOf(o) : item'[x] = item[x]
  BY <1>2, <1>3 DEF Inv, IInv, HeapIsTable
<1> DEFINE d == MapDict[m]
           new == Without(d, k)
<1>5. MapDict'[m] = new
  <2>1. MapDict'[m] = Table(NodesOf(m) \ {n}, item')
    BY <1>1, <1>3 DEF Mapped
  <2>2. d = Table(NodesOf(m), item) /\ OneEach(NodesOf(m), item)
    BY <1>1, <1>2 DEF Mapped
  <2>3. Table(NodesOf(m) \ {n}, item') = Without(Table(NodesOf(m), item), item[n].key)
    BY <1>2, <1>4, <2>2, TableWithoutNode
  <2> QED BY <1>2, <2>1, <2>2, <2>3
<1>6. MapDict' = [MapDict EXCEPT ![m] = new]
  <2> HIDE DEF new
  <2> QED BY <1>1, <1>3, <1>4, <1>5, MapChangesAt
<1>7. MapGot' = [of |-> <<m, k>>, ret |-> 0, nums |-> << >>, entry |-> Null]
  BY GivesNothing DEF Answers, VHASH_OK
<1>8. new = Restrict(MapDict[m], DOMAIN MapDict[m] \ {k})
  BY DEF Without, Restrict
<1>9. MapDict' = [MapDict EXCEPT ![m] = Restrict(MapDict[m], DOMAIN MapDict[m] \ {k})]
  BY <1>6, <1>8
<1>10. Map!Delete(m, k)
  BY <1>2, <1>7, <1>9 DEF Map!Delete, Map!Has, Map!Gives, MapDict, MapGot, MapEntry, Restrict, Map!Restrict
<1> QED BY <1>10 DEF Map!PNext

\* A call of the enumeration gives an entry of the map, or only reports.
LEMMA NextMaps ==
  ASSUME Inv, Inv', NEW m \in Ids, NEW prev, VHash_Get_NextNode(m, prev)
  PROVE  Map!PNext
<1> DEFINE n == NextOf(m, prev)
<1>1. n \in NodesOf(m) \cup {Null} /\ head[m] # Null
  BY NextIsNode DEF Inv, VHash_Get_NextNode, Ready, HasTable
<1>2. UNCHANGED <<head, item>> /\ Gives(Null, 0, n, << >>)
  BY DEF VHash_Get_NextNode, VHASH_OK
<1> HIDE DEF n
<1>3. CASE n = Null
  <2>1. Returns(0) /\ 0 \in -1..VHASH_UPDATE_OK
    BY <1>2, <1>3 DEF Returns, VHASH_UPDATE_OK
  <2> QED BY <1>2, <2>1, ReportMaps
<1>4. CASE n # Null
  <2>1. Mapped /\ Mapped' /\ MapDict' = MapDict
    BY <1>2, InvariantMapped, InvariantMappedNext, MapStays
  <2>2. n \in NodesOf(m) /\ n \in NodesOf(m)' /\ head'[m] # Null /\ item'[n].key = item[n].key
    BY <1>1, <1>2, <1>4 DEF NodesOf
  <2> DEFINE k == item[n].key
  <2>3. k \in DOMAIN MapDict[m] /\ MapDict[m] # Null
    BY <1>1, <2>1, <2>2 DEF Mapped
  <2>4. k \in Keys
    BY <1>1, <2>2, NodeHasPlace DEF Inv
  <2>5. MapGot' = [of |-> Null, ret |-> 0, nums |-> << >>, entry |-> <<m, k>>]
    BY <1>2, <2>1, <2>2, GivesEntry
  <2> HIDE DEF k
  <2>6. Map!Step(m, k)
    BY <2>1, <2>3, <2>5 DEF Map!Step, Map!Has, Map!Gives, MapDict, MapGot, MapEntry
  <2> QED BY <2>4, <2>6 DEF Map!PNext
<1> QED BY <1>3, <1>4


\* A set and its image under an injection are of one size.
LEMMA SameSize ==
  ASSUME NEW S, NEW R, IsFiniteSet(S), NEW f \in [S -> R],
         \A x, y \in S : f[x] = f[y] => x = y,
         \A y \in R : \E x \in S : f[x] = y
  PROVE  Cardinality(R) = Cardinality(S)
<1>1. f \in Bijection(S, R)
  BY DEF Bijection, Injection, Surjection, IsInjective
<1>2. ExistsBijection(S, R)
  BY <1>1 DEF ExistsBijection
<1> QED BY <1>2, FS_Bijection

\* PortMap counts as this module does.
LEMMA SameCount ==
  ASSUME NEW S
  PROVE  Map!Cardinality(S) = Cardinality(S)
BY DEF Cardinality, Map!Cardinality

\* A count is a count of the entries: each is in one of the numbers.
LEMMA CountMaps ==
  ASSUME NEW m \in Ids, NEW nums, MapDict[m] # Null, UNCHANGED <<head, item>>,
         Gives(Null, VHASH_OK, Null, nums),
         NEW counted \in [DOMAIN MapDict[m] -> DOMAIN nums],
         \A i \in DOMAIN nums :
           nums[i] = Cardinality({k \in DOMAIN MapDict[m] : counted[k] = i})
  PROVE  Map!PNext
<1>1. MapDict' = MapDict
  BY MapStays
<1>2. MapGot' = [of |-> Null, ret |-> 0, nums |-> nums, entry |-> Null]
  BY GivesNothing DEF VHASH_OK
<1>3. MapGot'.nums = nums
  BY <1>2
<1>4. Map!Count(m, nums)
  <2>1. \A i \in DOMAIN nums :
          nums[i] = Map!Cardinality({k \in DOMAIN MapDict[m] : counted[k] = i})
    BY SameCount
  <2>2. \E c \in [DOMAIN MapDict[m] -> DOMAIN nums] :
          \A i \in DOMAIN nums :
            nums[i] = Map!Cardinality({k \in DOMAIN MapDict[m] : c[k] = i})
    BY <2>1
  <2> QED BY <1>1, <1>2, <2>2 DEF Map!Count, Map!Gives, MapDict, MapGot, MapEntry
<1>5. Map!Count(m, MapGot'.nums)
  BY <1>3, <1>4
<1> QED BY <1>5 DEF Map!PNext, MapGot, MapEntry


\* VHash_Node_Total counts the entries of the map.
LEMMA TotalMaps ==
  ASSUME Inv, NEW m \in Ids, VHash_Node_Total(m)
  PROVE  Map!PNext
<1>1. /\ head[m] # Null /\ UNCHANGED <<head, item>>
      /\ Gives(Null, VHASH_OK, Null, <<head[m].total>>)
  BY DEF VHash_Node_Total, HasTable
<1>2. /\ MapDict[m] # Null /\ OneEach(NodesOf(m), item)
      /\ DOMAIN MapDict[m] = {item[n].key : n \in NodesOf(m)}
  BY <1>1, InvariantMapped DEF Mapped
<1>3. IsFiniteSet(NodesOf(m))
  BY FS_Subset, NodesAssumption DEF Inv, IInv, Shape, HeapIsTable
<1> DEFINE keys == DOMAIN MapDict[m]
           keyOf == [n \in NodesOf(m) |-> item[n].key]
           counted == [k \in keys |-> 1]
           nums == <<head[m].total>>
<1>4. Cardinality(keys) = Cardinality(NodesOf(m))
  <2>1. keyOf \in [NodesOf(m) -> keys]
    BY <1>2
  <2>2. \A x, y \in NodesOf(m) : keyOf[x] = keyOf[y] => x = y
    BY <1>2 DEF OneEach
  <2>3. \A k \in keys : \E x \in NodesOf(m) : keyOf[x] = k
    BY <1>2
  <2> HIDE DEF keyOf, keys
  <2> QED BY <1>3, <2>1, <2>2, <2>3, SameSize
<1>5. head[m].total = Cardinality(keys)
  BY <1>1, <1>4 DEF Inv, IInv, CountersAgree
<1>6. /\ counted \in [keys -> DOMAIN nums] /\ DOMAIN nums = {1}
      /\ nums[1] = Cardinality(keys) /\ Gives(Null, VHASH_OK, Null, nums)
  BY <1>1, <1>5
<1>7. \A i \in DOMAIN nums : nums[i] = Cardinality({k \in keys : counted[k] = i})
  <2>1. {k \in keys : counted[k] = 1} = keys
    OBVIOUS
  <2> QED BY <1>6, <2>1
<1> HIDE DEF counted, nums
<1> QED BY <1>1, <1>2, <1>6, <1>7, CountMaps

\* A chain is as long as there are keys that hash to it.
LEMMA ChainLength ==
  ASSUME Inv, NEW m \in Ids, head[m] # Null, NEW h \in Buckets
  PROVE  Len(head[m].bucket[h]) = Cardinality({k \in DOMAIN MapDict[m] : Hash[k] = h})
<1> DEFINE chain == head[m].bucket[h]
           keys == {k \in DOMAIN MapDict[m] : Hash[k] = h}
           keyAt == [i \in 1..Len(chain) |-> item[chain[i]].key]
<1>1. DOMAIN MapDict[m] = {item[n].key : n \in NodesOf(m)} /\ OneEach(NodesOf(m), item)
  BY InvariantMapped DEF Mapped
<1>2. chain \in Seq(Nodes) /\ DOMAIN chain = 1..Len(chain) /\ Len(chain) \in Nat
  BY DEF Inv, IInv, Shape, HeadType
<1>3. \A i \in 1..Len(chain) : chain[i] \in NodesOf(m)
  BY PlaceHasNode DEF Inv, IInv
<1>4. \A i \in 1..Len(chain) : Hash[item[chain[i]].key] = h
  BY <1>2 DEF Inv, IInv, HeapIsTable
<1>5. keyAt \in [1..Len(chain) -> keys]
  BY <1>1, <1>3, <1>4
<1>6. ASSUME NEW i \in 1..Len(chain), NEW j \in 1..Len(chain), keyAt[i] = keyAt[j]
      PROVE  i = j
  <2>1. chain[i] = chain[j]
    BY <1>1, <1>3, <1>6 DEF OneEach
  <2> QED BY <1>2, <2>1 DEF Inv, IInv, HeapIsTable
<1>7. ASSUME NEW k \in keys
      PROVE  \E i \in 1..Len(chain) : keyAt[i] = k
  <2>1. PICK n \in NodesOf(m) : item[n].key = k
    BY <1>1
  <2>2. \E i \in 1..Len(Chain(m, item[n].key)) : Chain(m, item[n].key)[i] = n
    BY NodeHasPlace DEF Inv
  <2>3. Chain(m, item[n].key) = chain
    BY <2>1 DEF Chain
  <2> QED BY <2>1, <2>2, <2>3
<1>8. IsFiniteSet(1..Len(chain)) /\ Cardinality(1..Len(chain)) = Len(chain)
  BY <1>2, FS_Interval
<1>9. Cardinality(keys) = Cardinality(1..Len(chain))
  <2> HIDE DEF keyAt, keys
  <2>1. \A i, j \in 1..Len(chain) : keyAt[i] = keyAt[j] => i = j
    BY <1>6
  <2>2. \A k \in keys : \E i \in 1..Len(chain) : keyAt[i] = k
    BY <1>7
  <2> HIDE DEF chain
  <2> QED BY <1>5, <1>8, <2>1, <2>2, SameSize
<1> HIDE DEF keys
<1> QED BY <1>8, <1>9 DEF keys

\* VHash_Node_Stat counts them bucket by bucket.
LEMMA StatMaps ==
  ASSUME Inv, NEW m \in Ids, VHash_Node_Stat(m)
  PROVE  Map!PNext
<1> DEFINE nums == [i \in 1..BucketCount |-> head[m].sum[i - 1]]
           keys == DOMAIN MapDict[m]
           counted == [k \in keys |-> Hash[k] + 1]
<1>1. /\ head[m] # Null /\ UNCHANGED <<head, item>>
      /\ Gives(Null, VHASH_OK, Null, nums)
  BY DEF VHash_Node_Stat, HasTable
<1>2. MapDict[m] # Null /\ keys = {item[n].key : n \in NodesOf(m)}
  BY <1>1, InvariantMapped DEF Mapped
<1>3. keys \subseteq Keys
  BY <1>1, <1>2, NodeHasPlace DEF Inv
<1>4. BucketCount \in Nat /\ \A k \in keys : Hash[k] \in 0..(BucketCount - 1)
  BY <1>3, BucketsAssumption DEF Buckets
<1>5. counted \in [keys -> DOMAIN nums]
  BY <1>4
<1>6. ASSUME NEW i \in DOMAIN nums
      PROVE  nums[i] = Cardinality({k \in keys : counted[k] = i})
  <2>1. i \in 1..BucketCount /\ i - 1 \in Buckets
    BY <1>4 DEF Buckets
  <2>2. nums[i] = Len(head[m].bucket[i - 1])
    BY <1>1, <2>1 DEF Inv, IInv, CountersAgree
  <2>3. {k \in keys : counted[k] = i} = {k \in keys : Hash[k] = i - 1}
    BY <1>4, <2>1
  <2>4. Len(head[m].bucket[i - 1]) = Cardinality({k \in keys : Hash[k] = i - 1})
    BY <1>1, <2>1, ChainLength
  <2> QED BY <2>2, <2>3, <2>4
<1>7. \A i \in DOMAIN nums : nums[i] = Cardinality({k \in keys : counted[k] = i})
  BY <1>6
<1> HIDE DEF counted, nums
<1>8. MapDict[m] # Null
  BY <1>2
<1> QED BY <1>1, <1>5, <1>7, <1>8, CountMaps

\* The caller's writing is a write to the entry it has a handle on.
LEMMA StoreMaps ==
  ASSUME Inv, Inv', NEW v \in Vals, Store(v)
  PROVE  Map!PNext
<1>0. PICK n \in DOMAIN item : n = res.node
  BY DEF Inv, Store, IInv, HeapIsTable
<1>1. /\ n # Null
      /\ item' = [item EXCEPT ![n].val = v] /\ head' = head /\ res' = res
  BY <1>0 DEF Store
<1>2. PICK m \in Ids : n \in NodesOf(m)
  BY <1>1 DEF Inv, IInv, HeapIsTable
<1>3. head[m] # Null /\ head'[m] # Null
  BY <1>1, <1>2 DEF NodesOf
<1>4. Mapped /\ Mapped'
  BY InvariantMapped, InvariantMappedNext
<1> DEFINE k == item[n].key
<1>5. k \in Keys /\ k \in DOMAIN MapDict[m] /\ MapDict[m] # Null
  BY <1>2, <1>3, <1>4, NodeHasPlace DEF Inv, Mapped
<1>6. /\ item'[n].key = k /\ item'[n].val = v
      /\ \A o \in DOMAIN item \ {n} : item'[o] = item[o]
  <2>1. item[n] = [key |-> item[n].key, val |-> item[n].val]
    BY DEF Inv, IInv, Shape
  <2> QED BY <1>1, <2>1
<1>7. \A o \in Ids : NodesOf(o)' = NodesOf(o)
  BY <1>1 DEF NodesOf
<1>8. ModuleOf(n) = m /\ ModuleOf(n)' = m
  BY <1>2, <1>3, <1>4, <1>7 DEF Mapped
<1>9. MapGot.entry = <<m, k>> /\ MapGot' = MapGot
  <2>1. MapEntry = <<m, k>> /\ MapEntry' = <<m, k>>
    BY <1>0, <1>1, <1>6, <1>8 DEF MapEntry
  <2> QED BY <1>1, <2>1 DEF MapGot
<1> DEFINE d == MapDict[m]
           new == [d EXCEPT ![k] = v]
<1>10. MapDict'[m] = new
  <2>1. MapDict'[m] = Table(NodesOf(m), item') /\ d = Table(NodesOf(m), item)
    BY <1>3, <1>4, <1>7 DEF Mapped
  <2>2. OneEach(NodesOf(m), item)
    BY <1>3, <1>4 DEF Mapped
  <2>3. \A o \in NodesOf(m) \ {n} : item'[o] = item[o]
    BY <1>6 DEF Inv, IInv, HeapIsTable
  <2>4. Table(NodesOf(m), item') = [Table(NodesOf(m), item) EXCEPT ![item[n].key] = item'[n].val]
    BY <1>2, <1>6, <2>2, <2>3, TableWritten
  <2> QED BY <1>6, <2>1, <2>4
<1>11. \A o \in Ids \ {m} : head'[o] = head[o] /\ \A x \in NodesOf(o) : item'[x] = item[x]
  BY <1>1, <1>2, <1>6 DEF Inv, IInv, HeapIsTable
<1>12. MapDict' = [MapDict EXCEPT ![m] = new]
  <2> HIDE DEF new
  <2> QED BY <1>4, <1>10, <1>11, MapChangesAt
<1>13. MapDict' = [MapDict EXCEPT ![m][k] = v]
  BY <1>12 DEF MapDict
<1> HIDE DEF k
<1>14. Map!Write(m, k, v)
  BY <1>5, <1>9, <1>13 DEF Map!Write, Map!Has, MapDict, MapGot, MapEntry
<1> QED BY <1>5, <1>14 DEF Map!PNext

-----------------------------------------------------------------------------
(***************************************************************************)
(* The refinement.                                                         *)
(***************************************************************************)
LEMMA CallMaps ==
  ASSUME Inv, Inv', NEW m \in Ids, Call(m)
  PROVE  Map!PNext
<1>1. \A ret \in {0, 1, 2, 5} : ret \in -1..VHASH_UPDATE_OK
  BY DEF VHASH_UPDATE_OK
<1>2. ASSUME NEW complete \in BOOLEAN, VHash_Create_Moudle(m, complete) PROVE Map!PNext
  <2>1. CASE UNCHANGED head
    <3>1. PICK ret \in {0, 1, 2} : Returns(ret)
      BY <1>2, <2>1 DEF VHash_Create_Moudle, VHASH_OK, VHASH_ERR, VHASH_NOT_INNIF
    <3>2. UNCHANGED <<head, item>>
      BY <1>2, <2>1 DEF VHash_Create_Moudle
    <3> QED BY <1>1, <3>1, <3>2, ReportMaps
  <2>2. CASE ~(UNCHANGED head)
    <3>1. /\ head[m] = Null /\ head' = [head EXCEPT ![m] = NewHead(complete)]
          /\ item' = item /\ Returns(VHASH_OK)
      BY <1>2, <2>2 DEF VHash_Create_Moudle, HasTable
    <3>2. NodesOf(m) = {}
      BY <3>1 DEF NodesOf
    <3>3. DOMAIN item' = DOMAIN item \ NodesOf(m) /\ \A n \in DOMAIN item' : item'[n] = item[n]
      BY <3>1, <3>2
    <3> QED BY <3>1, <3>3, ResetMaps
  <2> QED BY <2>1, <2>2
<1>3. CASE Refuse(m) \/ RefuseIncomplete(m)
  <2>1. PICK ret \in {1, 5} : Returns(ret)
    BY <1>3 DEF Refuse, RefuseIncomplete, VHASH_ERR, VHASH_INTERFACE_ERR
  <2>2. UNCHANGED <<head, item>>
    BY <1>3 DEF Refuse, RefuseIncomplete
  <2> QED BY <1>1, <2>1, <2>2, ReportMaps
<1>4. CASE VHash_Destory_Moudle(m)
  <2>1. /\ head' = [head EXCEPT ![m] = Null] /\ Returns(VHASH_OK)
        /\ DOMAIN item' = DOMAIN item \ NodesOf(m) /\ \A n \in DOMAIN item' : item'[n] = item[n]
    BY <1>4 DEF VHash_Destory_Moudle, Drop
  <2> QED BY <2>1, ResetMaps
<1>5. CASE VHash_Clean_Moudle(m)
  <2>1. /\ head' = [head EXCEPT ![m] = NewHead(head[m].complete)] /\ Returns(VHASH_OK)
        /\ DOMAIN item' = DOMAIN item \ NodesOf(m) /\ \A n \in DOMAIN item' : item'[n] = item[n]
    BY <1>5 DEF VHash_Clean_Moudle, Drop, Inv, IInv, Shape
  <2>2. head[m].complete \in BOOLEAN
    BY <1>5 DEF Inv, VHash_Clean_Moudle, HasTable, IInv, Shape, HeadType
  <2> QED BY <2>1, <2>2, ResetMaps
<1>6. ASSUME NEW k \in Keys, VHash_Get_Node(m, k) PROVE Map!PNext
  <2>1. Ready(m) /\ UNCHANGED <<head, item>>
    BY <1>6 DEF VHash_Get_Node
  <2>2. CASE Hits(m, k) # {}
    <3>1. Gives(<<m, k>>, 0, Chain(m, k)[FirstHit(m, k)], << >>)
      BY <1>6, <2>2 DEF VHash_Get_Node, VHASH_OK
    <3> QED BY <2>1, <2>2, <3>1, FindMaps
  <2>3. CASE Hits(m, k) = {}
    <3>1. Answers(m, k, VHASH_NOT_FOUND)
      BY <1>6, <2>3 DEF VHash_Get_Node
    <3> QED BY <2>1, <2>3, <3>1, VerdictMaps
  <2> QED BY <2>2, <2>3
<1>7. CopyAnswers[m] \subseteq {0, 1}
  BY AnswersAssumption DEF VHASH_OK, VHASH_ERR
<1>8. ASSUME NEW k \in Keys, AddFound(m, k) PROVE Map!PNext
  <2>1. Ready(m) /\ Hits(m, k) # {} /\ UNCHANGED <<head, item>>
    BY <1>8 DEF AddFound
  <2>2. CASE Gives(<<m, k>>, 6, Chain(m, k)[FirstHit(m, k)], << >>)
    BY <2>1, <2>2, FindMaps
  <2>3. CASE Answers(m, k, 1)
    BY <2>1, <2>3, FailureMaps
  <2>4. CASE Answers(m, k, VHASH_EXIST)
    BY <2>1, <2>4, VerdictMaps
  <2> QED BY <1>7, <1>8, <2>2, <2>3, <2>4 DEF AddFound, VHASH_OK, VHASH_UPDATE_OK
<1>9. ASSUME NEW k \in Keys, AddNew(m, k) PROVE Map!PNext
  <2>1. PICK n : Gains(m, k, n)
    BY <1>9, AddKeeps DEF Inv
  <2>2. Ready(m) /\ Hits(m, k) = {}
    BY <1>9 DEF AddNew
  <2> QED BY <2>1, <2>2, AddMaps
<1>10. ASSUME NEW k \in Keys, AddFails(m, k) PROVE Map!PNext
  <2>1. UNCHANGED <<head, item>>
    BY <1>10 DEF AddFails
  <2>2. PICK ret \in {1, 2} : Answers(m, k, ret)
    BY <1>7, <1>10 DEF AddFails, VHASH_OK, VHASH_NOT_INNIF
  <2> QED BY <2>1, <2>2, FailureMaps
<1>11. ASSUME NEW k \in Keys, VHash_Del_Node(m, k) PROVE Map!PNext
  <2>1. CASE Hits(m, k) # {}
    <3>1. DelFound(m, k)
      BY <1>11, <2>1 DEF VHash_Del_Node, DelFound
    <3>2. Loses(m, Chain(m, k)[FirstHit(m, k)])
      BY <3>1, DelKeeps DEF Inv
    <3>3. Ready(m) /\ Answers(m, k, VHASH_OK)
      BY <3>1 DEF DelFound
    <3> QED BY <2>1, <3>2, <3>3, DeleteMaps
  <2>2. CASE Hits(m, k) = {}
    <3>1. Ready(m) /\ Answers(m, k, VHASH_NOT_FOUND) /\ UNCHANGED <<head, item>>
      BY <1>11, <2>2 DEF VHash_Del_Node
    <3> QED BY <2>2, <3>1, VerdictMaps
  <2> QED BY <2>1, <2>2
<1>12. ASSUME NEW prev \in Nodes \cup {Null}, VHash_Get_NextNode(m, prev) PROVE Map!PNext
  BY <1>12, NextMaps
<1>13. CASE VHash_Node_Stat(m) \/ VHash_Node_Total(m)
  BY <1>13, StatMaps, TotalMaps
<1> QED BY <1>2, <1>3, <1>4, <1>5, <1>6, <1>8, <1>9, <1>10, <1>11, <1>12, <1>13
        DEF Call, VHash_Add_Node2

\* Every call is a step of PortMap, or leaves map and report alone.
LEMMA StepMaps == Inv /\ Inv' /\ [Next]_vars => [Map!PNext]_(Map!pvars)
<1> SUFFICES ASSUME Inv, Inv', [Next]_vars PROVE [Map!PNext]_(Map!pvars)
  OBVIOUS
<1>1. CASE VHash_Init
  <2>1. UNCHANGED <<head, item>>
    BY <1>1 DEF VHash_Init
  <2>2. PICK ret \in {0, -1} : Returns(ret)
    BY <1>1 DEF VHash_Init, VHASH_OK
  <2>3. ret \in -1..VHASH_UPDATE_OK
    BY DEF VHASH_UPDATE_OK
  <2> QED BY <2>1, <2>2, <2>3, ReportMaps
<1>2. ASSUME NEW m \in Ids, Call(m) PROVE Map!PNext
  BY <1>2, CallMaps
<1>3. ASSUME NEW v \in Vals, Store(v) PROVE Map!PNext
  BY <1>3, StoreMaps
<1>4. CASE UNCHANGED vars
  <2>1. MapDict' = MapDict
    BY <1>4, MapStays DEF vars
  <2>2. MapGot' = MapGot
    BY <1>4 DEF vars, MapGot, MapEntry, ModuleOf, NodesOf
  <2>3. UNCHANGED Map!pvars
    BY <2>1, <2>2 DEF Map!pvars, MapDict, MapGot, MapEntry
  <2> QED BY <2>3
<1> QED BY <1>1, <1>2, <1>3, <1>4 DEF Next

\* The initial states agree.
LEMMA InitMaps == Init => Map!PInit
BY DEF Init, Map!PInit, VHASH_OK

\* The hash table of vhash.c is a table of partial functions: what each call
\* reports, gives and changes is what the call of PortMap does.
THEOREM ImplementsMap == Spec => MapSpec
<1>1. Inv /\ Inv' /\ [Next]_vars => [Map!PNext]_(Map!pvars)
  BY StepMaps
<1>2. Spec => []Inv
  <2>1. IInv /\ TypeOK => Inv
    BY Types DEF Inv
  <2> QED BY <2>1, TableInvariant, TypeCorrect, PTL
<1> QED BY <1>1, <1>2, InitMaps, PTL DEF Spec, MapSpec, Map!PSpec

-----------------------------------------------------------------------------
(***************************************************************************)
(* The caller of VHashScan, for any number of chains and nodes: it misses no *)
(* node that stays, and is given none twice.                               *)
(***************************************************************************)
\* n is the i-th node of chain h.
Place(n, h, i) ==
  /\ h \in Buckets /\ i \in 1..Len(head[M].bucket[h])
  /\ head[M].bucket[h][i] = n

\* An enumeration goes through the places chain by chain.
NoFurther(n, o) ==
  \E g, h \in Buckets : \E i, j \in Nat :
    Place(n, g, i) /\ Place(o, h, j) /\ (g < h \/ (g = h /\ i <= j))
Upto(o) == {n \in NodesOf(M) : NoFurther(n, o)}
Behind(prev) == IF prev = Null THEN {} ELSE Upto(prev)

\* The nodes given are at or before the cursor, and so is none that was there
\* from the beginning and was not given.
Cursor ==
  /\ seen \subseteq NodesOf(M) /\ steady \subseteq NodesOf(M)
  /\ at \in NodesOf(M) \cup {Null}
  /\ at # Null => seen \subseteq Upto(at) /\ steady \cap Upto(at) \subseteq seen
Phase ==
  /\ scanning \in BOOLEAN
  /\ scanning => Ready(M)
  /\ ~scanning => at = Null /\ seen = {} /\ steady = {}
ScanInv == IInv /\ Phase /\ Cursor /\ NothingMissed

-----------------------------------------------------------------------------
(***************************************************************************)
(* Places.                                                                 *)
(***************************************************************************)
\* A node of the module has a place, one only, in the chain of its key.
LEMMA Places ==
  ASSUME IInv, head[M] # Null
  PROVE  /\ \A n \in NodesOf(M) : \E h \in Buckets, i \in Nat : Place(n, h, i)
         /\ \A n, h, i : Place(n, h, i) =>
              n \in NodesOf(M) /\ n \in Nodes /\ i \in Nat /\ i >= 1 /\ h = Hash[item[n].key]
         /\ \A n, g, h, i, j : Place(n, g, i) /\ Place(n, h, j) => g = h /\ i = j
         /\ Buckets \subseteq Nat
<1>1. M \in Ids /\ Shape /\ HeapIsTable /\ head[M] \in HeadType
  BY MAssumption DEF IInv, Shape
<1>2. \A h \in Buckets : /\ Len(head[M].bucket[h]) \in Nat
                         /\ DOMAIN head[M].bucket[h] = 1..Len(head[M].bucket[h])
  BY <1>1 DEF HeadType
<1>3. ASSUME NEW n \in NodesOf(M) PROVE \E h \in Buckets, i \in Nat : Place(n, h, i)
  <2>1. PICK h \in Buckets : \E i \in 1..Len(head[M].bucket[h]) : head[M].bucket[h][i] = n
    BY <1>1, NodesAreChained
  <2>2. PICK i \in 1..Len(head[M].bucket[h]) : head[M].bucket[h][i] = n
    BY <2>1
  <2>3. i \in Nat /\ Place(n, h, i)
    BY <1>2, <2>2 DEF Place
  <2> QED BY <2>3
<1>4. ASSUME NEW n, NEW h, NEW i, Place(n, h, i)
      PROVE  n \in NodesOf(M) /\ n \in Nodes /\ i \in Nat /\ i >= 1 /\ h = Hash[item[n].key]
  <2>1. h \in Buckets /\ i \in 1..Len(head[M].bucket[h]) /\ head[M].bucket[h][i] = n
    BY <1>4 DEF Place
  <2>2. n \in NodesOf(M) /\ n \in Nodes
    BY <1>1, <2>1, PlaceHasNode
  <2>3. i \in Nat /\ i >= 1 /\ i \in DOMAIN head[M].bucket[h]
    BY <1>2, <2>1
  <2>4. Hash[item[head[M].bucket[h][i]].key] = h
    BY <1>1, <2>1, <2>3 DEF HeapIsTable
  <2> QED BY <2>1, <2>2, <2>3, <2>4
<1>5. ASSUME NEW n, NEW g, NEW h, NEW i, NEW j, Place(n, g, i), Place(n, h, j)
      PROVE  g = h /\ i = j
  <2>1. g = h
    BY <1>4, <1>5
  <2>2. /\ h \in Buckets /\ i \in DOMAIN head[M].bucket[h] /\ j \in DOMAIN head[M].bucket[h]
        /\ head[M].bucket[h][i] = head[M].bucket[h][j]
    BY <1>2, <1>5, <2>1 DEF Place
  <2>3. i = j
    BY <1>1, <2>2 DEF HeapIsTable
  <2> QED BY <2>1, <2>3
<1>6. Buckets \subseteq Nat
  BY BucketsAssumption DEF Buckets
<1> QED BY <1>3, <1>4, <1>5, <1>6

\* The order of two nodes can be told from their places.
LEMMA Order ==
  ASSUME IInv, head[M] # Null, NEW n, NEW o, NEW g, NEW h, NEW i, NEW j,
         Place(n, g, i), Place(o, h, j)
  PROVE  NoFurther(n, o) <=> g < h \/ (g = h /\ i <= j)
<1>1. g \in Buckets /\ h \in Buckets
  BY DEF Place
<1>2. i \in Nat /\ j \in Nat
  BY Places
<1>3. ASSUME NoFurther(n, o) PROVE g < h \/ (g = h /\ i <= j)
  <2>1. PICK a \in Buckets, b \in Buckets, x \in Nat, y \in Nat :
          Place(n, a, x) /\ Place(o, b, y) /\ (a < b \/ (a = b /\ x <= y))
    BY <1>3 DEF NoFurther
  <2>2. a = g /\ b = h /\ x = i /\ y = j
    BY <2>1, Places
  <2> QED BY <2>1, <2>2
<1>4. ASSUME g < h \/ (g = h /\ i <= j) PROVE NoFurther(n, o)
  BY <1>1, <1>2, <1>4 DEF NoFurther
<1> QED BY <1>3, <1>4

\* So it can after a step.
OrderIsPlace ==
  \A n, o, g, h, i, j :
    Place(n, g, i) /\ Place(o, h, j) => (NoFurther(n, o) <=> g < h \/ (g = h /\ i <= j))
\* The order of the enumeration is that of places, after a step too.
LEMMA OrderLater == IInv' /\ (head[M] # Null)' => OrderIsPlace'
<1>1. IInv /\ head[M] # Null => OrderIsPlace
  BY Order DEF OrderIsPlace
<1> QED BY <1>1, PTL

\* The order of two nodes that stay is kept when the nodes behind place f of
\* chain b move up by one.
Shift(h, i, b, f) == IF h = b /\ i > f THEN i - 1 ELSE i
\* It stays where both places are shifted alike.
LEMMA OrderKept ==
  ASSUME IInv, IInv', head[M] # Null, head'[M] # Null, NEW b, NEW f \in Nat,
         NEW n \in NodesOf(M), NEW o \in NodesOf(M),
         \A x \in {n, o} : \A h, i : Place(x, h, i) =>
           Place(x, h, Shift(h, i, b, f))' /\ ~(h = b /\ i = f)
  PROVE  NoFurther(n, o)' <=> NoFurther(n, o)
<1>1. PICK g \in Buckets, i \in Nat : Place(n, g, i)
  BY Places
<1>2. PICK h \in Buckets, j \in Nat : Place(o, h, j)
  BY Places
<1>3. NoFurther(n, o) <=> g < h \/ (g = h /\ i <= j)
  BY <1>1, <1>2, Order
<1>4. /\ Place(n, g, Shift(g, i, b, f))' /\ ~(g = b /\ i = f)
      /\ Place(o, h, Shift(h, j, b, f))' /\ ~(h = b /\ j = f)
  BY <1>1, <1>2
<1>5. NoFurther(n, o)' <=> g < h \/ (g = h /\ Shift(g, i, b, f) <= Shift(h, j, b, f))
  <2> DEFINE s == Shift(g, i, b, f)
             t == Shift(h, j, b, f)
  <2> HIDE DEF s, t
  <2>1. Place(n, g, s)' /\ Place(o, h, t)'
    BY <1>4 DEF s, t
  <2>2. OrderIsPlace'
    BY OrderLater
  <2>3. NoFurther(n, o)' <=> g < h \/ (g = h /\ s <= t)
    BY <2>1, <2>2 DEF OrderIsPlace
  <2> QED BY <2>3 DEF s, t
<1>6. g = h => (Shift(g, i, b, f) <= Shift(h, j, b, f) <=> i <= j)
  BY <1>4 DEF Shift
<1> QED BY <1>3, <1>5, <1>6

-----------------------------------------------------------------------------
(***************************************************************************)
(* The cursor moves to the next place that is taken.                       *)
(***************************************************************************)
\* from is the first chain that the search for a chain with nodes looks at.
LEMMA NextChain ==
  ASSUME IInv, head[M] # Null, NEW from \in Nat,
         NEW rest, rest = {h \in Buckets : h >= from /\ head[M].bucket[h] # << >>}
  PROVE  /\ rest = {} => \A n, h, i : Place(n, h, i) => h < from
         /\ rest # {} =>
              LET low == CHOOSE h \in rest : \A g \in rest : h <= g
              IN  /\ Place(Head(head[M].bucket[low]), low, 1)
                  /\ low >= from
                  /\ \A n, h, i : Place(n, h, i) => h < from \/ low <= h
<1>1. head[M] \in HeadType
  BY MAssumption DEF IInv, Shape
<1>2. Buckets \subseteq Nat
  BY Places
<1>3. \A n, h, i : Place(n, h, i) => h \in Buckets /\ (h < from \/ h \in rest)
  <2> SUFFICES ASSUME NEW n, NEW h, NEW i, Place(n, h, i)
               PROVE  h \in Buckets /\ (h < from \/ h \in rest)
    OBVIOUS
  <2>1. h \in Buckets /\ i \in 1..Len(head[M].bucket[h])
    BY DEF Place
  <2>2. head[M].bucket[h] \in Seq(Nodes)
    BY <1>1, <2>1 DEF HeadType
  <2>3. head[M].bucket[h] # << >>
    BY <2>1, <2>2
  <2> QED BY <1>2, <2>1, <2>3
<1>4. ASSUME rest # {}, NEW low, low = CHOOSE h \in rest : \A g \in rest : h <= g
      PROVE  /\ Place(Head(head[M].bucket[low]), low, 1)
             /\ low >= from
             /\ \A n, h, i : Place(n, h, i) => h < from \/ low <= h
  <2>1. rest \in SUBSET Nat
    BY <1>2
  <2>2. \E h \in rest : \A g \in rest : h <= g
    BY <1>4, <2>1, LeastOfNats
  <2>3. low \in rest /\ \A g \in rest : low <= g
    BY <1>4, <2>2
  <2>4. low \in Buckets /\ head[M].bucket[low] # << >> /\ head[M].bucket[low] \in Seq(Nodes)
    BY <1>1, <2>3 DEF HeadType
  <2>5. 1 \in 1..Len(head[M].bucket[low]) /\ Head(head[M].bucket[low]) = head[M].bucket[low][1]
    BY <2>4, EmptySeq
  <2> QED BY <1>3, <2>3, <2>4, <2>5 DEF Place
<1>5. \A n, h, i : Place(n, h, i) => h < from \/ rest # {}
  BY <1>3
<1> QED BY <1>4, <1>5

\* What is given is not behind the cursor, and nothing lies between them.
LEMMA NextAdvances ==
  ASSUME IInv, Ready(M), NEW prev \in NodesOf(M) \cup {Null}
  PROVE  /\ NextOf(M, prev) = Null => NodesOf(M) \subseteq Behind(prev)
         /\ NextOf(M, prev) # Null =>
              /\ NextOf(M, prev) \in NodesOf(M) /\ NextOf(M, prev) \notin Behind(prev)
              /\ Upto(NextOf(M, prev)) = Behind(prev) \cup {NextOf(M, prev)}
<1> DEFINE home == Hash[item[prev].key]
           place == CHOOSE i \in DOMAIN head[M].bucket[home] : head[M].bucket[home][i] = prev
           from == IF prev = Null THEN 0 ELSE home + 1
           rest == {h \in Buckets : h >= from /\ head[M].bucket[h] # << >>}
           low == CHOOSE h \in rest : \A g \in rest : h <= g
           next == NextOf(M, prev)
<1>1. head[M] # Null /\ head[M] \in HeadType /\ Null \notin Nodes /\ M \in Ids
  BY MAssumption, NodesAssumption DEF IInv, Shape, Ready, HasTable
<1>2. \A n \in NodesOf(M) : \E h \in Buckets, i \in Nat : Place(n, h, i)
  BY <1>1, Places
<1>3. \A n, h, i : Place(n, h, i) => n \in NodesOf(M) /\ n # Null
  BY <1>1, Places
<1>4. prev # Null => Place(prev, home, place) /\ home \in Nat /\ place \in Nat
  <2> SUFFICES ASSUME prev # Null PROVE Place(prev, home, place) /\ home \in Nat /\ place \in Nat
    OBVIOUS
  <2>1. PICK h \in Buckets, i \in Nat : Place(prev, h, i)
    BY <1>2
  <2>2. h = home
    BY <1>1, <2>1, Places
  <2>3. head[M].bucket[h] \in Seq(Nodes)
    BY <1>1, <2>1 DEF HeadType
  <2>4. i \in DOMAIN head[M].bucket[h] /\ head[M].bucket[h][i] = prev
    BY <2>1, <2>3 DEF Place
  <2>5. place \in DOMAIN head[M].bucket[home] /\ head[M].bucket[home][place] = prev
    BY <2>2, <2>4
  <2> HIDE DEF home, place
  <2>6. Place(prev, home, place)
    <3>1. h \in Buckets /\ head[M].bucket[home] \in Seq(Nodes)
      BY <2>1, <2>2, <2>3 DEF Place
    <3>2. place \in 1..Len(head[M].bucket[home])
      BY <2>5, <3>1
    <3> QED BY <2>2, <2>5, <3>1, <3>2 DEF Place
  <2> QED BY <1>1, <2>1, <2>2, <2>6, Places
<1>5. next = IF prev # Null /\ place < Len(head[M].bucket[home])
             THEN head[M].bucket[home][place + 1]
             ELSE IF rest = {} THEN Null ELSE Head(head[M].bucket[low])
  BY DEF NextOf
<1>6. \A n, g, i : Place(n, g, i) =>
        /\ i \in Nat /\ g \in Nat
        /\ n \in Behind(prev) <=> prev # Null /\ (g < home \/ (g = home /\ i <= place))
  <2> SUFFICES ASSUME NEW n, NEW g, NEW i, Place(n, g, i)
               PROVE  /\ i \in Nat /\ g \in Nat
                      /\ n \in Behind(prev) <=>
                           prev # Null /\ (g < home \/ (g = home /\ i <= place))
    OBVIOUS
  <2>1. i \in Nat /\ g \in Nat /\ n \in NodesOf(M)
    BY <1>1, Places DEF Place
  <2> HIDE DEF home, place
  <2>2. prev # Null => (NoFurther(n, prev) <=> g < home \/ (g = home /\ i <= place))
    BY <1>1, <1>4, Order
  <2> QED BY <2>1, <2>2 DEF Behind, Upto
<1>7. from \in Nat /\ (prev # Null => from = home + 1)
  <2> HIDE DEF home, place
  <2>1. prev # Null => home \in Nat
    BY <1>4
  <2> QED BY ONLY <2>1
<1>8. /\ rest = {} => \A n, h, i : Place(n, h, i) => h < from
      /\ rest # {} => /\ Place(Head(head[M].bucket[low]), low, 1) /\ low >= from
                      /\ \A n, h, i : Place(n, h, i) => h < from \/ low <= h
  <2> HIDE DEF from
  <2> QED BY <1>1, <1>7, NextChain
<1>9. prev = Null => from = 0
  OBVIOUS
<1> HIDE DEF home, place, from, rest, low, next
<1>10. ASSUME NEW h, NEW i, Place(next, h, i),
              prev = Null \/ h > home \/ (h = home /\ i > place),
              \A n, g, j : Place(n, g, j) =>
                (g < h \/ (g = h /\ j <= i) <=> n = next \/ n \in Behind(prev))
       PROVE  /\ next # Null /\ next \in NodesOf(M) /\ next \notin Behind(prev)
              /\ Upto(next) = Behind(prev) \cup {next}
  <2>1. next # Null /\ next \in NodesOf(M)
    BY <1>3, <1>10
  <2>2. next \notin Behind(prev)
    <3>1. next \in Behind(prev) <=> prev # Null /\ (h < home \/ (h = home /\ i <= place))
      BY <1>6, <1>10
    <3>2. i \in Nat /\ h \in Nat
      BY <1>6, <1>10
    <3> QED BY <1>4, <1>10, <3>1, <3>2
  <2>3. ASSUME NEW n \in NodesOf(M) PROVE n \in Upto(next) <=> n = next \/ n \in Behind(prev)
    <3>1. PICK g \in Buckets, j \in Nat : Place(n, g, j)
      BY <1>2
    <3>2. NoFurther(n, next) <=> g < h \/ (g = h /\ j <= i)
      BY <1>1, <1>10, <3>1, Order
    <3> QED BY <1>10, <3>1, <3>2 DEF Upto
  <2>4. Behind(prev) \subseteq NodesOf(M) /\ Upto(next) \subseteq NodesOf(M)
    BY DEF Behind, Upto
  <2> QED BY <2>1, <2>2, <2>3, <2>4
<1>11. CASE prev # Null /\ place < Len(head[M].bucket[home])
  <2>1. next = head[M].bucket[home][place + 1]
    BY <1>5, <1>11
  <2>2. home \in Buckets /\ head[M].bucket[home] \in Seq(Nodes)
    BY <1>1, <1>4, <1>11 DEF HeadType, Place
  <2>3. Place(next, home, place + 1)
    BY <1>4, <1>11, <2>1, <2>2 DEF Place
  <2>4. ASSUME NEW n, NEW g, NEW j, Place(n, g, j)
        PROVE  g < home \/ (g = home /\ j <= place + 1) <=> n = next \/ n \in Behind(prev)
    <3>1. n = next => g = home /\ j = place + 1
      BY <1>1, <2>3, <2>4, Places
    <3>2. g = home /\ j = place + 1 => n = next
      BY <2>3, <2>4 DEF Place
    <3>3. /\ j \in Nat /\ g \in Nat
          /\ n \in Behind(prev) <=> prev # Null /\ (g < home \/ (g = home /\ j <= place))
      BY <1>6, <2>4
    <3> QED BY <1>4, <1>11, <3>1, <3>2, <3>3
  <2>5. place + 1 > place
    BY <1>4, <1>11
  <2> QED BY <1>10, <2>3, <2>4, <2>5 DEF next
<1>12. CASE ~(prev # Null /\ place < Len(head[M].bucket[home])) /\ rest # {}
  <2>1. next = Head(head[M].bucket[low]) /\ Place(next, low, 1) /\ low >= from
    BY <1>5, <1>8, <1>12
  <2>2. low \in Nat
    BY <1>6, <2>1
  <2>3. prev = Null \/ low > home
    BY <1>4, <1>7, <2>1, <2>2
  <2>4. ASSUME NEW n, NEW g, NEW j, Place(n, g, j)
        PROVE  g < low \/ (g = low /\ j <= 1) <=> n = next \/ n \in Behind(prev)
    <3>1. /\ n = next => g = low /\ j = 1
          /\ g = low /\ j = 1 => n = next
          /\ j >= 1
      <4>1. n = next => g = low /\ j = 1
        BY <1>1, <2>1, <2>4, Places
      <4>2. g = low /\ j = 1 => n = next
        BY <2>1, <2>4 DEF Place
      <4> QED BY <1>1, <2>4, <4>1, <4>2, Places
    <3>2. /\ j \in Nat /\ g \in Nat
          /\ n \in Behind(prev) <=> prev # Null /\ (g < home \/ (g = home /\ j <= place))
      BY <1>6, <2>4
    <3>3. g < from \/ low <= g
      BY <1>8, <1>12, <2>4
    <3>4. prev # Null /\ g = home => j <= place
      BY <1>4, <1>12, <2>4, <1>1 DEF Place, HeadType
    <3> QED BY <1>4, <1>7, <1>9, <2>2, <2>3, <3>1, <3>2, <3>3, <3>4
  <2> QED BY <1>10, <2>1, <2>3, <2>4 DEF next
<1>13. CASE ~(prev # Null /\ place < Len(head[M].bucket[home])) /\ rest = {}
  <2>1. next = Null
    BY <1>5, <1>13
  <2>2. ASSUME NEW n \in NodesOf(M) PROVE n \in Behind(prev)
    <3>1. PICK g \in Buckets, j \in Nat : Place(n, g, j)
      BY <1>2
    <3>2. /\ g \in Nat
          /\ n \in Behind(prev) <=> prev # Null /\ (g < home \/ (g = home /\ j <= place))
      BY <1>6, <3>1
    <3>3. g < from
      BY <1>8, <1>13, <3>1
    <3>4. prev # Null /\ g = home => j <= place
      BY <1>1, <1>4, <1>13, <3>1 DEF Place, HeadType
    <3> QED BY <1>4, <1>7, <1>9, <3>1, <3>2, <3>3, <3>4
  <2> QED BY <2>1, <2>2 DEF next
<1> QED BY <1>11, <1>12, <1>13 DEF next

-----------------------------------------------------------------------------
(***************************************************************************)
(* Nodes that come and go do not change the order of those that stay.      *)
(***************************************************************************)
OrderStays(nodes) == \A n, o \in nodes : NoFurther(n, o)' <=> NoFurther(n, o)

\* An addition, at the end of a chain, keeps the order of what is there.
LEMMA AddKeepsOrder ==
  ASSUME IInv, NEW k \in Keys, AddNew(M, k)
  PROVE  OrderStays(NodesOf(M))
<1> DEFINE b == Hash[k]
<1>1. M \in Ids /\ head[M] # Null /\ head[M] \in HeadType /\ DOMAIN head = Ids /\ b \in Buckets
  BY MAssumption, BucketsAssumption DEF AddNew, Ready, HasTable, IInv, Shape
<1>2. IInv' /\ head'[M] # Null
  BY <1>1, AddKeeps DEF Gains
<1> HIDE DEF b
<1>3. PICK x \in Free :
        head' = [head EXCEPT ![M].bucket[b] = Append(@, x), ![M].sum[b] = @ + 1, ![M].total = @ + 1]
  BY DEF AddNew, b
<1>4. x \in Nodes
  BY DEF Free
<1>5. /\ \A h \in Buckets \ {b} : head'[M].bucket[h] = head[M].bucket[h]
      /\ head'[M].bucket[b] = Append(head[M].bucket[b], x)
  BY <1>1, <1>3 DEF HeadType
<1>6. ASSUME NEW n, NEW h, NEW i, Place(n, h, i)
      PROVE  Place(n, h, i)' /\ h # -1
  <2>1. h \in Buckets /\ head[M].bucket[h] \in Seq(Nodes) /\ h # -1
    <3>1. h \in Buckets
      BY <1>6 DEF Place
    <3>2. h # -1
      BY <3>1, BucketsAssumption DEF Buckets
    <3>3. head[M].bucket[h] \in Seq(Nodes)
      BY <1>1, <3>1 DEF HeadType
    <3> QED BY <3>1, <3>2, <3>3
  <2>2. i \in 1..Len(head[M].bucket[h]) /\ head[M].bucket[h][i] = n
    BY <1>6 DEF Place
  <2>3. i \in 1..Len(head'[M].bucket[h]) /\ head'[M].bucket[h][i] = n
    <3>1. CASE h # b
      <4>1. head'[M].bucket[h] = head[M].bucket[h]
        BY <1>5, <2>1, <3>1
      <4> QED BY ONLY <2>2, <4>1
    <3>2. CASE h = b
      <4>1. head'[M].bucket[h] = Append(head[M].bucket[h], x)
        BY ONLY <1>5, <3>2
      <4> QED BY ONLY <1>4, <2>1, <2>2, <4>1, AppendProperties
    <3> QED BY <3>1, <3>2
  <2> QED BY <2>1, <2>3 DEF Place
<1>7. ASSUME NEW n \in NodesOf(M), NEW o \in NodesOf(M)
      PROVE  NoFurther(n, o)' <=> NoFurther(n, o)
  <2>1. ASSUME NEW y \in {n, o}, NEW h, NEW i, Place(y, h, i)
        PROVE  Place(y, h, Shift(h, i, -1, 0))' /\ ~(h = -1 /\ i = 0)
    <3>1. Shift(h, i, -1, 0) = i
      BY <1>6, <2>1 DEF Shift
    <3> QED BY <1>6, <2>1, <3>1
  <2> QED BY <1>1, <1>2, <2>1, OrderKept
<1> QED BY <1>7 DEF OrderStays

\* A deletion keeps the order of what stays.
LEMMA DelKeepsOrder ==
  ASSUME IInv, NEW k \in Keys, DelFound(M, k)
  PROVE  OrderStays(NodesOf(M) \ {Chain(M, k)[FirstHit(M, k)]})
<1>0. PICK b, f : b = Hash[k] /\ f = FirstHit(M, k)
  OBVIOUS
<1> DEFINE c == head[M].bucket[b]
           short == RemoveAt(c, f)
<1>1. /\ M \in Ids /\ head[M] # Null /\ head[M] \in HeadType /\ DOMAIN head = Ids
      /\ b \in Buckets /\ c \in Seq(Nodes)
  BY <1>0, MAssumption, BucketsAssumption DEF DelFound, Ready, HasTable, IInv, Shape, HeadType
<1>2. IInv' /\ head'[M] # Null
  BY <1>1, DelKeeps DEF Loses
<1>3. f \in 1..Len(c)
  BY <1>1, <1>0, SearchFinds DEF DelFound, Chain
<1>4. /\ head' = [head EXCEPT ![M].bucket[b] = short, ![M].sum[b] = @ - 1, ![M].total = @ - 1]
      /\ Chain(M, k)[FirstHit(M, k)] = c[f]
  BY <1>1, <1>0 DEF DelFound, Chain, HeadType
<1>5. c = head[M].bucket[b]
  OBVIOUS
<1> HIDE DEF c
<1>6. /\ \A h \in Buckets \ {b} : head'[M].bucket[h] = head[M].bucket[h]
      /\ head'[M].bucket[b] = short
  BY <1>1, <1>4 DEF HeadType
<1>7. /\ short \in Seq(Nodes) /\ Len(short) = Len(c) - 1 /\ Len(c) \in Nat
      /\ \A j \in 1..(Len(c) - 1) : short[j] = IF j < f THEN c[j] ELSE c[j + 1]
  <2>1. c \in Seq(Nodes) /\ f \in 1..Len(c)
    BY <1>1, <1>3
  <2>2. Len(c) \in Nat
    BY <2>1
  <2> QED BY ONLY <2>1, <2>2, RemoveAtProperties, Zenon
<1> HIDE DEF short
<1>8. ASSUME NEW n, n # c[f], NEW h, NEW i, Place(n, h, i)
      PROVE  Place(n, h, Shift(h, i, b, f))' /\ ~(h = b /\ i = f)
  <2>1. h \in Buckets /\ i \in 1..Len(head[M].bucket[h]) /\ head[M].bucket[h][i] = n
    BY <1>8 DEF Place
  <2>2. ~(h = b /\ i = f)
    BY <1>5, <1>8, <2>1
  <2>3. CASE h = b
    <3>1. i \in 1..Len(c) /\ c[i] = n /\ i # f
      BY <1>5, <2>1, <2>2, <2>3
    <3>2. CASE i > f
      <4>1. i - 1 \in 1..(Len(c) - 1) /\ short[i - 1] = c[i] /\ Shift(h, i, b, f) = i - 1
        BY <1>3, <1>7, <2>3, <3>1, <3>2 DEF Shift
      <4> QED BY <1>6, <1>7, <2>1, <2>2, <2>3, <3>1, <4>1 DEF Place
    <3>3. CASE ~(i > f)
      <4>1. i \in 1..(Len(c) - 1) /\ short[i] = c[i] /\ Shift(h, i, b, f) = i
        BY <1>3, <1>7, <3>1, <3>3 DEF Shift
      <4> QED BY <1>6, <1>7, <2>1, <2>2, <2>3, <3>1, <4>1 DEF Place
    <3> QED BY <3>2, <3>3
  <2>4. CASE h # b
    <3>1. Shift(h, i, b, f) = i
      BY <2>4 DEF Shift
    <3> QED BY <1>6, <2>1, <2>2, <2>4, <3>1 DEF Place
  <2> QED BY <2>3, <2>4
<1>9. ASSUME NEW n \in NodesOf(M) \ {c[f]}, NEW o \in NodesOf(M) \ {c[f]}
      PROVE  NoFurther(n, o)' <=> NoFurther(n, o)
  <2>1. f \in Nat
    BY <1>3, <1>7
  <2>2. \A y \in {n, o} : \A h, i : Place(y, h, i) =>
          Place(y, h, Shift(h, i, b, f))' /\ ~(h = b /\ i = f)
    BY <1>8
  <2>3. n \in NodesOf(M) /\ o \in NodesOf(M)
    OBVIOUS
  <2> QED BY ONLY IInv, <1>1, <1>2, <2>1, <2>2, <2>3, OrderKept
<1> QED BY <1>4, <1>9 DEF OrderStays


-----------------------------------------------------------------------------
(***************************************************************************)
(* The invariant.                                                          *)
(***************************************************************************)
StayingStay ==
  \A n, o \in NodesOf(M) :
    n \in NodesOf(M)' /\ o \in NodesOf(M)' => (NoFurther(n, o)' <=> NoFurther(n, o))

\* What the module's flag and size are, and the order, when no chain changes.
LEMMA SameOrder ==
  ASSUME UNCHANGED head, NEW nodes
  PROVE  OrderStays(nodes) /\ StayingStay /\ NodesOf(M)' = NodesOf(M)
BY DEF OrderStays, StayingStay, NoFurther, Place, NodesOf

\* Neither makes or removes the module or its callbacks.
LEMMA StaysComplete ==
  ASSUME IInv, NEW k \in Keys, AddNew(M, k) \/ DelFound(M, k)
  PROVE  head'[M].complete = head[M].complete /\ max' = max /\ head[M] # Null
<1>1. M \in Ids /\ head[M] # Null /\ head[M] \in HeadType /\ DOMAIN head = Ids
  BY MAssumption DEF AddNew, DelFound, Ready, HasTable, IInv, Shape
<1>2. ASSUME AddNew(M, k) PROVE head'[M].complete = head[M].complete
  <2>1. PICK n : head' = [head EXCEPT ![M].bucket[Hash[k]] = Append(@, n),
                                      ![M].sum[Hash[k]] = @ + 1, ![M].total = @ + 1]
    BY <1>2 DEF AddNew
  <2> QED BY <1>1, <2>1 DEF HeadType
<1>3. ASSUME DelFound(M, k) PROVE head'[M].complete = head[M].complete
  <2>1. head' = [head EXCEPT ![M].bucket[Hash[k]] = RemoveAt(@, FirstHit(M, k)),
                             ![M].sum[Hash[k]] = @ - 1, ![M].total = @ - 1]
    BY <1>3 DEF DelFound
  <2> QED BY <1>1, <2>1 DEF HeadType
<1>4. max' = max
  BY DEF AddNew, DelFound
<1> QED BY <1>1, <1>2, <1>3, <1>4

\* The other calls keep the order of the nodes, and the node the cursor is at.
LEMMA MeanwhileStays ==
  ASSUME ScanInv, Meanwhile
  PROVE  /\ IInv' /\ Phase'
         /\ StayingStay
         /\ at \in NodesOf(M)' \cup {Null}
         /\ steady' = steady \cap NodesOf(M)' /\ seen' = seen \cap NodesOf(M)'
<1>1. M \in Ids /\ IInv /\ Phase /\ Cursor
  BY MAssumption DEF ScanInv
<1>2. UNCHANGED <<scanning, at>>
  BY DEF Meanwhile
<1>3. steady' = steady \cap NodesOf(M)' /\ seen' = seen \cap NodesOf(M)'
  BY DEF Meanwhile, NodesAfter, NodesOf
<1>4. IInv'
  <2>1. Next
    BY <1>1 DEF Meanwhile, Next, Call
  <2> QED BY <1>1, <2>1, StepKeeps
<1>5. at = Null /\ ~scanning => Phase'
  BY <1>1, <1>2, <1>3 DEF Phase
<1>6. (scanning => Ready(M)') /\ (at # Null => scanning) => Phase'
  BY <1>1, <1>2, <1>3 DEF Phase
<1>7. at # Null => scanning
  BY <1>1 DEF Phase
<1>8. CASE UNCHANGED <<max, head>>
  <2>1. scanning => Ready(M)'
    BY <1>1, <1>8 DEF Phase, Ready, HasTable, InRange
  <2> QED BY <1>1, <1>3, <1>4, <1>6, <1>7, <1>8, <2>1, SameOrder DEF Cursor
<1>9. CASE VHash_Init
  <2>1. max = 0 /\ UNCHANGED head
    BY <1>9 DEF VHash_Init
  <2>2. ~scanning
    BY <1>1, <2>1, IdsAssumption DEF Phase, Ready, HasTable, InRange
  <2> QED BY <1>1, <1>3, <1>4, <1>5, <1>7, <2>1, <2>2, SameOrder DEF Cursor
<1>10. CASE VHash_Create_Moudle(M, TRUE)
  <2>1. UNCHANGED <<max, head>> \/ head[M] = Null
    BY <1>10 DEF VHash_Create_Moudle, HasTable
  <2>2. CASE head[M] = Null
    <3>1. ~scanning /\ NodesOf(M) = {}
      BY <1>1, <2>2 DEF Phase, Ready, HasTable, NodesOf
    <3>2. StayingStay
      BY <3>1 DEF StayingStay
    <3> QED BY <1>3, <1>4, <1>5, <1>7, <3>1, <3>2
  <2> QED BY <1>8, <2>1, <2>2
<1>11. ASSUME NEW k \in Keys, AddNew(M, k) \/ DelFound(M, k),
              NEW d, at # Null => at # d, OrderStays(NodesOf(M) \ {d}),
              NodesOf(M) \ {d} \subseteq NodesOf(M)', head'[M] # Null,
              d \notin NodesOf(M)'
       PROVE  Phase' /\ StayingStay /\ at \in NodesOf(M)' \cup {Null}
  <2>1. head'[M].complete = head[M].complete /\ max' = max
    BY <1>1, <1>11, StaysComplete
  <2>2. scanning => Ready(M)'
    BY <1>1, <1>11, <2>1 DEF Phase, Ready, HasTable, InRange
  <2>3. StayingStay
    BY <1>11 DEF OrderStays, StayingStay
  <2>4. at \in NodesOf(M)' \cup {Null}
    BY <1>1, <1>11 DEF Cursor
  <2> QED BY <1>6, <1>7, <2>2, <2>3, <2>4
<1>12. ASSUME NEW k \in Keys, VHash_Add_Node2(M, k)
       PROVE  Phase' /\ StayingStay /\ at \in NodesOf(M)' \cup {Null}
  <2>1. CASE AddNew(M, k)
    <3>1. PICK n : Gains(M, k, n)
      BY <1>1, <2>1, AddKeeps
    <3>2. NodesOf(M)' = NodesOf(M) \cup {n} /\ head'[M] # Null
      BY <3>1 DEF Gains
    <3>3. OrderStays(NodesOf(M))
      BY <1>1, <2>1, AddKeepsOrder
    <3>4. head'[M].complete = head[M].complete /\ max' = max
      BY <1>1, <2>1, StaysComplete
    <3>5. scanning => Ready(M)'
      BY <1>1, <3>2, <3>4 DEF Phase, Ready, HasTable, InRange
    <3> QED BY <1>1, <1>6, <1>7, <3>2, <3>3, <3>5 DEF OrderStays, StayingStay, Cursor
  <2> QED BY <1>8, <1>12, <2>1 DEF VHash_Add_Node2, AddFound, AddFails
<1>13. ASSUME NEW k \in Keys, at # Null => k # item[at].key, VHash_Del_Node(M, k)
       PROVE  Phase' /\ StayingStay /\ at \in NodesOf(M)' \cup {Null}
  <2>1. CASE DelFound(M, k)
    <3>1. PICK d : d = Chain(M, k)[FirstHit(M, k)]
      OBVIOUS
    <3>2. item[d].key = k
      BY <1>1, <2>1, <3>1, SearchFinds DEF DelFound
    <3>3. NodesOf(M)' = NodesOf(M) \ {d} /\ head'[M] # Null
      BY <1>1, <2>1, <3>1, DelKeeps DEF Loses
    <3>4. OrderStays(NodesOf(M) \ {d})
      BY <1>1, <2>1, <3>1, DelKeepsOrder
    <3> QED BY <1>11, <1>13, <2>1, <3>2, <3>3, <3>4
  <2>2. UNCHANGED <<max, head>> \/ DelFound(M, k)
    BY <1>13 DEF VHash_Del_Node, DelFound
  <2> QED BY <1>8, <2>1, <2>2
<1> QED BY <1>3, <1>4, <1>9, <1>10, <1>12, <1>13 DEF Meanwhile

\* Where the cursor is, in terms of a node that does not change in the step.
AtIs == \A a : at = a => Upto(at) = Upto(a)
\* Where the cursor is, after a step.
LEMMA AtLater == AtIs'
<1>1. AtIs
  BY DEF AtIs
<1> QED BY <1>1, PTL

\* What lies before the cursor stays there, and stays given.
LEMMA CursorStays ==
  ASSUME ScanInv, Phase', StayingStay,
         at \in NodesOf(M)' \cup {Null},
         steady' = steady \cap NodesOf(M)', seen' = seen \cap NodesOf(M)',
         UNCHANGED <<scanning, at>>
  PROVE  Cursor' /\ NothingMissed'
<1>1. PICK a : at = a /\ at' = a
  OBVIOUS
<1>2. Upto(at) = Upto(a) /\ Upto(at)' = Upto(a)'
  BY <1>1, AtLater DEF AtIs
<1>3. \A n \in NodesOf(M) \cap NodesOf(M)' :
        a # Null => (n \in Upto(a)' <=> n \in Upto(a))
  <2> SUFFICES ASSUME a # Null, NEW n \in NodesOf(M) \cap NodesOf(M)'
               PROVE  n \in Upto(a)' <=> n \in Upto(a)
    OBVIOUS
  <2>1. a \in NodesOf(M) \cap NodesOf(M)'
    BY <1>1 DEF ScanInv, Cursor
  <2>2. NoFurther(n, a)' <=> NoFurther(n, a)
    BY <2>1 DEF StayingStay
  <2> QED BY <2>2 DEF Upto
<1>4. seen \subseteq NodesOf(M) /\ steady \subseteq NodesOf(M)
  BY DEF ScanInv, Cursor
<1>5. a # Null => seen \subseteq Upto(a) /\ steady \cap Upto(a) \subseteq seen
  BY <1>1, <1>2 DEF ScanInv, Cursor
<1>6. a # Null => seen' \subseteq Upto(a)' /\ steady' \cap Upto(a)' \subseteq seen'
  BY <1>3, <1>4, <1>5
<1>7. Cursor'
  BY <1>1, <1>2, <1>4, <1>6 DEF Cursor
<1>8. NothingMissed'
  BY <1>4 DEF ScanInv, NothingMissed, Over
<1> QED BY <1>7, <1>8

\* A call of the enumeration's own moves the cursor to the next node.
LEMMA Advances ==
  ASSUME IInv, Ready(M), NEW prev \in NodesOf(M) \cup {Null},
         VHash_Get_NextNode(M, prev), at' = res'.node
  PROVE  /\ at' = NextOf(M, prev) /\ UNCHANGED <<max, head, item>>
         /\ NodesOf(M)' = NodesOf(M)
         /\ Upto(at)' = Upto(NextOf(M, prev))
         /\ IInv' /\ Ready(M)'
<1>1. at' = NextOf(M, prev) /\ UNCHANGED <<max, head, item>>
  BY DEF VHash_Get_NextNode, Gives
<1>2. NodesOf(M)' = NodesOf(M) /\ Ready(M)'
  BY <1>1 DEF NodesOf, Ready, HasTable, InRange
<1>3. PICK a : a = NextOf(M, prev)
  OBVIOUS
<1>4. Upto(at)' = Upto(a)'
  BY <1>1, <1>3, AtLater DEF AtIs
<1>5. OrderStays(NodesOf(M)) /\ (a # Null => a \in NodesOf(M))
  BY <1>1, <1>3, SameOrder, NextAdvances
<1>6. Upto(a)' = Upto(a)
  BY <1>1, <1>2 DEF Upto, NoFurther, Place
<1>7. IInv'
  <2>1. Next
    BY MAssumption DEF Next, Call, IInv, Shape, HeapIsTable
  <2> QED BY <2>1, StepKeeps
<1> QED BY <1>1, <1>2, <1>3, <1>4, <1>6, <1>7


\* The invariant holds before an enumeration.
LEMMA ScanBegins == ScanInit => ScanInv
<1> SUFFICES ASSUME ScanInit PROVE ScanInv
  OBVIOUS
<1>1. IInv
  BY Begins DEF ScanInit
<1> QED BY <1>1 DEF ScanInit, ScanInv, Phase, Cursor, NothingMissed

\* Every step keeps the invariant, and none of an enumeration's own gives a
\* node again.
LEMMA ScanStep == ScanInv /\ [ScanNext]_scanvars => ScanInv' /\ (Continue => at' \notin seen)
<1> SUFFICES ASSUME ScanInv, [ScanNext]_scanvars
             PROVE  ScanInv' /\ (Continue => at' \notin seen)
  OBVIOUS
<1>1. IInv /\ Phase /\ Cursor /\ M \in Ids /\ Null \notin Nodes /\ NodesOf(M) \subseteq Nodes
  BY MAssumption, NodesAssumption DEF ScanInv, IInv, HeapIsTable, Shape
<1>2. CASE Begin
  <2>1. Ready(M) /\ VHash_Get_NextNode(M, Null) /\ at' = res'.node /\ ~scanning
    BY <1>2 DEF Begin, VHash_Get_NextNode
  <2>2. /\ at' = NextOf(M, Null) /\ NodesOf(M)' = NodesOf(M)
        /\ Upto(at)' = Upto(NextOf(M, Null)) /\ IInv' /\ Ready(M)'
    BY <1>1, <2>1, Advances
  <2>3. /\ at' = Null => NodesOf(M) = {}
        /\ at' # Null => at' \in NodesOf(M) /\ Upto(at)' = {at'}
    BY <1>1, <2>1, <2>2, NextAdvances DEF Behind
  <2>4. steady' = NodesOf(M) /\ seen' = {at'} \ {Null} /\ scanning' = TRUE
    BY <1>2 DEF Begin
  <2>5. Phase' /\ Cursor'
    BY <2>2, <2>3, <2>4 DEF Phase, Cursor
  <2>6. NothingMissed'
    BY <2>3, <2>4 DEF NothingMissed, Over
  <2>7. at' \notin seen
    BY <1>1, <2>1, <2>3 DEF Phase
  <2> QED BY <2>2, <2>5, <2>6, <2>7 DEF ScanInv
<1>3. CASE Continue
  <2>1. /\ scanning /\ at # Null /\ Ready(M) /\ at \in NodesOf(M)
        /\ VHash_Get_NextNode(M, at) /\ at' = res'.node
    BY <1>1, <1>3 DEF Continue, Over, Phase, Cursor
  <2>2. /\ at' = NextOf(M, at) /\ NodesOf(M)' = NodesOf(M)
        /\ Upto(at)' = Upto(NextOf(M, at)) /\ IInv' /\ Ready(M)'
    BY <1>1, <2>1, Advances
  <2>3. /\ at' = Null => NodesOf(M) \subseteq Upto(at)
        /\ at' # Null => /\ at' \in NodesOf(M) /\ at' \notin Upto(at)
                         /\ Upto(at)' = Upto(at) \cup {at'}
    BY <1>1, <2>1, <2>2, NextAdvances DEF Behind
  <2>4. /\ seen' = seen \cup ({at'} \ {Null}) /\ steady' = steady
        /\ scanning' = scanning
    BY <1>3 DEF Continue
  <2>5. /\ seen \subseteq Upto(at) /\ steady \cap Upto(at) \subseteq seen
        /\ seen \subseteq NodesOf(M) /\ steady \subseteq NodesOf(M) /\ scanning \in BOOLEAN
    BY <1>1, <2>1 DEF Cursor, Phase
  <2>6. Phase'
    BY <2>1, <2>2, <2>4, <2>5 DEF Phase
  <2>7. Cursor'
    <3>1. at' \in NodesOf(M) \cup {Null}
      BY <2>3
    <3>2. seen' \subseteq NodesOf(M) /\ steady' \subseteq NodesOf(M)
      BY <2>3, <2>4, <2>5
    <3>3. at' # Null => seen' \subseteq Upto(at)' /\ steady' \cap Upto(at)' \subseteq seen'
      BY <2>3, <2>4, <2>5
    <3> QED BY <2>2, <3>1, <3>2, <3>3 DEF Cursor
  <2>8. NothingMissed'
    BY <2>3, <2>4, <2>5 DEF NothingMissed, Over
  <2>9. at' \notin seen
    BY <1>1, <2>3, <2>5
  <2> QED BY <2>2, <2>6, <2>7, <2>8, <2>9 DEF ScanInv
<1>4. CASE End
  <2>1. UNCHANGED vars /\ ~scanning' /\ scanning' \in BOOLEAN
        /\ at' = Null /\ seen' = {} /\ steady' = {}
    BY <1>4 DEF End
  <2>2. IInv'
    BY <1>1, <2>1, StepKeeps
  <2>3. at' \notin seen
    BY <1>1, <2>1 DEF Cursor
  <2> QED BY <2>1, <2>2, <2>3 DEF ScanInv, Phase, Cursor, NothingMissed
<1>5. CASE Meanwhile
  <2>1. ScanInv'
    BY <1>5, MeanwhileStays, CursorStays DEF ScanInv, Meanwhile
  <2>2. at' = at
    BY <1>5 DEF Meanwhile
  <2>3. ASSUME Continue PROVE at' \notin seen
    BY <1>3, <2>3
  <2> QED BY <2>1, <2>3
<1>6. CASE UNCHANGED scanvars
  <2>1. UNCHANGED <<vars, scanning, at, steady, seen, head>> /\ NodesOf(M)' = NodesOf(M)
    BY <1>6 DEF scanvars, vars, NodesOf
  <2>2. IInv'
    BY <1>1, <2>1, StepKeeps
  <2>3. Phase'
    BY <1>1, <2>1 DEF Phase, Ready, HasTable, InRange, vars
  <2>4. StayingStay
    BY <2>1, SameOrder
  <2>5. Cursor' /\ NothingMissed'
    <3>1. at \in NodesOf(M) \cup {Null} /\ steady \subseteq NodesOf(M) /\ seen \subseteq NodesOf(M)
      BY <1>1 DEF Cursor
    <3> QED BY <2>1, <2>3, <2>4, <3>1, CursorStays
  <2>6. ASSUME Continue PROVE at' \notin seen
    BY <1>3, <2>6
  <2> QED BY <2>2, <2>3, <2>5, <2>6 DEF ScanInv
<1> QED BY <1>2, <1>3, <1>4, <1>5, <1>6 DEF ScanNext

\* Between any two calls of VHash_Get_Next_Node by the enumerating caller, what
\* has been given is what lies before its pointer.
THEOREM ScanInvariant == ScanSpec => []ScanInv
BY ScanBegins, ScanStep, PTL DEF ScanSpec

\* An enumeration that is over has given every node that was in the module
\* from its beginning to its end, whatever was added and deleted between its
\* calls.
THEOREM MissesNothing == ScanSpec => []NothingMissed
<1>1. ScanInv => NothingMissed
  BY DEF ScanInv
<1> QED BY <1>1, ScanInvariant, PTL

\* It gives no node twice.
THEOREM RepeatsNothing == ScanSpec => NothingTwice
<1>1. ScanInv /\ [ScanNext]_scanvars => [Continue => at' \notin seen]_scanvars
  BY ScanStep
<1> QED BY <1>1, ScanInvariant, PTL DEF ScanSpec, NothingTwice

-----------------------------------------------------------------------------
(***************************************************************************)
(* The wrappers of port_vhash.c, for any keys, hash function and calls of the *)
(* other modules: each is a call of the hash table, so that what is proved *)
(* of VHash holds of it; and what its caller may conclude from the code and *)
(* from the pointer.                                                       *)
(***************************************************************************)
\* A table of en_PORT has its callbacks and is within range: a call is refused
\* only where there is nothing.
Usable == head[en_PORT] # Null => Ready(en_PORT)

\* Where the code said that there is an entry, the pointer is the node that
\* the table gave with it.
PointerOfCode == told => pstVhashItem = res.node /\ res.node # Null

TableInv == IInv /\ Usable
PortInv == TableInv /\ PointerOfCode /\ ToldRight

\* The callbacks of port_vhash.c always agree.
LEMMA Callbacks ==
  /\ en_PORT \in Ids
  /\ FALSE \notin UpdateAnswers[en_PORT] /\ TRUE \in UpdateAnswers[en_PORT]
  /\ CopyAnswers[en_PORT] = {VHASH_OK}
<1>1. stvhm.IsUpdate = VHASH_OK
  BY DEF stvhm, PORT_VHash_IsUpdate
<1>2. stvhm.cpy = VHASH_OK
  BY DEF stvhm, MAC_VHash_copy, ItemSize
<1>3. UpdateAnswers[en_PORT] = {TRUE}
  BY <1>1, PortAssumption, Zenon
<1> QED BY <1>2, <1>3, PortAssumption, Zenon

\* The table of en_PORT is made with all of them.
LEMMA InitCompletes ==
  ASSUME PORT_VHash_INIT
  PROVE  VHash_Create_Moudle(en_PORT, TRUE) /\ Keeps
<1>1. Needed \subseteq DOMAIN stvhm
  BY DEF Needed, stvhm
<1>2. (Needed \subseteq DOMAIN stvhm) = TRUE
  BY <1>1
<1> QED BY <1>2 DEF PORT_VHash_INIT

\* What a search or an addition of key k leaves behind: it gives a node with
\* the good codes alone; then the node is in the table of en_PORT, has the
\* key and is the one the call was about; else no node has the key.
Outcome(k) ==
  /\ res'.ret \in {VHASH_OK, VHASH_UPDATE_OK} <=> res'.node # Null
  /\ res'.node # Null => /\ res'.node \in NodesOf(en_PORT)'
                         /\ item'[res'.node].key = k
                         /\ res'.of[2] = k
  /\ res'.node = Null => \A n \in NodesOf(en_PORT)' : item'[n].key # k

\* A module that is not there, or has no callbacks, gives no pointer.
LEMMA RefusedOutcome ==
  ASSUME TableInv, Refuse(en_PORT) \/ RefuseIncomplete(en_PORT), NEW k
  PROVE  Outcome(k)
<1>1. head[en_PORT] = Null /\ head' = head /\ res'.ret = VHASH_ERR /\ res'.node = Null
  BY DEF TableInv, Usable, Refuse, RefuseIncomplete, Ready, HasTable, Returns, Gives
<1>2. NodesOf(en_PORT)' = {}
  BY <1>1 DEF NodesOf
<1> QED BY <1>1, <1>2 DEF Outcome, VHASH_ERR, VHASH_OK, VHASH_UPDATE_OK

\* A lookup, or an addition of a key that is there, gives its node.
LEMMA FoundOutcome ==
  ASSUME TableInv, NEW k \in Keys,
         VHash_Get_Node(en_PORT, k) \/ AddFound(en_PORT, k)
  PROVE  Outcome(k)
<1> DEFINE n == Chain(en_PORT, k)[FirstHit(en_PORT, k)]
<1>1. /\ en_PORT \in Ids /\ Ready(en_PORT) /\ IInv
      /\ UNCHANGED <<head, item>>
  BY Callbacks DEF TableInv, VHash_Get_Node, AddFound
<1>2. /\ Hits(en_PORT, k) # {} => n \in NodesOf(en_PORT) /\ item[n].key = k
      /\ Hits(en_PORT, k) = {} => \A o \in NodesOf(en_PORT) : item[o].key # k
  BY <1>1, SearchFinds
<1>3. NodesOf(en_PORT)' = NodesOf(en_PORT)
  BY <1>1 DEF NodesOf
<1>4. Hits(en_PORT, k) # {} => n # Null
  BY <1>1, <1>2, NodesAssumption DEF IInv, HeapIsTable, Shape
<1> HIDE DEF n
<1>5. CASE Hits(en_PORT, k) # {}
  <2>1. /\ res'.of = <<en_PORT, k>> /\ res'.node = n
        /\ res'.ret = VHASH_OK \/ res'.ret = VHASH_UPDATE_OK
    <3>1. CASE VHash_Get_Node(en_PORT, k)
      BY <1>5, <3>1 DEF VHash_Get_Node, Gives, n
    <3>2. CASE AddFound(en_PORT, k)
      <4>1. PICK c \in CopyAnswers[en_PORT] :
              IF c = VHASH_OK THEN Gives(<<en_PORT, k>>, VHASH_UPDATE_OK, n, << >>)
              ELSE Answers(en_PORT, k, c)
        BY <3>2, Callbacks DEF AddFound, n
      <4> QED BY <4>1, Callbacks DEF Gives
    <3> QED BY <3>1, <3>2
  <2> QED BY <1>1, <1>2, <1>3, <1>4, <1>5, <2>1 DEF Outcome
<1>6. CASE Hits(en_PORT, k) = {}
  <2>1. res'.node = Null /\ res'.ret = VHASH_NOT_FOUND
    BY <1>6 DEF VHash_Get_Node, AddFound, Answers, Gives
  <2> QED BY <1>1, <1>2, <1>3, <1>6, <2>1
          DEF Outcome, VHASH_NOT_FOUND, VHASH_OK, VHASH_UPDATE_OK
<1> QED BY <1>5, <1>6

\* An addition gives the new node, or fails and gives none.
LEMMA AddedOutcome ==
  ASSUME TableInv, NEW k \in Keys, AddNew(en_PORT, k) \/ AddFails(en_PORT, k)
  PROVE  Outcome(k)
<1>1. en_PORT \in Ids /\ Ready(en_PORT) /\ IInv /\ Hits(en_PORT, k) = {}
  BY Callbacks DEF TableInv, AddNew, AddFails
<1>2. CASE AddNew(en_PORT, k)
  <2>1. PICK n : Gains(en_PORT, k, n)
    BY <1>1, <1>2, AddKeeps
  <2>2. /\ res'.of = <<en_PORT, k>> /\ res'.ret = VHASH_OK /\ res'.node = n
        /\ n \in NodesOf(en_PORT)' /\ item'[n].key = k
    BY <2>1 DEF Gains, Gives
  <2>3. n # Null
    <3>1. IInv'
      BY <1>1, <1>2, AddKeeps
    <3> QED BY <1>1, <2>2, <3>1, NodesAssumption DEF IInv, HeapIsTable, Shape
  <2> QED BY <2>2, <2>3 DEF Outcome
<1>3. CASE AddFails(en_PORT, k)
  <2>1. res'.node = Null /\ res'.ret = VHASH_NOT_INNIF /\ UNCHANGED <<head, item>>
    BY <1>3, Callbacks DEF AddFails, Answers, Gives
  <2>2. \A o \in NodesOf(en_PORT)' : item'[o].key # k
    <3>1. NodesOf(en_PORT)' = NodesOf(en_PORT)
      BY <2>1 DEF NodesOf
    <3>2. \A o \in NodesOf(en_PORT) : item[o].key # k
      BY <1>1, SearchFinds
    <3> QED BY <2>1, <3>1, <3>2
  <2> QED BY <2>1, <2>2 DEF Outcome, VHASH_NOT_INNIF, VHASH_OK, VHASH_UPDATE_OK
<1> QED BY <1>2, <1>3

\* Every search and addition has that outcome.
LEMMA CallOutcome ==
  ASSUME TableInv, NEW k \in Keys,
         \/ VHash_Get_Node(en_PORT, k) \/ VHash_Add_Node2(en_PORT, k)
         \/ Refuse(en_PORT) \/ RefuseIncomplete(en_PORT)
  PROVE  Outcome(k)
BY RefusedOutcome, FoundOutcome, AddedOutcome DEF VHash_Add_Node2

-----------------------------------------------------------------------------
\* A call changes no table but that of its module, and not max.
LEMMA CallIsLocal ==
  ASSUME Shape, NEW m \in Ids, Call(m), NEW o \in Ids \ {m}
  PROVE  max' = max /\ head'[o] = head[o]
<1>1. DOMAIN head = Ids
  BY DEF Shape
<1> DEFINE Local == max' = max /\ head'[o] = head[o]
<1>2. ASSUME NEW complete \in BOOLEAN, VHash_Create_Moudle(m, complete) PROVE Local
  BY <1>1, <1>2 DEF VHash_Create_Moudle
<1>3. CASE \/ Refuse(m) \/ RefuseIncomplete(m) \/ VHash_Destory_Moudle(m)
           \/ VHash_Clean_Moudle(m) \/ VHash_Node_Stat(m) \/ VHash_Node_Total(m)
  BY <1>1, <1>3 DEF Refuse, RefuseIncomplete, VHash_Destory_Moudle, VHash_Clean_Moudle,
                    VHash_Node_Stat, VHash_Node_Total
<1>4. ASSUME NEW k \in Keys,
             VHash_Get_Node(m, k) \/ VHash_Add_Node2(m, k) \/ VHash_Del_Node(m, k)
      PROVE  Local
  BY <1>1, <1>4 DEF VHash_Get_Node, VHash_Add_Node2, AddFound, AddNew, AddFails, VHash_Del_Node
<1>5. ASSUME NEW prev, VHash_Get_NextNode(m, prev) PROVE Local
  BY <1>5 DEF VHash_Get_NextNode
<1> QED BY <1>2, <1>3, <1>4, <1>5 DEF Call

\* No call but Create makes a table, and none takes its callbacks away.
LEMMA CallbacksStay ==
  ASSUME Shape, NEW m \in Ids, NEW k, NEW prev,
         \/ Refuse(m) \/ RefuseIncomplete(m) \/ VHash_Destory_Moudle(m)
         \/ VHash_Clean_Moudle(m) \/ VHash_Node_Total(m)
         \/ VHash_Get_Node(m, k) \/ VHash_Add_Node2(m, k) \/ VHash_Del_Node(m, k)
         \/ VHash_Get_NextNode(m, prev)
  PROVE  /\ max' = max
         /\ head'[m] # Null => head[m] # Null /\ head'[m].complete = head[m].complete
<1>1. DOMAIN head = Ids /\ (head[m] # Null => head[m] \in HeadType)
  BY DEF Shape
<1> DEFINE Stay == /\ max' = max
                   /\ head'[m] # Null => head[m] # Null /\ head'[m].complete = head[m].complete
<1>2. CASE UNCHANGED <<max, head>>
  BY <1>2
<1>3. CASE VHash_Destory_Moudle(m) \/ VHash_Clean_Moudle(m)
  BY <1>1, <1>3 DEF VHash_Destory_Moudle, VHash_Clean_Moudle, HasTable, NewHead
<1>4. CASE AddNew(m, k)
  <2>1. PICK n \in Free :
          head' = [head EXCEPT ![m].bucket[Hash[k]] = Append(@, n),
                               ![m].sum[Hash[k]] = @ + 1, ![m].total = @ + 1]
    BY <1>4 DEF AddNew
  <2> QED BY <1>1, <1>4, <2>1 DEF AddNew, Ready, HasTable, HeadType
<1>5. CASE VHash_Del_Node(m, k)
  <2>1. CASE head' = [head EXCEPT ![m].bucket[Hash[k]] = RemoveAt(@, FirstHit(m, k)),
                                  ![m].sum[Hash[k]] = @ - 1, ![m].total = @ - 1]
    BY <1>1, <1>5, <2>1 DEF VHash_Del_Node, Ready, HasTable, HeadType
  <2> QED BY <1>2, <1>5, <2>1 DEF VHash_Del_Node
<1>6. CASE \/ Refuse(m) \/ RefuseIncomplete(m) \/ VHash_Node_Total(m)
           \/ VHash_Get_Node(m, k) \/ AddFound(m, k) \/ AddFails(m, k)
           \/ VHash_Get_NextNode(m, prev)
  BY <1>2, <1>6 DEF Refuse, RefuseIncomplete, VHash_Node_Total, VHash_Get_Node,
                    AddFound, AddFails, VHash_Get_NextNode
<1> QED BY <1>3, <1>4, <1>5, <1>6 DEF VHash_Add_Node2

\* The wrappers of port_vhash.c.
Wrapper ==
  \/ PORT_VHash_INIT \/ PORT_VHash_Clean \/ PORT_VHash_EXIT \/ PORT_VHash_GetCount
  \/ \E k \in Keys :
       PORT_VHash_Add(k) \/ PORT_VHash_Update(k) \/ PORT_VHash_Del(k) \/ PORT_VHash_FindStruct(k)
  \/ \E prev : PORT_VHash_Get_NextNode(prev)

\* A table of en_PORT that a call makes has its callbacks; one that a call
\* finds is no less within range.
LEMMA WrapperUsable ==
  ASSUME TableInv, Wrapper
  PROVE  Usable'
<1>1. en_PORT \in Ids /\ Shape /\ Usable /\ DOMAIN head = Ids
  BY Callbacks DEF TableInv, IInv, Shape, Usable
<1>2. CASE PORT_VHash_INIT
  <2>1. CASE UNCHANGED <<max, head>>
    BY <1>1, <2>1 DEF Usable, Ready, HasTable, InRange
  <2>2. CASE InRange(en_PORT) /\ max' = max /\ head' = [head EXCEPT ![en_PORT] = NewHead(TRUE)]
    <3>1. head'[en_PORT] = NewHead(TRUE) /\ NewHead(TRUE).complete
      BY <1>1, <2>2 DEF NewHead
    <3> QED BY <2>2, <3>1 DEF Usable, Ready, HasTable, InRange
  <2> QED BY <1>2, <2>1, <2>2, InitCompletes DEF VHash_Create_Moudle
<1>3. CASE ~PORT_VHash_INIT
  <2>1. \E k, prev :
          \/ Refuse(en_PORT) \/ RefuseIncomplete(en_PORT) \/ VHash_Destory_Moudle(en_PORT)
          \/ VHash_Clean_Moudle(en_PORT) \/ VHash_Node_Total(en_PORT)
          \/ VHash_Get_Node(en_PORT, k) \/ VHash_Add_Node2(en_PORT, k)
          \/ VHash_Del_Node(en_PORT, k) \/ VHash_Get_NextNode(en_PORT, prev)
    BY <1>3 DEF Wrapper, PORT_VHash_Clean, PORT_VHash_EXIT, PORT_VHash_GetCount, PORT_VHash_Add,
                PORT_VHash_Update, PORT_VHash_Del, PORT_VHash_FindStruct, PORT_VHash_Get_NextNode
  <2>2. /\ max' = max
        /\ head'[en_PORT] # Null =>
             head[en_PORT] # Null /\ head'[en_PORT].complete = head[en_PORT].complete
    BY <1>1, <2>1, CallbacksStay
  <2> QED BY <1>1, <2>2 DEF Usable, Ready, HasTable, InRange
<1> QED BY <1>2, <1>3

\* Each is a call of the hash table.
LEMMA WrapperCalls ==
  ASSUME TableInv, Wrapper
  PROVE  Call(en_PORT)
<1>1. \A prev : VHash_Get_NextNode(en_PORT, prev) => prev \in Nodes \cup {Null}
  BY Callbacks DEF VHash_Get_NextNode, TableInv, IInv, HeapIsTable, Shape
<1>2. CASE PORT_VHash_INIT \/ PORT_VHash_Clean \/ PORT_VHash_EXIT \/ PORT_VHash_GetCount
  BY <1>2, InitCompletes DEF Call, PORT_VHash_Clean, PORT_VHash_EXIT, PORT_VHash_GetCount
<1>3. ASSUME NEW k \in Keys,
             \/ PORT_VHash_Add(k) \/ PORT_VHash_Update(k)
             \/ PORT_VHash_Del(k) \/ PORT_VHash_FindStruct(k)
      PROVE  Call(en_PORT)
  BY <1>3 DEF Call, PORT_VHash_Add, PORT_VHash_Update, PORT_VHash_Del, PORT_VHash_FindStruct
<1>4. ASSUME NEW prev, PORT_VHash_Get_NextNode(prev) PROVE Call(en_PORT)
  BY <1>1, <1>4 DEF Call, PORT_VHash_Get_NextNode
<1> QED BY <1>2, <1>3, <1>4 DEF Wrapper

\* A wrapper is a call of the hash table and keeps what the table keeps.
LEMMA WrapperKeeps ==
  ASSUME TableInv, Wrapper
  PROVE  TableInv'
BY Callbacks, WrapperCalls, CallKeeps, WrapperUsable DEF TableInv

\* Nor does a write through the pointer: what is written is the value of one
\* node, and its key stays.
LEMMA WriteKeeps ==
  ASSUME TableInv, pstVhashItem \in NodesOf(en_PORT), NEW v, Write(v)
  PROVE  /\ TableInv' /\ NodesOf(en_PORT)' = NodesOf(en_PORT)
         /\ item'[pstVhashItem].key = item[pstVhashItem].key /\ item'[pstVhashItem].val = v
         /\ \A n \in DOMAIN item \ {pstVhashItem} : item'[n] = item[n]
<1>1. pstVhashItem \in DOMAIN item
  BY Callbacks DEF TableInv, IInv, HeapIsTable
<1>2. IInv'
  BY <1>1, StoreKeeps DEF TableInv, Write
<1>3. Usable'
  BY DEF TableInv, Usable, Ready, HasTable, InRange, Write
<1>4. NodesOf(en_PORT)' = NodesOf(en_PORT)
  BY DEF NodesOf, Write
<1>5. item[pstVhashItem] = [key |-> item[pstVhashItem].key, val |-> item[pstVhashItem].val]
  BY <1>1 DEF TableInv, IInv, Shape
<1>6. /\ item'[pstVhashItem].key = item[pstVhashItem].key /\ item'[pstVhashItem].val = v
      /\ \A n \in DOMAIN item \ {pstVhashItem} : item'[n] = item[n]
  BY <1>1, <1>5 DEF Write
<1> QED BY <1>2, <1>3, <1>4, <1>6 DEF TableInv

\* After a wrapper that says that there is an entry, the pointer is its node.
LEMMA WrapperTells ==
  ASSUME TableInv, NEW k \in Keys,
         PORT_VHash_Add(k) \/ PORT_VHash_Update(k) \/ PORT_VHash_FindStruct(k)
  PROVE  PointerOfCode' /\ ToldRight'
<1>1. Outcome(k)
  BY CallOutcome DEF PORT_VHash_Add, PORT_VHash_Update, PORT_VHash_FindStruct
<1>2. told' => /\ res'.ret \in {VHASH_OK, VHASH_UPDATE_OK}
               /\ res'.node # Null => pstVhashItem' = res'.node
  BY DEF PORT_VHash_Add, PORT_VHash_Update, PORT_VHash_FindStruct, Tells, Added,
         VHASH_OK, VHASH_UPDATE_OK
<1> QED BY <1>1, <1>2 DEF Outcome, PointerOfCode, ToldRight

\* Each step of the wrappers and their callers is a step of the hash table.
LEMMA StepOfTable == PortInv /\ [PNext]_pvars => [Next]_vars
<1> SUFFICES ASSUME PortInv, [PNext]_pvars PROVE [Next]_vars
  OBVIOUS
<1>1. en_PORT \in Ids
  BY Callbacks
<1>2. CASE UNCHANGED pvars \/ (pstVhashItem' = Null /\ told' = FALSE /\ UNCHANGED vars)
  BY <1>2 DEF pvars
<1>3. CASE VHash_Init \/ \E m \in Ids : Call(m)
  BY <1>3 DEF Next
<1>4. ASSUME NEW v \in Vals, told, Write(v) PROVE Next
  BY <1>4 DEF PortInv, PointerOfCode, Write, Store, Next
<1>5. ASSUME NEW v \in Vals, Store(v) PROVE Next
  BY <1>5 DEF Next
<1>6. Wrapper => Call(en_PORT)
  BY WrapperCalls DEF PortInv
<1>7. PortCall => \/ Wrapper
                  \/ \E v \in Vals : told /\ Write(v)
                  \/ pstVhashItem' = Null /\ told' = FALSE /\ UNCHANGED vars
  BY DEF PortCall, Wrapper
<1> QED BY <1>1, <1>2, <1>3, <1>4, <1>5, <1>6, <1>7 DEF PNext, OtherCall

\* The invariant holds before the first call.
LEMMA PortBegins == PInit => PortInv
<1> SUFFICES ASSUME PInit PROVE PortInv
  OBVIOUS
<1>1. IInv /\ head[en_PORT] = Null /\ ~told
  BY Begins, Callbacks DEF PInit, Init
<1> QED BY <1>1 DEF PortInv, TableInv, Usable, PointerOfCode, ToldRight

\* Every wrapper, every other call and every write keep the invariant.
LEMMA PortStep == PortInv /\ [PNext]_pvars => PortInv'
<1> SUFFICES ASSUME PortInv, [PNext]_pvars PROVE PortInv'
  OBVIOUS
<1>1. IInv'
  BY StepOfTable, StepKeeps DEF PortInv, TableInv
<1>2. en_PORT \in Ids /\ Shape /\ Usable /\ TableInv
  BY Callbacks DEF PortInv, TableInv, IInv
<1>3. told' = FALSE => PointerOfCode' /\ ToldRight'
  BY DEF PointerOfCode, ToldRight
<1>4. CASE VHash_Init /\ Keeps
  <2>1. head[en_PORT] = Null /\ head' = head
    BY <1>2, <1>4, IdsAssumption DEF VHash_Init, Usable, Ready, HasTable, InRange
  <2> QED BY <1>1, <1>3, <1>4, <2>1 DEF PortInv, TableInv, Usable, Keeps
<1>5. CASE OtherCall
  <2>1. max' = max /\ head'[en_PORT] = head[en_PORT]
    BY <1>2, <1>5, CallIsLocal DEF OtherCall, Store
  <2> QED BY <1>1, <1>2, <1>3, <1>5, <2>1
          DEF OtherCall, Keeps, PortInv, TableInv, Usable, Ready, HasTable, InRange
<1>6. CASE Wrapper
  <2>1. TableInv'
    BY <1>2, <1>6, WrapperKeeps
  <2>2. told' = FALSE \/ \E k \in Keys :
          PORT_VHash_Add(k) \/ PORT_VHash_Update(k) \/ PORT_VHash_FindStruct(k)
    BY <1>6 DEF Wrapper, PORT_VHash_INIT, PORT_VHash_Clean, PORT_VHash_EXIT,
                PORT_VHash_GetCount, PORT_VHash_Del, PORT_VHash_Get_NextNode, Keeps
  <2>3. PointerOfCode' /\ ToldRight'
    BY <1>2, <1>3, <2>2, WrapperTells
  <2> QED BY <2>1, <2>3 DEF PortInv
<1>7. ASSUME NEW v \in Vals, told, Write(v) PROVE PortInv'
  <2>1. /\ pstVhashItem \in NodesOf(en_PORT) /\ item[pstVhashItem].key = res.of[2]
        /\ pstVhashItem = res.node /\ res.node # Null
    BY <1>7 DEF PortInv, ToldRight, PointerOfCode
  <2>2. /\ TableInv' /\ NodesOf(en_PORT)' = NodesOf(en_PORT)
        /\ item'[pstVhashItem].key = item[pstVhashItem].key
    BY <1>2, <1>7, <2>1, WriteKeeps
  <2> QED BY <1>7, <2>1, <2>2 DEF PortInv, PointerOfCode, ToldRight, Write
<1>8. CASE pstVhashItem' = Null /\ told' = FALSE /\ UNCHANGED vars
  BY <1>1, <1>2, <1>3, <1>8 DEF PortInv, TableInv, Usable, Ready, HasTable, InRange, vars
<1>9. CASE UNCHANGED pvars
  BY <1>1, <1>2, <1>9 DEF PortInv, TableInv, Usable, Ready, HasTable, InRange, vars, pvars,
                          PointerOfCode, ToldRight, NodesOf
<1>10. PortCall => \/ Wrapper
                   \/ \E v \in Vals : told /\ Write(v)
                   \/ pstVhashItem' = Null /\ told' = FALSE /\ UNCHANGED vars
  BY DEF PortCall, Wrapper
<1> QED BY <1>4, <1>5, <1>6, <1>7, <1>8, <1>9, <1>10 DEF PNext

\* After any calls of port_vhash.c and of other modules' callers, the table is
\* sound and the code of the latest wrapper and the pointer agree.
THEOREM PortInvariant == PSpec => []PortInv
BY PortBegins, PortStep, PTL DEF PSpec

\* The wrappers and their callers use the hash table as its callers do, so
\* that it keeps its invariants and stays a table of keys and values.
THEOREM PortUsesTable == PSpec => Spec
<1>1. PInit => Init
  BY DEF PInit
<1> QED BY <1>1, StepOfTable, PortInvariant, PTL DEF PSpec, Spec

\* The port table is, for its callers, the partial function of PortMap.
THEOREM PortImplementsMap == PSpec => MapSpec
BY PortUsesTable, ImplementsMap

\* A caller that goes by the code writes to the entry of the key it asked for.
THEOREM CodeTells == PSpec => []ToldRight
<1>1. PortInv => ToldRight
  BY DEF PortInv
<1> QED BY <1>1, PortInvariant, PTL

\* PORT_VHash_Update answers VHASH_UPDATE_OK just for a key that is there.
LEMMA UpdateOutcome ==
  ASSUME TableInv, NEW k \in Keys, PORT_VHash_Update(k)
  PROVE  res'.ret = VHASH_UPDATE_OK <=> k \in Held
<1>1. CASE Refuse(en_PORT) \/ RefuseIncomplete(en_PORT)
  <2>1. head[en_PORT] = Null /\ res'.ret = VHASH_ERR
    BY <1>1 DEF TableInv, Usable, Refuse, RefuseIncomplete, Ready, HasTable, Returns, Gives
  <2>2. Held = {}
    BY <2>1 DEF Held, NodesOf
  <2> QED BY <2>1, <2>2 DEF VHASH_ERR, VHASH_UPDATE_OK
<1>2. CASE VHash_Add_Node2(en_PORT, k)
  <2> DEFINE n == Chain(en_PORT, k)[FirstHit(en_PORT, k)]
  <2>1. /\ Hits(en_PORT, k) # {} => n \in NodesOf(en_PORT) /\ item[n].key = k
        /\ Hits(en_PORT, k) = {} => \A o \in NodesOf(en_PORT) : item[o].key # k
    <3>1. AddFound(en_PORT, k) => Ready(en_PORT)
      BY DEF AddFound
    <3>2. AddNew(en_PORT, k) => Ready(en_PORT)
      BY DEF AddNew
    <3>3. AddFails(en_PORT, k) => Ready(en_PORT)
      BY DEF AddFails
    <3>4. en_PORT \in Ids /\ IInv
      BY Callbacks DEF TableInv
    <3> QED BY <1>2, <3>1, <3>2, <3>3, <3>4, SearchFinds DEF VHash_Add_Node2
  <2>2. Hits(en_PORT, k) # {} <=> k \in Held
    <3> HIDE DEF n
    <3> QED BY <2>1 DEF Held
  <2>3. CASE AddFound(en_PORT, k)
    <3>1. PICK c \in CopyAnswers[en_PORT] :
            IF c = VHASH_OK THEN Gives(<<en_PORT, k>>, VHASH_UPDATE_OK, n, << >>)
            ELSE Answers(en_PORT, k, c)
      BY <2>3, Callbacks DEF AddFound
    <3> QED BY <2>2, <2>3, <3>1, Callbacks DEF AddFound, Gives
  <2>4. CASE AddNew(en_PORT, k)
    BY <2>2, <2>4 DEF AddNew, Gives, VHASH_OK, VHASH_UPDATE_OK
  <2>5. CASE AddFails(en_PORT, k)
    BY <2>2, <2>5, Callbacks DEF AddFails, Answers, Gives, VHASH_NOT_INNIF, VHASH_UPDATE_OK
  <2> QED BY <1>2, <2>3, <2>4, <2>5 DEF VHash_Add_Node2
<1> QED BY <1>1, <1>2 DEF PORT_VHash_Update

\* A cleared pointer is set by just the searches and additions after which
\* there is an entry, and by an update just where there was one before.
THEOREM PointerCorrect == PSpec => PointerTells
<1> DEFINE P == \A k \in Keys : pstVhashItem = Null =>
      /\ PORT_VHash_FindStruct(k) \/ PORT_VHash_Add(k) => (pstVhashItem' # Null <=> k \in Held')
      /\ PORT_VHash_Update(k) => (pstVhashItem' # Null <=> k \in Held)
<1>1. PortInv => [P]_pvars
  <2> SUFFICES ASSUME PortInv, NEW k \in Keys, pstVhashItem = Null
               PROVE  /\ PORT_VHash_FindStruct(k) \/ PORT_VHash_Add(k) =>
                           (pstVhashItem' # Null <=> k \in Held')
                      /\ PORT_VHash_Update(k) => (pstVhashItem' # Null <=> k \in Held)
    OBVIOUS
  <2>1. (PORT_VHash_FindStruct(k) \/ PORT_VHash_Add(k) \/ PORT_VHash_Update(k)) => Outcome(k)
    BY CallOutcome DEF PortInv, PORT_VHash_FindStruct, PORT_VHash_Add, PORT_VHash_Update
  <2>2. ASSUME PORT_VHash_FindStruct(k) \/ PORT_VHash_Add(k)
        PROVE  pstVhashItem' # Null <=> k \in Held'
    <3>1. pstVhashItem' # Null <=> res'.node # Null
      BY <2>1, <2>2 DEF PORT_VHash_FindStruct, PORT_VHash_Add, Added, AsItWas, Outcome
    <3> QED BY <2>1, <2>2, <3>1 DEF Outcome, Held
  <2>3. ASSUME PORT_VHash_Update(k)
        PROVE  pstVhashItem' # Null <=> k \in Held
    <3>1. res'.ret = VHASH_UPDATE_OK <=> k \in Held
      BY <2>3, UpdateOutcome DEF PortInv
    <3>2. res'.ret = VHASH_UPDATE_OK => res'.node # Null
      BY <2>1, <2>3 DEF Outcome
    <3> QED BY <2>3, <3>1, <3>2 DEF PORT_VHash_Update
  <2> QED BY <2>2, <2>3
<1> QED BY <1>1, PortInvariant, PTL DEF PointerTells

-----------------------------------------------------------------------------
(***************************************************************************)
(* pkt_recv on its hash table, call by call, for any frames, addresses,    *)
(* times, hash function and failures of malloc: its pointer is always that *)
(* of the key it handles, and pass by pass it is the tracer of Tracer.     *)
(***************************************************************************)
\* Where pkt_recv is about to look something up or to parse, and where it is
\* about to use the entry its pointer is at.
Looking == {"find", "reverse", "parse", "add"}
Using == {"answer", "again", "fill"}
Outside == {"VHash_Init", "PORT_VHash_INIT", "next_ex"}

HasKey(k) == \E n \in NodesOf(en_PORT) : item[n].key = k

\* The pointer is NULL until a call found or made the entry of the key.
PointerRight ==
  /\ pc \in Looking => pstVhashItem = Null
  /\ pc \in Using => /\ pstVhashItem \in NodesOf(en_PORT)
                     /\ item[pstVhashItem].key = stPortItem

\* The key is that of the frame, then of its answer.
KeyRight ==
  /\ pc \in {"find", "answer", "reverse"} => stPortItem = pass.frame.key
  /\ pc \in {"again", "parse", "add", "fill"} => stPortItem = T!Rev(pass.frame.key)

\* What the lookups did not find is not there, until the entry is made.
Unfound ==
  /\ pc \in {"reverse", "again", "parse", "add"} => ~HasKey(pass.frame.key)
  /\ pc \in {"parse", "add"} => ~HasKey(stPortItem)
  /\ pc = "fill" /\ HasKey(pass.frame.key) => pass.frame.key = stPortItem

\* What pkt_recv can be given: a frame with what lies behind it, or what
\* libpcap still holds.
Given(f, ts, buf) ==
  \/ f \in Frames /\ ts \in Times /\ \E stale \in Stale : buf = f.data \o stale
  \/ f = cap.frame /\ ts = cap.ts /\ buf = cap.buf

Parsed(buf) ==
  \E parsed \in {T!redis_cmd_parse(buf, Len(pass.frame.data))} :
    parsed.ret = 0 /\ pass.buf = parsed.buf /\ stRedisCmd = parsed.cmd

\* The pass is over a frame of the monitored address; behind the parser, its
\* buffer and the name are the parser's.
PassRight ==
  pc \in Looking \cup Using =>
    /\ running /\ T!Accepted(pass.frame)
    /\ pass = [frame |-> pass.frame, ts |-> pass.ts, buf |-> pass.buf]
    /\ \E buf : /\ Given(pass.frame, pass.ts, buf)
                /\ IF pc \in {"add", "fill"} THEN Parsed(buf) ELSE pass.buf = buf

KInv ==
  /\ TableInv
  /\ pc \in Outside \cup Looking \cup Using
  /\ cap.frame \in Frames \cup {T!NoFrame}
  /\ PointerRight /\ KeyRight /\ Unfound /\ PassRight

-----------------------------------------------------------------------------
\* A frame that gets past the guards was delivered; it has a key.
LEMMA FrameKey ==
  ASSUME NEW f \in Frames \cup {T!NoFrame}, T!Accepted(f)
  PROVE  f \in Frames /\ f.key \in Keys /\ T!Rev(f.key) \in Keys
<1>1. f # T!NoFrame
  BY DEF T!Accepted, T!NoFrame, T!MinCaplen
<1>2. f.key \in Keys
  BY <1>1, FramesAssumption
<1> QED BY <1>1, <1>2, KeysAreDirections DEF T!Rev

\* In the middle of a pass, the frame has been accepted and both of its
\* directions are keys.
LEMMA PassKeys ==
  ASSUME KInv, pc \in Looking \cup Using
  PROVE  /\ pass.frame \in Frames \cup {T!NoFrame} /\ T!Accepted(pass.frame)
         /\ pass.frame.key \in Keys /\ stPortItem \in Keys
         /\ T!Rev(pass.frame.key) \in Keys
<1>1. pass.frame \in Frames \cup {T!NoFrame} /\ T!Accepted(pass.frame)
  BY DEF KInv, PassRight, Given
<1>2. pass.frame.key \in Keys /\ T!Rev(pass.frame.key) \in Keys
  BY <1>1, FrameKey
<1> QED BY <1>1, <1>2 DEF KInv, KeyRight, Looking, Using

\* A search or an addition with a NULL pointer leaves it NULL or at the entry
\* of the key; a search changes no table, an addition adds that key alone.
LEMMA LookupGives ==
  ASSUME TableInv, pstVhashItem = Null, NEW k \in Keys,
         PORT_VHash_FindStruct(k) \/ PORT_VHash_Add(k)
  PROVE  /\ TableInv'
         /\ pstVhashItem' # Null =>
              pstVhashItem' \in NodesOf(en_PORT)' /\ item'[pstVhashItem'].key = k
         /\ pstVhashItem' = Null => ~HasKey(k)'
         /\ \A j \in Keys : HasKey(j)' => HasKey(j) \/ j = k
<1>1. TableInv'
  BY WrapperKeeps DEF Wrapper
<1>2. Outcome(k)
  BY CallOutcome DEF PORT_VHash_FindStruct, PORT_VHash_Add
<1>3. pstVhashItem' = res'.node
  BY <1>2 DEF PORT_VHash_FindStruct, PORT_VHash_Add, Added, AsItWas, Outcome
<1>4. CASE UNCHANGED <<head, item>>
  <2>1. NodesOf(en_PORT)' = NodesOf(en_PORT)
    BY <1>4 DEF NodesOf
  <2> QED BY <1>1, <1>2, <1>3, <1>4, <2>1 DEF Outcome, HasKey
<1>5. CASE AddNew(en_PORT, k)
  <2>1. PICK n : Gains(en_PORT, k, n)
    BY <1>5, Callbacks, AddKeeps DEF TableInv
  <2>2. NodesOf(en_PORT) \subseteq DOMAIN item
    BY Callbacks DEF TableInv, IInv, HeapIsTable
  <2>3. \A o \in NodesOf(en_PORT)' : item'[o].key = k \/ (o \in NodesOf(en_PORT) /\ item'[o] = item[o])
    BY <2>1, <2>2 DEF Gains
  <2> QED BY <1>1, <1>2, <1>3, <2>3 DEF Outcome, HasKey
<1> QED BY <1>4, <1>5 DEF PORT_VHash_FindStruct, PORT_VHash_Add, Refuse, RefuseIncomplete,
                          VHash_Get_Node, VHash_Add_Node2, AddFound, AddFails

-----------------------------------------------------------------------------
(***************************************************************************)
(* Each step keeps the invariant.                                          *)
(***************************************************************************)
\* What no step but the last of a pass touches.
LEMMA PassGoesOn ==
  ASSUME KInv, UNCHANGED <<running, cap>>, pass' = pass,
         pc \in Looking \cup Using, pc' \in Looking \cup Using,
         pc \in {"add", "fill"} <=> pc' \in {"add", "fill"}, stRedisCmd' = stRedisCmd
  PROVE  PassRight' /\ cap'.frame \in Frames \cup {T!NoFrame}
BY DEF KInv, PassRight, Given, Parsed

\* Outside of a pass, little matters.
LEMMA PassOver ==
  ASSUME TableInv', pc' \in Outside, cap'.frame \in Frames \cup {T!NoFrame}
  PROVE  KInv'
BY DEF KInv, PointerRight, KeyRight, Unfound, PassRight, Outside, Looking, Using

\* The invariant of the table is about the variables of the table alone.
LEMMA TableSame ==
  ASSUME TableInv, UNCHANGED vars
  PROVE  TableInv'
<1>1. IInv'
  BY StepKeeps DEF TableInv
<1>2. Usable'
  BY DEF TableInv, Usable, Ready, HasTable, InRange, vars
<1> QED BY <1>1, <1>2 DEF TableInv

\* VHash_Init and PORT_VHash_INIT, before the first frame.
LEMMA InitTableKeeps ==
  ASSUME KInv, InitTable
  PROVE  KInv'
<1>1. CASE pc = "VHash_Init"
  <2>1. VHash_Init /\ pc' \in Outside /\ cap' = cap
    BY <1>1 DEF InitTable, Goes, Silent, Outside
  <2>2. IInv'
    BY <2>1, StepKeeps DEF KInv, TableInv, Next
  <2>3. head[en_PORT] = Null /\ head' = head
    BY <2>1, Callbacks, IdsAssumption DEF VHash_Init, KInv, TableInv, Usable, Ready, HasTable, InRange
  <2> QED BY <2>1, <2>2, <2>3, PassOver DEF KInv, TableInv, Usable
<1>2. CASE pc = "PORT_VHash_INIT"
  <2>1. PORT_VHash_INIT /\ pc' \in Outside /\ cap' = cap
    BY <1>2 DEF InitTable, Goes, Silent, Outside
  <2> QED BY <2>1, WrapperKeeps, PassOver DEF KInv, Wrapper
<1> QED BY <1>1, <1>2 DEF InitTable

\* A pass begins.
LEMMA TakeKeeps ==
  ASSUME KInv, NEW f, NEW ts, NEW buf, Given(f, ts, buf), Take(f, ts, buf)
  PROVE  KInv'
<1>1. TableInv'
  BY TableSame DEF Take, KInv
<1>2. f \in Frames \cup {T!NoFrame} /\ pass' = [frame |-> f, ts |-> ts, buf |-> buf]
  BY DEF KInv, Given, Take
<1>3. CASE ~T!Accepted(f)
  BY <1>1, <1>2, <1>3, PassOver DEF Take, Ends, Goes, Outside
<1>4. CASE T!Accepted(f)
  <2>1. /\ pc' = "find" /\ stPortItem' = f.key /\ pstVhashItem' = Null
        /\ running /\ running' = running /\ cap' = cap
    BY <1>4 DEF Take, Goes, Silent
  <2>2. PassRight'
    BY <1>2, <1>4, <2>1 DEF PassRight, Given
  <2> QED BY <1>1, <1>2, <2>1, <2>2
          DEF KInv, PointerRight, KeyRight, Unfound, Looking, Using, Outside
<1> QED BY <1>3, <1>4

\* The first lookup.
LEMMA FindKeeps ==
  ASSUME KInv, Find
  PROVE  KInv'
<1>1. /\ pc = "find" /\ pstVhashItem = Null /\ stPortItem = pass.frame.key /\ stPortItem \in Keys
      /\ PORT_VHash_FindStruct(stPortItem) /\ TableInv
      /\ UNCHANGED <<running, cap, pass, stPortItem, stRedisCmd>>
      /\ pc' = IF pstVhashItem' # Null THEN "answer" ELSE "reverse"
  BY PassKeys DEF Find, KInv, PointerRight, KeyRight, Looking, Goes, Silent
<1>2. /\ TableInv'
      /\ pstVhashItem' # Null =>
           pstVhashItem' \in NodesOf(en_PORT)' /\ item'[pstVhashItem'].key = stPortItem
      /\ pstVhashItem' = Null => ~HasKey(stPortItem)'
  BY <1>1, LookupGives
<1>3. PassRight' /\ cap'.frame \in Frames \cup {T!NoFrame}
  BY <1>1, PassGoesOn DEF Looking, Using
<1>4. PointerRight' /\ KeyRight' /\ Unfound'
  BY <1>1, <1>2 DEF PointerRight, KeyRight, Unfound, HasKey, Looking, Using
<1> QED BY <1>1, <1>2, <1>3, <1>4 DEF KInv, Looking, Using

\* The second lookup, of the opposite direction.
LEMMA FindReverseKeeps ==
  ASSUME KInv, FindReverse
  PROVE  KInv'
<1>1. /\ pc = "reverse" /\ pstVhashItem = Null /\ stPortItem = pass.frame.key /\ stPortItem \in Keys
      /\ stPortItem' = T!Rev(pass.frame.key) /\ stPortItem' \in Keys
      /\ ~HasKey(pass.frame.key) /\ pass.frame.key \in Keys
      /\ PORT_VHash_FindStruct(stPortItem') /\ TableInv
      /\ UNCHANGED <<running, cap, pass, stRedisCmd>>
      /\ pc' = IF pstVhashItem' # Null THEN "again" ELSE "parse"
  BY PassKeys DEF FindReverse, KInv, PointerRight, KeyRight, Unfound, Looking, Goes, Silent
<1>2. /\ TableInv'
      /\ pstVhashItem' # Null =>
           pstVhashItem' \in NodesOf(en_PORT)' /\ item'[pstVhashItem'].key = stPortItem'
      /\ pstVhashItem' = Null => ~HasKey(stPortItem)'
  <2> DEFINE k == stPortItem'
  <2>1. k \in Keys /\ PORT_VHash_FindStruct(k)
    BY <1>1
  <2> HIDE DEF k
  <2>2. /\ TableInv'
        /\ pstVhashItem' # Null =>
             pstVhashItem' \in NodesOf(en_PORT)' /\ item'[pstVhashItem'].key = k
        /\ pstVhashItem' = Null => \A n \in NodesOf(en_PORT)' : item'[n].key # k
    BY <1>1, <2>1, LookupGives DEF HasKey
  <2> QED BY <2>2 DEF k, HasKey
<1>3. ~HasKey(pass.frame.key)'
  <2>1. UNCHANGED <<head, item>>
    BY <1>1 DEF PORT_VHash_FindStruct, VHash_Get_Node, Refuse
  <2> QED BY <1>1, <2>1 DEF HasKey, NodesOf
<1>4. PassRight' /\ cap'.frame \in Frames \cup {T!NoFrame}
  BY <1>1, PassGoesOn DEF Looking, Using
<1>5. PointerRight' /\ KeyRight' /\ Unfound'
  BY <1>1, <1>2, <1>3 DEF PointerRight, KeyRight, Unfound, HasKey, Looking, Using
<1> QED BY <1>1, <1>2, <1>4, <1>5 DEF KInv, Looking, Using


\* redis_cmd_parse.
LEMMA ParseKeeps ==
  ASSUME KInv, Parse
  PROVE  KInv'
<1>1. PICK parsed \in {T!redis_cmd_parse(pass.buf, Len(pass.frame.data))} :
        /\ pass' = [pass EXCEPT !.buf = parsed.buf]
        /\ stRedisCmd' = parsed.cmd
        /\ IF parsed.ret = 0 THEN pc' = "add" /\ Silent
           ELSE pc' = "next_ex" /\ cap' = pass' /\ running' = running
  BY DEF Parse, Goes, Ends
<1>2. /\ pc = "parse" /\ UNCHANGED <<pvars, stPortItem>> /\ running /\ T!Accepted(pass.frame)
      /\ stPortItem = T!Rev(pass.frame.key) /\ pstVhashItem = Null
      /\ ~HasKey(pass.frame.key) /\ ~HasKey(stPortItem)
      /\ pass = [frame |-> pass.frame, ts |-> pass.ts, buf |-> pass.buf]
      /\ Given(pass.frame, pass.ts, pass.buf)
  BY DEF Parse, KInv, PassRight, KeyRight, PointerRight, Unfound, Looking
<1>3. TableInv'
  BY <1>2, TableSame DEF KInv, pvars
<1>4. pass' = [frame |-> pass.frame, ts |-> pass.ts, buf |-> parsed.buf]
  BY <1>1, <1>2
<1>5. CASE parsed.ret = 0
  <2>0. PICK buf : buf = pass.buf
    OBVIOUS
  <2>1. pc' = "add" /\ UNCHANGED <<running, cap>>
    BY <1>1, <1>5 DEF Silent
  <2>2. Given(pass.frame, pass.ts, buf)'
    BY <1>2, <1>4, <2>0, <2>1 DEF Given
  <2>3. Parsed(buf)'
    BY <1>1, <1>4, <1>5, <2>0 DEF Parsed
  <2>4. PassRight'
    BY <1>2, <1>4, <2>1, <2>2, <2>3 DEF PassRight
  <2>5. UNCHANGED <<head, item>>
    BY <1>2 DEF pvars, vars
  <2>6. PointerRight' /\ KeyRight' /\ Unfound'
    BY <1>2, <1>4, <2>1, <2>5
       DEF PointerRight, KeyRight, Unfound, HasKey, NodesOf, pvars, Looking, Using
  <2> QED BY <1>3, <2>1, <2>4, <2>6 DEF KInv, Looking
<1>6. CASE parsed.ret # 0
  <2>1. pass.frame \in Frames \cup {T!NoFrame}
    BY <1>2, PassKeys DEF Looking
  <2> QED BY <1>1, <1>3, <1>4, <1>6, <2>1, PassOver DEF Outside
<1> QED BY <1>5, <1>6

\* PORT_VHash_Add, which may fail.
LEMMA AddKeepsPass ==
  ASSUME KInv, Add
  PROVE  KInv'
<1>1. /\ pc = "add" /\ pstVhashItem = Null /\ stPortItem \in Keys
      /\ stPortItem = T!Rev(pass.frame.key)
      /\ ~HasKey(pass.frame.key) /\ pass.frame.key \in Keys
      /\ PORT_VHash_Add(stPortItem) /\ TableInv
      /\ UNCHANGED <<running, pass, stPortItem, stRedisCmd>>
      /\ pass.frame \in Frames \cup {T!NoFrame}
      /\ IF pstVhashItem' # Null THEN pc' = "fill" /\ cap' = cap ELSE pc' = "next_ex" /\ cap' = pass
  BY PassKeys DEF Add, KInv, PointerRight, KeyRight, Unfound, Looking, Goes, Ends, Silent
<1>2. /\ TableInv'
      /\ pstVhashItem' # Null =>
           pstVhashItem' \in NodesOf(en_PORT)' /\ item'[pstVhashItem'].key = stPortItem
      /\ \A j \in Keys : HasKey(j)' => HasKey(j) \/ j = stPortItem
  BY <1>1, LookupGives
<1>3. CASE pstVhashItem' = Null
  BY <1>1, <1>2, <1>3, PassOver DEF Outside
<1>4. CASE pstVhashItem' # Null
  <2>1. PassRight' /\ cap'.frame \in Frames \cup {T!NoFrame}
    BY <1>1, <1>4, PassGoesOn DEF Looking, Using
  <2>2. HasKey(pass.frame.key)' => pass.frame.key = stPortItem
    BY <1>1, <1>2
  <2>3. PointerRight' /\ KeyRight' /\ Unfound'
    BY <1>1, <1>2, <1>4, <2>2 DEF PointerRight, KeyRight, Unfound, HasKey, Looking, Using
  <2> QED BY <1>1, <1>2, <1>4, <2>1, <2>3 DEF KInv, Looking, Using
<1> QED BY <1>3, <1>4

\* The pass ends with the use of the entry.
LEMMA UseKeeps ==
  ASSUME KInv, Answer \/ Again \/ Fill
  PROVE  KInv'
<1>1. /\ pc \in Using /\ TableInv /\ stPortItem \in Keys
      /\ pstVhashItem \in NodesOf(en_PORT)
      /\ pass.frame \in Frames \cup {T!NoFrame}
  BY PassKeys DEF KInv, PointerRight, Using, Answer, Again, Fill
<1>2. pc' \in Outside /\ cap' = pass
  BY DEF Answer, Again, Fill, Ends, Goes, Outside
<1>3. TableInv'
  <2>1. CASE Answer
    BY <1>1, <2>1, WrapperKeeps DEF Answer, Wrapper
  <2>2. ASSUME NEW v, Write(v) PROVE TableInv'
    BY <1>1, <2>2, WriteKeeps
  <2> QED BY <2>1, <2>2 DEF Again, Fill
<1> QED BY <1>1, <1>2, <1>3, PassOver

\* The invariant holds before the program has done anything.
LEMMA KBegins == KInit => KInv
<1> SUFFICES ASSUME KInit PROVE KInv
  OBVIOUS
<1>1. TableInv
  BY PortBegins DEF KInit, PortInv
<1>2. pc = "VHash_Init" /\ cap.frame = T!NoFrame
  BY DEF KInit
<1> QED BY <1>1, <1>2 DEF KInv, PointerRight, KeyRight, Unfound, PassRight, Outside, Looking, Using

\* Every call of a pass keeps the invariant.
LEMMA KStep == KInv /\ [KNext]_kvars => KInv'
<1> SUFFICES ASSUME KInv, [KNext]_kvars PROVE KInv'
  OBVIOUS
<1>1. ASSUME NEW f \in Frames, NEW ts \in Times, NEW stale \in Stale, Take(f, ts, f.data \o stale)
      PROVE  KInv'
  <2>1. Given(f, ts, f.data \o stale)
    BY DEF Given
  <2> QED BY <1>1, <2>1, TakeKeeps
<1>2. CASE Take(cap.frame, cap.ts, cap.buf)
  <2>1. Given(cap.frame, cap.ts, cap.buf)
    BY DEF Given
  <2> QED BY <1>2, <2>1, TakeKeeps
<1>3. CASE Fail
  <2>1. TableInv' /\ pc' \in Outside /\ cap' = cap
    BY <1>3, TableSame DEF Fail, KInv, pvars, Outside
  <2> QED BY <2>1, PassOver DEF KInv
<1>4. CASE InitTable \/ pkt_recv
  BY <1>4, InitTableKeeps, FindKeeps, FindReverseKeeps, ParseKeeps, AddKeepsPass, UseKeeps
     DEF pkt_recv
<1>5. CASE UNCHANGED kvars
  <2>1. TableInv'
    BY <1>5, TableSame DEF KInv, kvars, pvars
  <2> QED BY <1>5, <2>1 DEF kvars, pvars, vars, KInv, PointerRight, KeyRight, Unfound, HasKey,
                            NodesOf, PassRight, Given, Parsed
<1> QED BY <1>1, <1>2, <1>3, <1>4, <1>5 DEF KNext

\* At each call of pkt_recv, the key, the pointer and what the calls before
\* have found are those of the frame that is handled.
THEOREM PassInvariant == KSpec => []KInv
BY KBegins, KStep, PTL DEF KSpec

\* Where pkt_recv reads or writes through its pointer, that is the allocated
\* entry of the key it looked up last.
THEOREM PointerAlwaysOfKey == KSpec => []PointerIsOfKey
<1>1. KInv => PointerIsOfKey
  BY Callbacks DEF KInv, PointerRight, PointerIsOfKey, Using, TableInv, IInv, HeapIsTable
<1> QED BY <1>1, PassInvariant, PTL

-----------------------------------------------------------------------------
(***************************************************************************)
(* Pass by pass this is Tracer.                                            *)
(***************************************************************************)
Port == Table(NodesOf(en_PORT), item)

\* The chains of the port table hold each key once, and no other.
LEMMA PortHolds ==
  ASSUME TableInv
  PROVE  /\ OneEach(NodesOf(en_PORT), item)
         /\ Holds(Port, NodesOf(en_PORT), item)
         /\ DOMAIN Port = {k \in DOMAIN Port : HasKey(k)}
         /\ \A k : HasKey(k) => k \in DOMAIN Port
<1>1. OneEach(NodesOf(en_PORT), item)
  BY Callbacks DEF TableInv, IInv, KeysUnique, OneEach
<1>2. Holds(Port, NodesOf(en_PORT), item)
  BY <1>1, TableEntries DEF Port
<1> QED BY <1>1, <1>2 DEF Holds, HasKey

\* What the tracer knows: the table, without the entry that is being made.
KnownRight == Known = IF pc = "fill" THEN Without(Port, stPortItem) ELSE Port

\* What the tracer knows is what the chains hold.
LEMMA KnownIs == TableInv => KnownRight
<1> SUFFICES ASSUME TableInv PROVE KnownRight
  OBVIOUS
<1>1. CASE head[en_PORT] # Null
  <2>1. Contents(en_PORT) = Port
    BY Callbacks, ContentsIsTable DEF Port
  <2>2. Known = [k \in Filled |-> Port[k]]
    BY <1>1, <2>1 DEF Known
  <2>3. Filled = IF pc = "fill" THEN DOMAIN Port \ {stPortItem} ELSE DOMAIN Port
    BY <2>1 DEF Filled
  <2>4. Port = [k \in DOMAIN Port |-> Port[k]]
    BY PortHolds DEF Holds
  <2> QED BY <2>2, <2>3, <2>4 DEF Without, KnownRight
<1>2. CASE head[en_PORT] = Null
  <2>1. NodesOf(en_PORT) = {} /\ Known = << >>
    BY <1>2 DEF NodesOf, Known
  <2>2. DOMAIN Port = {} /\ Port = [k \in {} |-> Port[k]]
    BY <2>1, PortHolds DEF Holds
  <2>3. << >> = [k \in {} |-> << >>[k]]
    OBVIOUS
  <2>4. Port = << >>
    BY <2>2, <2>3
  <2>5. Without(Port, stPortItem) = << >>
    BY <2>2, <2>3 DEF Without
  <2> QED BY <2>1, <2>4, <2>5 DEF KnownRight
<1> QED BY <1>1, <1>2

\* And after the step.
LEMMA KnownIsNext == TableInv' => KnownRight'
BY KnownIs, PTL

\* A pass over what the tracer is given is a step of it.
LEMMA PassIsStep ==
  ASSUME NEW f, NEW ts, NEW buf, Given(f, ts, buf), T!pkt_recv(f, ts, buf),
         running, running' = running
  PROVE  T!Next
<1>1. CASE f = cap.frame /\ ts = cap.ts /\ buf = cap.buf
  BY <1>1 DEF T!Next, T!Timeout
<1>2. ASSUME f \in Frames, ts \in Times, NEW stale \in Stale, buf = f.data \o stale
      PROVE  T!Next
  BY <1>2 DEF T!Next, T!Deliver
<1> QED BY <1>1, <1>2 DEF Given

\* The port table is a function of the chains and the heap.
LEMMA PortSame ==
  ASSUME UNCHANGED <<head, item>>
  PROVE  Port' = Port
BY DEF Port, Table, NodesOf

\* A call that leaves both alone leaves what is known.
LEMMA KnownSame ==
  ASSUME KInv, KInv', UNCHANGED <<head, item>>, pc # "fill", pc' # "fill"
  PROVE  Known' = Known
BY KnownIs, KnownIsNext, PortSame DEF KInv, KnownRight

\* The steps of a pass that the tracer does not see.
LEMMA LookupHidden ==
  ASSUME KInv, KInv', Find \/ FindReverse
  PROVE  UNCHANGED T!vars
<1>1. UNCHANGED <<head, item>> /\ UNCHANGED <<running, cap, line>>
  BY DEF Find, FindReverse, PORT_VHash_FindStruct, VHash_Get_Node, Refuse, Silent
<1>2. pc # "fill" /\ pc' # "fill"
  BY DEF Find, FindReverse, Goes
<1> QED BY <1>1, <1>2, KnownSame DEF T!vars

\* Making the table cannot be seen: it is empty with it and without.
LEMMA InitHidden ==
  ASSUME KInv, KInv', InitTable
  PROVE  UNCHANGED T!vars
<1>1. UNCHANGED <<running, cap, line>> /\ pc # "fill" /\ pc' # "fill"
  BY DEF InitTable, Goes, Silent
<1>2. CASE UNCHANGED <<head, item>>
  BY <1>1, <1>2, KnownSame DEF T!vars
<1>3. CASE ~UNCHANGED <<head, item>>
  <2>1. head[en_PORT] = Null /\ head' = [head EXCEPT ![en_PORT] = NewHead(TRUE)] /\ item' = item
    BY <1>3, InitCompletes DEF InitTable, VHash_Init, VHash_Create_Moudle, HasTable
  <2>2. head'[en_PORT] = NewHead(TRUE)
    BY <2>1, Callbacks DEF KInv, TableInv, IInv, Shape
  <2>3. \A h \in Buckets : DOMAIN head'[en_PORT].bucket[h] = {}
    <3>1. \A h \in Buckets : NewHead(TRUE).bucket[h] = << >>
      BY NewHeadEmpty
    <3>2. \A h \in Buckets : head'[en_PORT].bucket[h] = << >>
      BY <2>2, <3>1
    <3> QED BY <3>2
  <2>4. NodesOf(en_PORT) = {} /\ NodesOf(en_PORT)' = {}
    BY <2>1, <2>3 DEF NodesOf
  <2>5. Port' = Port
    BY <2>1, <2>4 DEF Port, Table
  <2> QED BY <1>1, <2>5, KnownIs, KnownIsNext DEF KInv, KnownRight, T!vars
<1> QED BY <1>2, <1>3

\* A frame that pkt_recv has nothing to do with.
LEMMA TakeMaps ==
  ASSUME KInv, KInv', NEW f, NEW ts, NEW buf, Given(f, ts, buf), Take(f, ts, buf)
  PROVE  [T!Next]_(T!vars)
<1>1. Known' = Known
  <2>1. UNCHANGED <<head, item>> /\ pc # "fill" /\ pc' # "fill"
    BY DEF Take, Goes, Ends, vars
  <2> QED BY <2>1, KnownSame
<1>2. CASE T!Accepted(f)
  BY <1>1, <1>2 DEF Take, Silent, T!vars
<1>3. CASE ~T!Accepted(f)
  <2>1. T!Skip(f, ts, buf) /\ running /\ running' = running
    BY <1>1, <1>3 DEF Take, Ends, T!Skip
  <2> QED BY <2>1, PassIsStep DEF T!pkt_recv
<1> QED BY <1>2, <1>3

\* The printed answer.
LEMMA AnswerMaps ==
  ASSUME KInv, KInv', Answer
  PROVE  T!Next
<1> DEFINE k == stPortItem
           n == Chain(en_PORT, k)[FirstHit(en_PORT, k)]
<1>1. /\ pc = "answer" /\ pc' # "fill" /\ k \in Keys /\ k = pass.frame.key
      /\ pstVhashItem \in NodesOf(en_PORT) /\ item[pstVhashItem].key = k
      /\ PORT_VHash_Del(k) /\ TableInv
      /\ cap' = pass /\ line' = T!Report(k, item[pstVhashItem].val, pass.ts)
      /\ running' = running
  BY PassKeys DEF Answer, KInv, PointerRight, KeyRight, Using, Ends, Goes
<1>2. /\ running /\ T!Accepted(pass.frame)
      /\ pass = [frame |-> pass.frame, ts |-> pass.ts, buf |-> pass.buf]
      /\ Given(pass.frame, pass.ts, pass.buf)
  BY <1>1 DEF KInv, PassRight, Using
<1>3. head[en_PORT] # Null /\ Ready(en_PORT) /\ en_PORT \in Ids
  BY <1>1, Callbacks DEF NodesOf, TableInv, Usable
<1>4. Hits(en_PORT, k) # {} /\ n = pstVhashItem
  BY <1>1, <1>3, SearchFinds DEF TableInv
<1>5. Loses(en_PORT, n)
  <2>1. DelFound(en_PORT, k)
    BY <1>1, <1>3, <1>4 DEF PORT_VHash_Del, VHash_Del_Node, DelFound, Refuse, RefuseIncomplete, Ready
  <2> QED BY <1>1, <1>3, <2>1, DelKeeps DEF TableInv
<1>6. Port' = Without(Port, k)
  <2>1. NodesOf(en_PORT) \subseteq DOMAIN item
    BY <1>1, <1>3 DEF TableInv, IInv, HeapIsTable
  <2>2. /\ NodesOf(en_PORT)' = NodesOf(en_PORT) \ {pstVhashItem}
        /\ \A o \in NodesOf(en_PORT) \ {pstVhashItem} : item'[o] = item[o]
    BY <1>4, <1>5, <2>1 DEF Loses
  <2>3. OneEach(NodesOf(en_PORT), item)
    BY <1>1, PortHolds
  <2>4. Table(NodesOf(en_PORT) \ {pstVhashItem}, item') = Without(Port, item[pstVhashItem].key)
    BY <1>1, <2>2, <2>3, TableWithoutNode DEF Port
  <2> QED BY <1>1, <2>2, <2>4 DEF Port
<1> HIDE DEF k
<1>7. Known = Port /\ Known' = Without(Port, k)
  BY <1>1, <1>6, KnownIs, KnownIsNext DEF KInv, KnownRight
<1>8. k \in DOMAIN Port /\ Port[k] = item[pstVhashItem].val
  BY <1>1, PortHolds DEF Holds
<1>9. T!Without(Known, k) = Without(Port, k)
  BY <1>7 DEF T!Without, Without
<1>10. T!Answer(pass.frame, pass.ts, pass.buf)
  BY <1>1, <1>2, <1>7, <1>8, <1>9 DEF T!Answer
<1> QED BY <1>1, <1>2, <1>10, PassIsStep DEF T!pkt_recv

\* A write through the pointer changes the value of its key.
Stored(t, key, val) == [t EXCEPT ![key] = val]

\* A write through the pointer changes the value of its key.
LEMMA WriteStores ==
  ASSUME TableInv, pstVhashItem \in NodesOf(en_PORT), NEW v, Write(v)
  PROVE  Port' = Stored(Port, item[pstVhashItem].key, v)
<1>1. /\ NodesOf(en_PORT)' = NodesOf(en_PORT)
      /\ item'[pstVhashItem].key = item[pstVhashItem].key /\ item'[pstVhashItem].val = v
      /\ \A n \in NodesOf(en_PORT) \ {pstVhashItem} : item'[n] = item[n]
  <2>1. NodesOf(en_PORT) \subseteq DOMAIN item
    BY Callbacks DEF TableInv, IInv, HeapIsTable
  <2> QED BY <2>1, WriteKeeps
<1>2. OneEach(NodesOf(en_PORT), item)
  BY PortHolds
<1>3. Table(NodesOf(en_PORT), item')
        = [Table(NodesOf(en_PORT), item) EXCEPT ![item[pstVhashItem].key] = item'[pstVhashItem].val]
  BY <1>1, <1>2, TableWritten
<1> QED BY <1>1, <1>3 DEF Port, Stored

\* The request again: its entry gets the time of the frame.
LEMMA AgainMaps ==
  ASSUME KInv, KInv', Again
  PROVE  T!Next
<1> DEFINE k == stPortItem
           v == [item[pstVhashItem].val EXCEPT !.ts = pass.ts]
<1>1. /\ pc = "again" /\ pc' # "fill" /\ k \in Keys /\ k = T!Rev(pass.frame.key)
      /\ pstVhashItem \in NodesOf(en_PORT) /\ item[pstVhashItem].key = k
      /\ Write(v) /\ TableInv /\ ~HasKey(pass.frame.key)
      /\ cap' = pass /\ line' = NoLine /\ running' = running
  BY PassKeys DEF Again, KInv, PointerRight, KeyRight, Unfound, Using, Ends, Goes
<1>2. /\ running /\ T!Accepted(pass.frame)
      /\ pass = [frame |-> pass.frame, ts |-> pass.ts, buf |-> pass.buf]
      /\ Given(pass.frame, pass.ts, pass.buf)
  BY <1>1 DEF KInv, PassRight, Using
<1>3. /\ k \in DOMAIN Port /\ Port[k] = item[pstVhashItem].val
      /\ pass.frame.key \notin DOMAIN Port
      /\ OneEach(NodesOf(en_PORT), item)
  BY <1>1, PortHolds DEF Holds
<1>4. Port' = Stored(Port, k, v)
  <2> HIDE DEF v
  <2> QED BY <1>1, WriteStores
<1>5. Port' = [Port EXCEPT ![k] = v]
  BY <1>4 DEF Stored
<1>6. Known = Port /\ Known' = Port'
  BY <1>1, KnownIs, KnownIsNext DEF KInv, KnownRight
<1>7. Known' = [Known EXCEPT ![T!Rev(pass.frame.key)].ts = pass.ts]
  BY <1>1, <1>3, <1>5, <1>6
<1>8. T!Again(pass.frame, pass.ts, pass.buf)
  BY <1>1, <1>2, <1>3, <1>6, <1>7 DEF T!Again
<1> QED BY <1>1, <1>2, <1>8, PassIsStep DEF T!pkt_recv

\* The payload is no request.
LEMMA ParseMaps ==
  ASSUME KInv, KInv', Parse
  PROVE  [T!Next]_(T!vars)
<1>1. PICK parsed \in {T!redis_cmd_parse(pass.buf, Len(pass.frame.data))} :
        /\ pass' = [pass EXCEPT !.buf = parsed.buf]
        /\ IF parsed.ret = 0 THEN pc' = "add" /\ Silent
           ELSE pc' = "next_ex" /\ cap' = pass' /\ line' = NoLine /\ running' = running
  BY DEF Parse, Goes, Ends
<1>2. /\ pc = "parse" /\ running /\ T!Accepted(pass.frame)
      /\ stPortItem = T!Rev(pass.frame.key)
      /\ ~HasKey(pass.frame.key) /\ ~HasKey(stPortItem) /\ TableInv
      /\ pass = [frame |-> pass.frame, ts |-> pass.ts, buf |-> pass.buf]
      /\ Given(pass.frame, pass.ts, pass.buf)
  BY DEF Parse, KInv, PassRight, KeyRight, PointerRight, Unfound, Looking
<1>3. Known = Port /\ Known' = Known
  <2>1. UNCHANGED <<head, item>> /\ pc' # "fill"
    BY <1>1 DEF Parse, pvars, vars
  <2> QED BY <1>2, <2>1, KnownSame, KnownIs DEF KnownRight
<1>4. CASE parsed.ret = 0
  BY <1>1, <1>3, <1>4 DEF Silent, T!vars
<1>5. CASE parsed.ret # 0
  <2>1. pass.frame.key \notin DOMAIN Port /\ stPortItem \notin DOMAIN Port
    BY <1>2, PortHolds DEF Holds, HasKey
  <2>2. cap' = [frame |-> pass.frame, ts |-> pass.ts, buf |-> parsed.buf]
    BY <1>1, <1>2, <1>5
  <2>3. T!Request(pass.frame, pass.ts, pass.buf)
    BY <1>1, <1>2, <1>3, <1>5, <2>1, <2>2 DEF T!Request
  <2>4. running' = running
    BY <1>1, <1>5
  <2> QED BY <1>2, <2>3, <2>4, PassIsStep DEF T!pkt_recv
<1> QED BY <1>4, <1>5

\* Where an addition leaves a NULL pointer, the table is as it was; where it
\* does not, but for the new entry.
LEMMA AddedEntry ==
  ASSUME TableInv, pstVhashItem = Null, NEW k \in Keys, ~HasKey(k), PORT_VHash_Add(k)
  PROVE  IF pstVhashItem' = Null THEN Port' = Port ELSE Without(Port', k) = Port
<1>1. Outcome(k) /\ pstVhashItem' = res'.node
  <2>1. Outcome(k)
    BY CallOutcome DEF PORT_VHash_Add
  <2> QED BY <2>1 DEF PORT_VHash_Add, Added, Outcome
<1>2. ~AddFound(en_PORT, k)
  BY Callbacks, SearchFinds DEF AddFound, TableInv, HasKey
<1>3. CASE AddNew(en_PORT, k)
  <2>1. PICK n : Gains(en_PORT, k, n)
    BY <1>3, Callbacks, AddKeeps DEF TableInv
  <2>2. /\ NodesOf(en_PORT)' = NodesOf(en_PORT) \cup {n} /\ n \notin NodesOf(en_PORT)
        /\ res'.node = n /\ item'[n].key = k
        /\ \A o \in NodesOf(en_PORT) : item'[o] = item[o]
    <3>1. NodesOf(en_PORT) \subseteq DOMAIN item
      BY Callbacks DEF TableInv, IInv, HeapIsTable
    <3> QED BY <2>1, <3>1 DEF Gains, Gives
  <2>3. pstVhashItem' # Null
    BY <1>1, <1>3 DEF Outcome, AddNew, Gives, HasKey
  <2>4. OneEach(NodesOf(en_PORT), item) /\ OneEach(NodesOf(en_PORT) \cup {n}, item')
    <3>1. OneEach(NodesOf(en_PORT), item)
      BY PortHolds
    <3> QED BY <2>2, <3>1 DEF OneEach, HasKey
  <2>5. Table(NodesOf(en_PORT), item') = Port
    BY <2>2, <2>4, TableOfSame DEF Port
  <2>6. Table((NodesOf(en_PORT) \cup {n}) \ {n}, item')
          = Without(Table(NodesOf(en_PORT) \cup {n}, item'), item'[n].key)
    <3>1. n \in NodesOf(en_PORT) \cup {n}
      OBVIOUS
    <3> QED BY <2>4, <3>1, TableWithoutNode
  <2>7. (NodesOf(en_PORT) \cup {n}) \ {n} = NodesOf(en_PORT)
    BY <2>2
  <2>8. Port' = Table(NodesOf(en_PORT) \cup {n}, item')
    BY <2>2 DEF Port
  <2> QED BY <2>2, <2>3, <2>5, <2>6, <2>7, <2>8
<1>4. CASE AddFails(en_PORT, k) \/ Refuse(en_PORT) \/ RefuseIncomplete(en_PORT)
  <2>1. UNCHANGED <<head, item>> /\ res'.node = Null
    BY <1>4 DEF AddFails, Refuse, RefuseIncomplete, Answers, Returns, Gives
  <2> QED BY <1>1, <2>1, PortSame
<1> QED BY <1>2, <1>3, <1>4 DEF PORT_VHash_Add, VHash_Add_Node2

\* A request: its entry is made, and not yet seen; or it cannot be made.
LEMMA MakeMaps ==
  ASSUME KInv, KInv', Add
  PROVE  [T!Next]_(T!vars)
<1> DEFINE k == stPortItem
<1>1. /\ pc = "add" /\ k \in Keys /\ k = T!Rev(pass.frame.key) /\ stPortItem' = stPortItem
      /\ pstVhashItem = Null /\ TableInv
      /\ ~HasKey(pass.frame.key) /\ ~HasKey(k)
      /\ PORT_VHash_Add(k) /\ running' = running
      /\ IF pstVhashItem' # Null THEN pc' = "fill" /\ UNCHANGED <<cap, line>>
         ELSE pc' = "next_ex" /\ cap' = pass /\ line' = NoLine
  BY PassKeys DEF Add, KInv, PointerRight, KeyRight, Unfound, Looking, Ends, Goes, Silent
<1>2. /\ running /\ T!Accepted(pass.frame)
      /\ pass = [frame |-> pass.frame, ts |-> pass.ts, buf |-> pass.buf]
      /\ \E buf : Given(pass.frame, pass.ts, buf) /\ Parsed(buf)
  BY <1>1 DEF KInv, PassRight, Looking
<1>3. PICK buf : Given(pass.frame, pass.ts, buf) /\ Parsed(buf)
  BY <1>2
<1>4. Known = Port /\ KnownRight'
  BY <1>1, KnownIs, KnownIsNext DEF KInv, KnownRight
<1>5. IF pstVhashItem' = Null THEN Port' = Port ELSE Without(Port', k) = Port
  BY <1>1, AddedEntry
<1>6. CASE pstVhashItem' # Null
  <2>1. Known' = Without(Port', k)
    BY <1>1, <1>4, <1>6 DEF KnownRight
  <2> QED BY <1>1, <1>4, <1>5, <1>6, <2>1 DEF T!vars
<1>7. CASE pstVhashItem' = Null
  <2>1. Known' = Known
    BY <1>1, <1>4, <1>5, <1>7 DEF KnownRight
  <2>2. pass.frame.key \notin DOMAIN Known /\ k \notin DOMAIN Known
    BY <1>1, <1>4, PortHolds DEF Holds, HasKey
  <2>3. T!Request(pass.frame, pass.ts, buf)
    BY <1>1, <1>2, <1>3, <1>7, <2>1, <2>2, MallocAssumption DEF T!Request, Parsed
  <2> QED BY <1>1, <1>2, <1>3, <2>3, PassIsStep DEF T!pkt_recv
<1> QED BY <1>6, <1>7

\* The entry gets its time and name, and is seen.
LEMMA FillMaps ==
  ASSUME KInv, KInv', Fill
  PROVE  T!Next
<1> DEFINE k == stPortItem
           v == [ts |-> pass.ts, cmd |-> T!CmdString(stRedisCmd)]
<1>1. /\ pc = "fill" /\ pc' # "fill" /\ k \in Keys /\ k = T!Rev(pass.frame.key)
      /\ pstVhashItem \in NodesOf(en_PORT) /\ item[pstVhashItem].key = k
      /\ Write(v) /\ TableInv /\ (HasKey(pass.frame.key) => pass.frame.key = k)
      /\ cap' = pass /\ line' = NoLine /\ running' = running
  BY PassKeys DEF Fill, FrameTime, KInv, PointerRight, KeyRight, Unfound, Using, Ends, Goes
<1>2. /\ running /\ T!Accepted(pass.frame)
      /\ pass = [frame |-> pass.frame, ts |-> pass.ts, buf |-> pass.buf]
      /\ \E buf : Given(pass.frame, pass.ts, buf) /\ Parsed(buf)
  BY <1>1 DEF KInv, PassRight, Using
<1>3. PICK buf : Given(pass.frame, pass.ts, buf) /\ Parsed(buf)
  BY <1>2
<1>4. Port' = Stored(Port, k, v)
  <2> HIDE DEF v
  <2> QED BY <1>1, WriteStores
<1>5. Known = Without(Port, k) /\ Known' = Port'
  BY <1>1, KnownIs, KnownIsNext DEF KInv, KnownRight
<1>6. /\ k \in DOMAIN Port /\ DOMAIN Known = DOMAIN Port \ {k}
      /\ k \notin DOMAIN Known /\ pass.frame.key \notin DOMAIN Known
  BY <1>1, <1>5, PortHolds DEF Holds, HasKey, Without
<1>7. Known' = T!Put(Known, k, v)
  <2> HIDE DEF v
  <2>1. Port' = [x \in DOMAIN Port |-> IF x = k THEN v ELSE Port[x]]
    BY <1>4, PortHolds DEF Stored, Holds
  <2>2. DOMAIN Known \cup {k} = DOMAIN Port /\ \A x \in DOMAIN Known : Known[x] = Port[x]
    BY <1>5, <1>6 DEF Without
  <2> QED BY <1>5, <1>6, <2>1, <2>2 DEF T!Put
<1>8. T!Request(pass.frame, pass.ts, buf)
  BY <1>1, <1>2, <1>3, <1>6, <1>7 DEF T!Request, Parsed
<1> QED BY <1>1, <1>2, <1>3, <1>8, PassIsStep DEF T!pkt_recv

\* Every call is a pass of Tracer or cannot be seen.
LEMMA KStepMaps == KInv /\ KInv' /\ [KNext]_kvars => [T!Next]_(T!vars)
<1> SUFFICES ASSUME KInv, KInv', [KNext]_kvars PROVE [T!Next]_(T!vars)
  OBVIOUS
<1>1. ASSUME NEW f \in Frames, NEW ts \in Times, NEW stale \in Stale, Take(f, ts, f.data \o stale)
      PROVE  [T!Next]_(T!vars)
  <2>1. Given(f, ts, f.data \o stale)
    BY DEF Given
  <2> QED BY <1>1, <2>1, TakeMaps
<1>2. CASE Take(cap.frame, cap.ts, cap.buf)
  <2>1. Given(cap.frame, cap.ts, cap.buf)
    BY DEF Given
  <2> QED BY <1>2, <2>1, TakeMaps
<1>3. CASE InitTable \/ pkt_recv
  BY <1>3, InitHidden, LookupHidden, AnswerMaps, AgainMaps, ParseMaps, MakeMaps, FillMaps
     DEF pkt_recv
<1>4. CASE Fail
  <2>1. UNCHANGED <<head, item>> /\ pc # "fill" /\ pc' # "fill"
    BY <1>4 DEF Fail, pvars, vars
  <2>2. Known' = Known
    BY <2>1, KnownSame
  <2> QED BY <1>4, <2>2 DEF Fail, T!Next, T!Fail, T!PcapErrors, T!LoopGoesOn
<1>5. CASE UNCHANGED kvars
  <2>1. UNCHANGED <<head, item, running, cap, line>>
    BY <1>5 DEF kvars, pvars, vars
  <2>2. Port' = Port
    BY <2>1, PortSame
  <2>3. pc' = pc /\ stPortItem' = stPortItem
    BY <1>5 DEF kvars
  <2>4. KnownRight /\ KnownRight'
    BY KnownIs, KnownIsNext DEF KInv
  <2> QED BY <2>1, <2>2, <2>3, <2>4 DEF KnownRight, Without, T!vars
<1> QED BY <1>1, <1>2, <1>3, <1>4, <1>5 DEF KNext

\* The initial states agree.
LEMMA KInitMaps == KInit => T!Init
<1> SUFFICES ASSUME KInit PROVE T!Init
  OBVIOUS
<1>1. head[en_PORT] = Null
  BY Callbacks DEF KInit, PInit, Init
<1>2. Known = << >>
  BY <1>1 DEF Known
<1> QED BY <1>2 DEF KInit, T!Init

\* Pass by pass, whatever its calls return, pkt_recv on its hash table is the
\* tracer of Tracer, whose table is a partial function.
THEOREM ImplementsTracer == KSpec => TracerSpec
<1>1. KInit => T!Init
  BY KInitMaps
<1>2. KInv /\ KInv' /\ [KNext]_kvars => [T!Next]_(T!vars)
  BY KStepMaps
<1> QED BY <1>1, <1>2, PassInvariant, PTL DEF KSpec, TracerSpec, T!Spec
=============================================================================
