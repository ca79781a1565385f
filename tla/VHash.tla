------------------------------- MODULE VHash -------------------------------
(***************************************************************************)
(* The hash table of vhash.c: a table of modules, each with buckets of     *)
(* nodes chained through list.c.  Here a chain is a sequence of nodes.     *)
(*                                                                         *)
(* A node is its address: malloc gives one that is free, free returns it,  *)
(* and an address may come back.  A call leaves in res the module and key  *)
(* it was about, if it was about one, and what it returned: the code, the  *)
(* node whose data it let *ppData or *ppNodeData point at, and the numbers *)
(* it reported.  The caller may write through that pointer until it makes  *)
(* the next call.                                                          *)
(*                                                                         *)
(* Each call is one step: it holds the module's lock, and the program has  *)
(* one thread.                                                             *)
(***************************************************************************)
EXTENDS VHashCodes, Integers, SequencesExt

CONSTANTS
  Ids,            \* the module ids callers use; not all need be in range
  ModuleMax,      \* what VHash_Init is called with (en_VHASH_MOUDLE_MAX)
  BucketCount,    \* uiBucketCount
  Keys,
  Hash,           \* pfnVHash_Calc: [Keys -> 0..BucketCount-1]
  Vals, ZeroVal,  \* the caller's data; what memset leaves
  Nodes,          \* addresses malloc can give
  UpdateAnswers,  \* what pfnVHash_IsUpdate of a module may answer
  CopyAnswers,    \* what pfnVHash_cpy of a module may answer
  Null

Buckets == 0..(BucketCount - 1)
HeadType == [complete : BOOLEAN, bucket : [Buckets -> Seq(Nodes)],
             sum : [Buckets -> Nat], total : Nat]

ASSUME IdsAssumption == Ids \subseteq Nat /\ ModuleMax \in Nat
ASSUME BucketsAssumption == BucketCount \in Nat \ {0} /\ Hash \in [Keys -> Buckets]
ASSUME NodesAssumption == IsFiniteSet(Nodes) /\ Null \notin Nodes \cup HeadType
ASSUME ValsAssumption == ZeroVal \in Vals
\* Null is also what MapSpec has for a module without a table.
ASSUME NoTableAssumption == \A keys \in SUBSET Keys : Null \notin [keys -> Vals]
ASSUME AnswersAssumption ==
  /\ UpdateAnswers \in [Ids -> SUBSET BOOLEAN]
  /\ CopyAnswers \in [Ids -> SUBSET {VHASH_OK, VHASH_ERR}]

VARIABLES
  max,   \* g_uiMaxVhashModules
  head,  \* g_astVHashHead: Null or [complete, bucket, sum, total]
  item,  \* the allocated nodes: address -> [key, val]
  res    \* the latest call: [of, ret, node, nums]

vars == <<max, head, item, res>>

-----------------------------------------------------------------------------
Gives(of, ret, node, nums) ==
  res' = [of |-> of, ret |-> ret, node |-> node, nums |-> nums]
Returns(ret) == Gives(Null, ret, Null, << >>)
Answers(m, k, ret) == Gives(<<m, k>>, ret, Null, << >>)

NewHead(complete) ==
  [complete |-> complete,               \* the callbacks were given
   bucket |-> [h \in Buckets |-> << >>],
   sum |-> [h \in Buckets |-> 0],       \* ulDataNodeSum
   total |-> 0]                         \* uiTotal

InRange(m) == m < max
HasTable(m) == InRange(m) /\ head[m] # Null
Ready(m) == HasTable(m) /\ head[m].complete

Chain(m, k) == head[m].bucket[Hash[k]]
NodesOf(m) ==
  IF head[m] = Null THEN {}
  ELSE UNION {{head[m].bucket[h][i] : i \in DOMAIN head[m].bucket[h]} : h \in Buckets}
Free == Nodes \ DOMAIN item

\* Equal in addresses and ports, in the module of port_vhash.c.
pfnVHash_Compare(k, n) == item[n].key = k

\* The loop over a chain stops at the first node whose key compares equal.
Hits(m, k) == {i \in DOMAIN Chain(m, k) : pfnVHash_Compare(k, Chain(m, k)[i])}
\* Mistake: the keys are not compared.
HeadOfChain(m, k) == 1
FirstHit(m, k) == CHOOSE i \in Hits(m, k) : \A j \in Hits(m, k) : i <= j

Drop(nodes) == [n \in DOMAIN item \ nodes |-> item[n]]

-----------------------------------------------------------------------------
\* Called once, before anything else.  malloc may fail: then there is no
\* module and every later call is refused.
VHash_Init ==
  /\ max = 0
  /\ \/ max' = ModuleMax /\ Returns(VHASH_OK)
     \/ max' = 0 /\ Returns(-1)
  /\ UNCHANGED <<head, item>>

VHash_Create_Moudle(m, complete) ==
  /\ \/ /\ ~InRange(m)
        /\ Returns(VHASH_ERR)
        /\ UNCHANGED head
     \/ /\ HasTable(m)
        /\ Returns(VHASH_OK)
        /\ UNCHANGED head
     \/ /\ InRange(m) /\ ~HasTable(m)
        /\ \/ head' = [head EXCEPT ![m] = NewHead(complete)] /\ Returns(VHASH_OK)
           \/ UNCHANGED head /\ Returns(VHASH_NOT_INNIF)
  /\ UNCHANGED <<max, item>>

\* All calls but Init and Create begin so.
Refuse(m) ==
  /\ ~HasTable(m)
  /\ Returns(VHASH_ERR)
  /\ UNCHANGED <<max, head, item>>

\* A module created without callbacks: Add_Node2, Get_NextNode and Del_Node
\* look for them; Get_Node does not, and is not called on such a module.
RefuseIncomplete(m) ==
  /\ HasTable(m) /\ ~head[m].complete
  /\ Returns(VHASH_INTERFACE_ERR)
  /\ UNCHANGED <<max, head, item>>

VHash_Destory_Moudle(m) ==
  /\ HasTable(m)
  /\ item' = Drop(NodesOf(m))
  /\ head' = [head EXCEPT ![m] = Null]
  /\ Returns(VHASH_OK)
  /\ UNCHANGED max

\* Mistakes: the nodes are not freed; uiTotal is not reset.
CleanLeaks(m) ==
  /\ HasTable(m)
  /\ head' = [head EXCEPT ![m] = NewHead(@.complete)]
  /\ Returns(VHASH_OK)
  /\ UNCHANGED <<max, item>>

CleanKeepsTotal(m) ==
  /\ HasTable(m)
  /\ item' = Drop(NodesOf(m))
  /\ head' = [head EXCEPT ![m] = [NewHead(@.complete) EXCEPT !.total = head[m].total]]
  /\ Returns(VHASH_OK)
  /\ UNCHANGED max

VHash_Clean_Moudle(m) ==
  /\ HasTable(m)
  /\ item' = Drop(NodesOf(m))
  /\ head' = [head EXCEPT ![m] = NewHead(@.complete)]
  /\ Returns(VHASH_OK)
  /\ UNCHANGED max

VHash_Get_Node(m, k) ==
  /\ Ready(m)
  /\ IF Hits(m, k) # {}
     THEN Gives(<<m, k>>, VHASH_OK, Chain(m, k)[FirstHit(m, k)], << >>)
     ELSE Answers(m, k, VHASH_NOT_FOUND)
  /\ UNCHANGED <<max, head, item>>

\* The key is there: it is compared equal, so that copying it again changes
\* nothing.
AddFound(m, k) ==
  /\ Ready(m) /\ Hits(m, k) # {}
  /\ \/ /\ TRUE \in UpdateAnswers[m]
        /\ \E c \in CopyAnswers[m] :
             IF c = VHASH_OK
             THEN Gives(<<m, k>>, VHASH_UPDATE_OK, Chain(m, k)[FirstHit(m, k)], << >>)
             ELSE Answers(m, k, c)
     \/ FALSE \in UpdateAnswers[m] /\ Answers(m, k, VHASH_EXIST)
  /\ UNCHANGED <<max, head, item>>

\* Mistake: a node is added whether or not the key is there.
AddAlways(m, k) ==
  /\ Ready(m)
  /\ \E n \in Free :
       /\ item' = [x \in DOMAIN item \cup {n} |->
                     IF x = n THEN [key |-> k, val |-> ZeroVal] ELSE item[x]]
       /\ head' = [head EXCEPT ![m].bucket[Hash[k]] = Append(@, n),
                               ![m].sum[Hash[k]] = @ + 1,
                               ![m].total = @ + 1]
       /\ Gives(<<m, k>>, VHASH_OK, n, << >>)
  /\ UNCHANGED max

AddNew(m, k) ==
  /\ Ready(m) /\ Hits(m, k) = {}
  /\ VHASH_OK \in CopyAnswers[m]
  /\ \E n \in Free :
       /\ item' = [x \in DOMAIN item \cup {n} |->
                     IF x = n THEN [key |-> k, val |-> ZeroVal] ELSE item[x]]
       /\ head' = [head EXCEPT ![m].bucket[Hash[k]] = Append(@, n),
                               ![m].sum[Hash[k]] = @ + 1,
                               ![m].total = @ + 1]
       /\ Gives(<<m, k>>, VHASH_OK, n, << >>)
  /\ UNCHANGED max

\* malloc fails, or the copy does and the node is freed again.
AddFails(m, k) ==
  /\ Ready(m) /\ Hits(m, k) = {}
  /\ \/ Answers(m, k, VHASH_NOT_INNIF)
     \/ \E c \in CopyAnswers[m] \ {VHASH_OK} : Free # {} /\ Answers(m, k, c)
  /\ UNCHANGED <<max, head, item>>

VHash_Add_Node2(m, k) == AddFound(m, k) \/ AddNew(m, k) \/ AddFails(m, k)

\* Mistakes: the search goes on in the chain that is at its end; it goes on
\* two chains further.
NextAgain(m, prev) ==
  LET rest == {h \in Buckets : head[m].bucket[h] # << >>
                               /\ (prev # Null => h >= Hash[item[prev].key])}
  IN  IF rest = {} THEN Null
      ELSE Head(head[m].bucket[CHOOSE h \in rest : \A g \in rest : h <= g])

NextBeyond(m, prev) ==
  LET rest == {h \in Buckets : head[m].bucket[h] # << >>
                               /\ (prev # Null => h >= Hash[item[prev].key] + 2)}
  IN  IF rest = {} THEN Null
      ELSE Head(head[m].bucket[CHOOSE h \in rest : \A g \in rest : h <= g])

\* The node behind prev in its chain, or the first of the next chain that
\* has one, or Null: then *ppNodeData is left as the caller set it.
NextOf(m, prev) ==
  LET home == Hash[item[prev].key]
      at == CHOOSE i \in DOMAIN head[m].bucket[home] : head[m].bucket[home][i] = prev
      from == IF prev = Null THEN 0 ELSE home + 1
      rest == {h \in Buckets : h >= from /\ head[m].bucket[h] # << >>}
  IN  IF prev # Null /\ at < Len(head[m].bucket[home])
      THEN head[m].bucket[home][at + 1]
      ELSE IF rest = {} THEN Null
      ELSE Head(head[m].bucket[CHOOSE h \in rest : \A g \in rest : h <= g])

\* The caller gives a node of the module and its key, or NULL to begin.
VHash_Get_NextNode(m, prev) ==
  /\ Ready(m)
  /\ prev \in NodesOf(m) \cup {Null}
  /\ Gives(Null, VHASH_OK, NextOf(m, prev), << >>)
  /\ UNCHANGED <<max, head, item>>

\* Mistake: the counters are decremented though nothing was found.
DelUnfound(m, k) ==
  /\ Ready(m) /\ Hits(m, k) = {}
  /\ head' = [head EXCEPT ![m].sum[Hash[k]] = @ - 1, ![m].total = @ - 1]
  /\ Answers(m, k, VHASH_NOT_FOUND)
  /\ UNCHANGED <<max, item>>

VHash_Del_Node(m, k) ==
  /\ Ready(m)
  /\ \/ /\ Hits(m, k) # {}
        /\ LET i == FirstHit(m, k)
           IN  /\ item' = Drop({Chain(m, k)[i]})
               /\ head' = [head EXCEPT ![m].bucket[Hash[k]] = RemoveAt(@, i),
                                       ![m].sum[Hash[k]] = @ - 1,
                                       ![m].total = @ - 1]
        /\ Answers(m, k, VHASH_OK)
     \/ /\ Hits(m, k) = {}
        /\ Answers(m, k, VHASH_NOT_FOUND)
        /\ UNCHANGED <<head, item>>
  /\ UNCHANGED max

VHash_Node_Stat(m) ==
  /\ HasTable(m)
  /\ Gives(Null, VHASH_OK, Null, [i \in 1..BucketCount |-> head[m].sum[i - 1]])
  /\ UNCHANGED <<max, head, item>>

VHash_Node_Total(m) ==
  /\ HasTable(m)
  /\ Gives(Null, VHASH_OK, Null, <<head[m].total>>)
  /\ UNCHANGED <<max, head, item>>

\* The caller writes the data of the node it was given (pkt_recv: the time
\* and the name of the command).
Store(v) ==
  /\ res.node # Null
  /\ item' = [item EXCEPT ![res.node].val = v]
  /\ UNCHANGED <<max, head, res>>

Init ==
  /\ max = 0
  /\ head = [m \in Ids |-> Null]
  /\ item = << >>
  /\ res = [of |-> Null, ret |-> VHASH_OK, node |-> Null, nums |-> << >>]

Call(m) ==
  \/ \E complete \in BOOLEAN : VHash_Create_Moudle(m, complete)
  \/ Refuse(m) \/ RefuseIncomplete(m)
  \/ VHash_Destory_Moudle(m) \/ VHash_Clean_Moudle(m)
  \/ \E k \in Keys : VHash_Get_Node(m, k) \/ VHash_Add_Node2(m, k) \/ VHash_Del_Node(m, k)
  \/ \E prev \in Nodes \cup {Null} : VHash_Get_NextNode(m, prev)
  \/ VHash_Node_Stat(m) \/ VHash_Node_Total(m)

Next == VHash_Init \/ (\E m \in Ids : Call(m)) \/ (\E v \in Vals : Store(v))

Spec == Init /\ [][Next]_vars

-----------------------------------------------------------------------------
TypeOK ==
  /\ max \in {0, ModuleMax}
  /\ DOMAIN head = Ids
  /\ \A m \in Ids : head[m] \in HeadType \cup {Null}
  /\ DOMAIN item \subseteq Nodes
  /\ \A n \in DOMAIN item : item[n] \in [key : Keys, val : Vals]
  /\ res.ret \in -1..VHASH_UPDATE_OK
  /\ res.node \in Nodes \cup {Null}

\* Whatever calls are made, in whatever order and whichever fail: an allocated
\* node is in one chain of one module, once, the chain its key hashes to, and
\* a node in a chain is allocated.  Nothing leaks and nothing dangles, the
\* pointer the latest call gave included.
HeapIsTable ==
  /\ DOMAIN item = UNION {NodesOf(m) : m \in Ids}
  /\ \A m, o \in Ids : m # o => NodesOf(m) \cap NodesOf(o) = {}
  /\ \A m \in Ids : head[m] # Null =>
       \A h \in Buckets :
         /\ \A i \in DOMAIN head[m].bucket[h] : Hash[item[head[m].bucket[h][i]].key] = h
         /\ \A i, j \in DOMAIN head[m].bucket[h] :
              head[m].bucket[h][i] = head[m].bucket[h][j] => i = j
  /\ res.node # Null => res.node \in DOMAIN item

\* A module has at most one node for a key.
KeysUnique ==
  \A m \in Ids : \A n, o \in NodesOf(m) : item[n].key = item[o].key => n = o

\* ulDataNodeSum and uiTotal count the nodes.
CountersAgree ==
  \A m \in Ids : head[m] # Null =>
    /\ \A h \in Buckets : head[m].sum[h] = Len(head[m].bucket[h])
    /\ head[m].total = Cardinality(NodesOf(m))

\* The table is a partial function from keys to the values stored last.
NodeOf(m, k) == CHOOSE n \in NodesOf(m) : item[n].key = k
ModuleOf(n) == CHOOSE m \in Ids : n \in NodesOf(m)
Contents(m) ==
  [k \in {item[n].key : n \in NodesOf(m)} |-> item[NodeOf(m, k)].val]
Map == INSTANCE PortMap
         WITH NoTable <- Null, NoEntry <- Null, Codes <- -1..VHASH_UPDATE_OK,
              dict <- [m \in Ids |-> IF head[m] = Null THEN Null ELSE Contents(m)],
              got <- [of |-> res.of, ret |-> res.ret, nums |-> res.nums,
                      entry |-> IF res.node = Null THEN Null
                                ELSE <<ModuleOf(res.node), item[res.node].key>>]
MapSpec == Map!PSpec
=============================================================================
