---------------------------- MODULE VHashLinked ----------------------------
(***************************************************************************)
(* The hash table of vhash.c at the level of its pointers: one module, its *)
(* chains linked by list.c, searched node by node, swept node by node, its *)
(* mutex taken and given back.  A call in progress has a program counter   *)
(* and the locals of the function it is in: at is entry, node is           *)
(* pstDateNode.  Nothing runs between the steps of a call: there is one    *)
(* thread, and it waits for ever for a mutex it holds itself.              *)
(*                                                                         *)
(* A freed node has no links: reading them is an error NeverLost excludes. *)
(***************************************************************************)
EXTENDS VHashCodes, ListLinks, FiniteSets

CONSTANTS
  BucketCount, Keys, Hash, Vals, ZeroVal, Nodes,  \* as in VHash
  UpdateAnswers, CopyAnswers, Null

Buckets == 0..(BucketCount - 1)  \* each stands for the list head in it too
Cells == Buckets \cup Nodes
TableType == [complete : BOOLEAN, sum : [Buckets -> Int], total : Int]
Searches == {"Get", "Add", "Add2", "Del"}
Sweeps == {"Clean", "Destory"}
NeedCallbacks == {"Add", "Add2", "Del", "Next"}
CallType == [op : Searches \cup Sweeps \cup {"Next", "Stat", "Lock"},
             key : Keys \cup {Null}, pc : {"lock", "run"},
             at : Cells \cup {Null, BucketCount}, node : Nodes \cup {Null}]

ASSUME BucketsAssumption == BucketCount \in Nat \ {0} /\ Hash \in [Keys -> Buckets]
ASSUME NodesAssumption == IsFiniteSet(Nodes) /\ Nodes \cap Buckets = {}
ASSUME NullAssumption ==
  /\ Null \notin Cells \cup TableType \cup CallType
  /\ Null \notin [complete : BOOLEAN, bucket : [Buckets -> Seq(Nodes)],
                  sum : [Buckets -> Int], total : Int]

VARIABLES
  uses,    \* what the program's callers use besides: "Lock" (and unLock), "Add"
  max,     \* g_uiMaxVhashModules
  table,   \* Null or [complete, sum, total]
  links,   \* list entries of buckets and nodes
  item,    \* the allocated nodes
  holder,  \* who holds the mutex: Null, "call", "caller" (by VHash_Lock)
  call,    \* Null or the call in progress: [op, key, pc, at, node]
  res,     \* the latest call that returned, as in VHash
  before   \* table, links and item when the call in progress began

vars == <<uses, max, table, links, item, holder, call, res, before>>

Free == Nodes \ DOMAIN item
Drop(n) == [m \in DOMAIN item \ {n} |-> item[m]]
Scrubbed(l, n) == [l EXCEPT !.Flink[n] = Null, !.Blink[n] = Null]

-----------------------------------------------------------------------------
Returns(of, ret, node, nums) ==
  /\ call' = Null
  /\ res' = [of |-> of, ret |-> ret, node |-> node, nums |-> nums]

\* Mistake: a path that forgets to.
LeavesLocked(of, ret, node, nums) ==
  /\ holder' = IF ret = VHASH_NOT_FOUND THEN holder ELSE Null
  /\ Returns(of, ret, node, nums)

\* The mutex is given back on every path that took it.
Leaves(of, ret, node, nums) == holder' = Null /\ Returns(of, ret, node, nums)

About == <<0, call.key>>

VHash_Init ==
  /\ call = Null /\ max = 0
  /\ \/ max' = 1 /\ Returns(Null, VHASH_OK, Null, << >>)
     \/ max' = 0 /\ Returns(Null, -1, Null, << >>)
  /\ UNCHANGED <<table, links, item, holder, before>>

\* No mutex is taken: there is none yet.
VHash_Create_Moudle(complete) ==
  /\ call = Null
  /\ \/ /\ max = 0
        /\ Returns(Null, VHASH_ERR, Null, << >>)
        /\ UNCHANGED <<table, links, holder>>
     \/ /\ table # Null
        /\ Returns(Null, VHASH_OK, Null, << >>)
        /\ UNCHANGED <<table, links, holder>>
     \/ /\ max = 1 /\ table = Null
        /\ \/ /\ table' = [complete |-> complete, sum |-> [h \in Buckets |-> 0], total |-> 0]
              /\ links' = [f \in DOMAIN links |->
                             [c \in Cells |-> IF c \in Buckets THEN c ELSE links[f][c]]]
              /\ holder' = Null
              /\ Returns(Null, VHASH_OK, Null, << >>)
           \/ Returns(Null, VHASH_NOT_INNIF, Null, << >>) /\ UNCHANGED <<table, links, holder>>
  /\ UNCHANGED <<max, item, before>>

\* Where the mutex is taken; before it, the checks.  VHash_Get_Node does not
\* check that there are callbacks, and is not called where there are none.
Begin(op, k, prev) ==
  /\ call = Null
  /\ op = "Get" /\ table # Null => table.complete
  /\ IF table = Null THEN Returns(Null, VHASH_ERR, Null, << >>)
     ELSE IF op \in NeedCallbacks /\ ~table.complete
     THEN Returns(Null, VHASH_INTERFACE_ERR, Null, << >>)
     ELSE /\ call' = [op |-> op, key |-> k, pc |-> "lock", at |-> prev, node |-> Null]
          /\ UNCHANGED res
  /\ before' = [table |-> table, links |-> links, item |-> item]
  /\ UNCHANGED <<max, table, links, item, holder>>

\* VHash_Node_Total reads the counter without the mutex.
VHash_Node_Total ==
  /\ call = Null /\ table # Null
  /\ Returns(Null, VHASH_OK, Null, <<table.total>>)
  /\ UNCHANGED <<max, table, links, item, holder, before>>

VHash_unLock ==
  /\ call = Null /\ holder = "caller"
  /\ holder' = Null
  /\ UNCHANGED <<max, table, links, item, call, res, before>>

PORT_VHash_Lock == "Lock" \in uses /\ table # Null /\ Begin("Lock", Null, Null)
PORT_VHash_unLock == "Lock" \in uses /\ VHash_unLock

\* The caller writes through the pointer it was given.
Store(v) ==
  /\ call = Null /\ res.node # Null
  /\ item' = [item EXCEPT ![res.node].val = v]
  /\ UNCHANGED <<max, table, links, holder, call, res, before>>

-----------------------------------------------------------------------------
Running(ops) == call # Null /\ call.pc = "run" /\ call.op \in ops

\* pthread_mutex_lock; VHash_Lock returns then, nothing else does.
Acquire ==
  /\ call # Null /\ call.pc = "lock" /\ holder = Null
  /\ IF call.op = "Lock" THEN holder' = "caller" /\ call' = Null
     ELSE /\ holder' = "call"
          /\ call' = [call EXCEPT !.pc = "run",
                        !.at = IF call.op \in Searches THEN links.Flink[Hash[call.key]]
                               ELSE IF call.op \in Sweeps THEN 0 ELSE @]
  /\ UNCHANGED <<max, table, links, item, res, before>>

AtEnd == call.at = Hash[call.key]
Matches == call.at \in DOMAIN item /\ item[call.at].key = call.key

Pass ==
  /\ Running(Searches) /\ ~AtEnd /\ ~Matches
  /\ call.at \in DOMAIN item
  /\ call' = [call EXCEPT !.node = call.at, !.at = links.Flink[call.at]]
  /\ UNCHANGED <<max, table, links, item, holder, res, before>>

GetFound ==
  /\ Running({"Get"}) /\ Matches
  /\ Leaves(About, VHASH_OK, call.at, << >>)
  /\ UNCHANGED <<max, table, links, item, before>>

\* VHash_Add_Node looks neither at what the copy returns nor gives a pointer.
AddFound ==
  /\ Running({"Add", "Add2"}) /\ Matches
  /\ \/ FALSE \in UpdateAnswers /\ Leaves(About, VHASH_EXIST, Null, << >>)
     \/ /\ TRUE \in UpdateAnswers
        /\ IF call.op = "Add" THEN Leaves(About, VHASH_OK, Null, << >>)
           ELSE \E c \in CopyAnswers :
                  IF c = VHASH_OK THEN Leaves(About, VHASH_UPDATE_OK, call.at, << >>)
                  ELSE Leaves(About, c, Null, << >>)
  /\ UNCHANGED <<max, table, links, item, before>>

DelFound ==
  /\ Running({"Del"}) /\ Matches
  /\ links' = Scrubbed(RemoveEntryList(links, call.at), call.at)
  /\ item' = Drop(call.at)
  /\ table' = [table EXCEPT !.sum[Hash[call.key]] = @ - 1, !.total = @ - 1]
  /\ Leaves(About, VHASH_OK, Null, << >>)
  /\ UNCHANGED <<max, before>>

NotFound ==
  /\ Running({"Get", "Del"}) /\ AtEnd
  /\ Leaves(About, VHASH_NOT_FOUND, Null, << >>)
  /\ UNCHANGED <<max, table, links, item, before>>

\* n, allocated or not, gets the key, goes to the end and is counted.
Link(n, k) ==
  /\ item' = [m \in DOMAIN item \cup {n} |->
                IF m = n THEN [key |-> k, val |-> ZeroVal] ELSE item[m]]
  /\ links' = InsertTailList(links, Hash[k], n)
  /\ table' = [table EXCEPT !.sum[Hash[k]] = @ + 1, !.total = @ + 1]

\* Mistake: the node looked at last, whatever node that is.
LookedAt == IF call.node = Null THEN Free ELSE {call.node}
Allocated == Free

AddNew ==
  /\ Running({"Add2"}) /\ AtEnd /\ VHASH_OK \in CopyAnswers
  /\ \E n \in Allocated : Link(n, call.key) /\ Leaves(About, VHASH_OK, n, << >>)
  /\ UNCHANGED <<max, before>>

AddFails ==
  /\ Running({"Add2"}) /\ AtEnd
  /\ \/ Leaves(About, VHASH_NOT_INNIF, Null, << >>)
     \/ Free # {} /\ \E c \in CopyAnswers \ {VHASH_OK} : Leaves(About, c, Null, << >>)
  /\ UNCHANGED <<max, table, links, item, before>>

\* VHash_Add_Node allocates nothing: it writes over the node it looked at
\* last, the tail, and links it a second time.
AddOver ==
  /\ Running({"Add"}) /\ AtEnd
  /\ IF call.node = Null
     THEN Leaves(About, VHASH_NOT_INNIF, Null, << >>) /\ UNCHANGED <<table, links, item>>
     ELSE Leaves(About, VHASH_OK, Null, << >>) /\ Link(call.node, call.key)
  /\ UNCHANGED <<max, before>>

\* Mistakes: the node is freed on its list; the counter is not reset.
OnItsList(h) == links
OffItsList(h) == RemoveHeadList(links, h)
KeptSum(h) == table.sum[h]
EmptySum(h) == 0

\* The loops of VHash_Clean_Moudle and VHash_Destory_Moudle.
SweepNode ==
  /\ Running(Sweeps) /\ call.at \in Buckets /\ ~IsListEmpty(links, call.at)
  /\ links' = Scrubbed(OffItsList(call.at), links.Flink[call.at])
  /\ item' = Drop(links.Flink[call.at])
  /\ UNCHANGED <<max, table, holder, call, res, before>>

SweepBucket ==
  /\ Running(Sweeps) /\ call.at \in Buckets /\ IsListEmpty(links, call.at)
  /\ table' = [table EXCEPT !.sum[call.at] = EmptySum(call.at)]
  /\ call' = [call EXCEPT !.at = @ + 1]
  /\ UNCHANGED <<max, links, item, holder, res, before>>

\* uiTotal is reset last, by VHash_Destory_Moudle in the module it frees.
SweepDone ==
  /\ Running(Sweeps) /\ call.at = BucketCount
  /\ table' = IF call.op = "Clean" THEN [table EXCEPT !.total = 0] ELSE Null
  /\ Leaves(Null, VHASH_OK, Null, << >>)
  /\ UNCHANGED <<max, links, item, before>>

\* From the caller's node along its chain, or the first node of the next
\* chain that has one; the end leaves the caller's pointer as it was.
VHash_Get_NextNode ==
  /\ Running({"Next"})
  /\ LET prev == call.at
         home == IF prev = Null THEN -1 ELSE Hash[item[prev].key]
         rest == {h \in Buckets : h > home /\ ~IsListEmpty(links, h)}
     IN  Leaves(Null, VHASH_OK,
                IF prev # Null /\ links.Flink[prev] # home THEN links.Flink[prev]
                ELSE IF rest = {} THEN Null
                ELSE links.Flink[CHOOSE h \in rest : \A g \in rest : h <= g],
                << >>)
  /\ UNCHANGED <<max, table, links, item, before>>

VHash_Node_Stat ==
  /\ Running({"Stat"})
  /\ Leaves(Null, VHASH_OK, Null, [i \in 1..BucketCount |-> table.sum[i - 1]])
  /\ UNCHANGED <<max, table, links, item, before>>

-----------------------------------------------------------------------------
Init ==
  /\ uses \in SUBSET {"Lock", "Add"}
  /\ max = 0
  /\ table = Null
  /\ links = [Flink |-> [c \in Cells |-> Null], Blink |-> [c \in Cells |-> Null]]
  /\ item = << >>
  /\ holder = Null
  /\ call = Null
  /\ res = [of |-> Null, ret |-> VHASH_OK, node |-> Null, nums |-> << >>]
  /\ before = [table |-> table, links |-> links, item |-> item]

\* A chain that does not come back to its head.
Looped(h) ==
  table # Null /\ Null \in {ListOf(links, h, Cardinality(Nodes), Null)[i] :
                              i \in DOMAIN ListOf(links, h, Cardinality(Nodes), Null)}

\* What comes after a chain is looped is followed only as far as searches:
\* a call that frees a node of it frees one that is still linked.
Calls ==
  \/ \E k \in Keys : Begin("Get", k, Null)
  \/ /\ \A h \in Buckets : ~Looped(h)
     /\ \/ \E k \in Keys :
             \/ \E op \in {"Add2", "Del"} : Begin(op, k, Null)
             \/ "Add" \in uses /\ Begin("Add", k, Null)
        \/ \E prev \in DOMAIN item \cup {Null} : Begin("Next", Null, prev)
        \/ \E op \in Sweeps \cup {"Stat"} : Begin(op, Null, Null)
        \/ PORT_VHash_Lock \/ PORT_VHash_unLock
        \/ \E complete \in BOOLEAN : VHash_Create_Moudle(complete)
        \/ VHash_Init \/ VHash_Node_Total
        \/ \E v \in Vals : Store(v)

Continues ==
  \/ Acquire \/ Pass
  \/ GetFound \/ AddFound \/ DelFound \/ NotFound \/ AddNew \/ AddFails \/ AddOver
  \/ SweepNode \/ SweepBucket \/ SweepDone
  \/ VHash_Get_NextNode \/ VHash_Node_Stat

Next == (Calls \/ Continues) /\ UNCHANGED uses

Spec == Init /\ [][Next]_vars

\* A thread that can go on does.
FairSpec == Spec /\ WF_vars(Continues /\ UNCHANGED uses)

-----------------------------------------------------------------------------
\* But for VHash_Add_Node, no step of any call leaves the memory of the
\* table: the links of every bucket and every allocated node are rings over
\* just these cells, and the loop of the call in progress stands at one of
\* them.
NeverLost ==
  (table # Null /\ "Add" \notin uses) =>
    LET live == Buckets \cup DOMAIN item
    IN  /\ \A c \in live :
             /\ links.Flink[c] \in live /\ links.Blink[links.Flink[c]] = c
             /\ links.Blink[c] \in live /\ links.Flink[links.Blink[c]] = c
        /\ Running(Searches) => call.at \in live

\* A call that has the mutex, or can get it, returns: every path gives the
\* mutex back to the calls that come after, and every loop ends.  The two
\* exceptions: its caller holds the mutex, by VHash_Lock; and it searches a
\* chain VHash_Add_Node has looped.
CallsReturn ==
  (call # Null /\ holder # "caller" /\ ~(call.op \in Searches /\ Looped(Hash[call.key])))
    ~> (call = Null)

\* A chain is looped by VHash_Add_Node of a key that is not in it, unless it
\* is empty, and by nothing else.
OnlyAddNodeLoops ==
  [][\A h \in Buckets :
       ~Looped(h) => (Looped(h)' <=> AddOver /\ h = Hash[call.key] /\ call.node # Null)]_vars

\* Between calls the table is that of VHash; a call takes effect when it
\* returns, and the caller cannot tell it from a single step, in a program
\* that does without VHash_Add_Node.
Seen == IF call = Null THEN [table |-> table, links |-> links, item |-> item] ELSE before
Abstract ==
  INSTANCE VHash
    WITH Ids <- {0}, ModuleMax <- 1,
         UpdateAnswers <- [m \in {0} |-> UpdateAnswers],
         CopyAnswers <- [m \in {0} |-> CopyAnswers],
         head <- [m \in {0} |->
                    IF Seen.table = Null THEN Null
                    ELSE [complete |-> Seen.table.complete,
                          bucket |-> [h \in Buckets |->
                                        ListOf(Seen.links, h, Cardinality(Nodes), Null)],
                          sum |-> Seen.table.sum, total |-> Seen.table.total]],
         item <- Seen.item
AtomicSpec ==
  Abstract!Init /\ []["Add" \in uses \/ Abstract!Next]_<<Abstract!vars>>
=============================================================================
