----------------------------- MODULE PortVHash -----------------------------
(***************************************************************************)
(* The wrappers of port_vhash.c: the module en_PORT of the hash table, and *)
(* the PORT_VHASH_ITEM pointer of their caller, which a call sets or       *)
(* leaves as it was.                                                       *)
(***************************************************************************)
EXTENDS VHash

\* Of EN_VHASH_MOUDLE_ID, the first and only module.
en_PORT == 0

\* An entry that is there may always be updated.
PORT_VHash_IsUpdate == VHASH_OK

\* sizeof(PORT_VHASH_ITEM): the time, cmd and the PORT_ITEM, without padding.
ItemSize == 4 + 4 + 32 + 12

\* Only the key is copied: time and command are left to the caller.
MAC_VHash_copy(uiLen) == IF ItemSize > uiLen THEN VHASH_ERR ELSE VHASH_OK

\* Nothing in an item needs more than to be freed.
PORT_VHash_clean == VHASH_OK

\* The VHASH_MOUDLE handed to the hash table: uiDataLen, which every call
\* hands to the copy, and what the callbacks answer; the rest is NULL.
stvhm ==
  [uiDataLen |-> ItemSize, Calc |-> Hash, Compare |-> VHASH_OK,
   IsUpdate |-> PORT_VHash_IsUpdate, clean |-> PORT_VHash_clean,
   cpy |-> MAC_VHash_copy(ItemSize)]
Needed == {"Calc", "Compare", "IsUpdate", "cpy"}

ASSUME PortAssumption ==
  /\ en_PORT \in Ids
  /\ UpdateAnswers[en_PORT] = {stvhm.IsUpdate = VHASH_OK}
  /\ CopyAnswers[en_PORT] = {stvhm.cpy}

VARIABLES
  pstVhashItem,  \* the caller's pointer: Null or a node
  told           \* the code said that there is an entry

pvars == <<vars, pstVhashItem, told>>

Tells(codes) == told' = (res'.ret \in codes)
Keeps == UNCHANGED pstVhashItem /\ told' = FALSE

\* main calls VHash_Init(en_VHASH_MOUDLE_MAX) and then this; what they return
\* is not looked at.
PORT_VHash_INIT == VHash_Create_Moudle(en_PORT, Needed \subseteq DOMAIN stvhm) /\ Keeps

\* Mistake: a new node is not handed to the caller.
Updated == {VHASH_UPDATE_OK}
Added == {VHASH_OK, VHASH_UPDATE_OK}

PORT_VHash_Add(k) ==
  /\ VHash_Add_Node2(en_PORT, k) \/ Refuse(en_PORT) \/ RefuseIncomplete(en_PORT)
  /\ pstVhashItem' = IF res'.ret \in Added /\ res'.node # Null
                     THEN res'.node ELSE pstVhashItem
  /\ Tells({VHASH_OK, VHASH_UPDATE_OK})

\* It adds what is not there, like Add, but gives no pointer then.
PORT_VHash_Update(k) ==
  /\ VHash_Add_Node2(en_PORT, k) \/ Refuse(en_PORT) \/ RefuseIncomplete(en_PORT)
  /\ pstVhashItem' = IF res'.ret = VHASH_UPDATE_OK THEN res'.node ELSE pstVhashItem
  /\ Tells({VHASH_UPDATE_OK})

PORT_VHash_Del(k) ==
  /\ VHash_Del_Node(en_PORT, k) \/ Refuse(en_PORT) \/ RefuseIncomplete(en_PORT)
  /\ Keeps

\* Mistake: what the loop of the search looked at last.
SearchedLast(k) ==
  IF Ready(en_PORT) /\ Chain(en_PORT, k) # << >> THEN Chain(en_PORT, k)[Len(Chain(en_PORT, k))]
  ELSE pstVhashItem
AsItWas(k) == pstVhashItem

\* The pointer is handed on: the hash table sets it or does not.
PORT_VHash_FindStruct(k) ==
  /\ VHash_Get_Node(en_PORT, k) \/ Refuse(en_PORT)
  /\ pstVhashItem' = IF res'.node # Null THEN res'.node ELSE AsItWas(k)
  /\ Tells({VHASH_OK})

PORT_VHash_Get_NextNode(prev) ==
  /\ VHash_Get_NextNode(en_PORT, prev) \/ Refuse(en_PORT) \/ RefuseIncomplete(en_PORT)
  /\ pstVhashItem' = IF res'.node # Null THEN res'.node ELSE pstVhashItem
  /\ told' = FALSE

PORT_VHash_Clean ==
  (VHash_Clean_Moudle(en_PORT) \/ Refuse(en_PORT)) /\ Keeps

PORT_VHash_EXIT ==
  (VHash_Destory_Moudle(en_PORT) \/ Refuse(en_PORT)) /\ Keeps

PORT_VHash_GetCount ==
  (VHash_Node_Total(en_PORT) \/ Refuse(en_PORT)) /\ Keeps

\* The caller writes through its pointer.
Write(v) ==
  /\ item' = [item EXCEPT ![pstVhashItem].val = v]
  /\ UNCHANGED <<max, head, res, pstVhashItem, told>>

PInit == Init /\ pstVhashItem = Null /\ told = FALSE

\* The caller of port_vhash.c believes the codes: it writes after FindStruct
\* or Add said that there is an entry, after Update said that there was one,
\* and sets its pointer to NULL when it likes.
PortCall ==
  \/ PORT_VHash_INIT \/ PORT_VHash_Clean \/ PORT_VHash_EXIT \/ PORT_VHash_GetCount
  \/ \E k \in Keys :
       PORT_VHash_Add(k) \/ PORT_VHash_Update(k) \/ PORT_VHash_Del(k) \/ PORT_VHash_FindStruct(k)
  \/ \E prev \in {Null} \cup ({pstVhashItem} \cap DOMAIN item) : PORT_VHash_Get_NextNode(prev)
  \/ told /\ \E v \in Vals : Write(v)
  \/ pstVhashItem' = Null /\ told' = FALSE /\ UNCHANGED vars

\* The other modules have callers of their own, with their own pointers.
OtherCall ==
  /\ \/ \E m \in Ids \ {en_PORT} : Call(m)
     \/ res.node \notin NodesOf(en_PORT) /\ \E v \in Vals : Store(v)
  /\ Keeps

PNext == (VHash_Init /\ Keeps) \/ PortCall \/ OtherCall

PSpec == PInit /\ [][PNext]_pvars

-----------------------------------------------------------------------------
\* A caller that goes by the code writes to the entry of the key it asked
\* for, which is still allocated: no code says that there is an entry while
\* the pointer is NULL or that of an earlier call.
ToldRight ==
  told => /\ pstVhashItem \in NodesOf(en_PORT)
          /\ item[pstVhashItem].key = res.of[2]

\* The keys of the table.
Held == {item[n].key : n \in NodesOf(en_PORT)}

\* A caller that goes by its pointer, as pkt_recv does, has to clear it: then
\* the pointer is set by just the searches and additions after which there is
\* an entry.  PORT_VHash_Update sets it only where there was one before: the
\* entry it has made, with the code VHASH_OK, can only be looked up.
PointerTells ==
  [][\A k \in Keys : pstVhashItem = Null =>
       /\ PORT_VHash_FindStruct(k) \/ PORT_VHash_Add(k) => (pstVhashItem' # Null <=> k \in Held')
       /\ PORT_VHash_Update(k) => (pstVhashItem' # Null <=> k \in Held)]_pvars
=============================================================================
