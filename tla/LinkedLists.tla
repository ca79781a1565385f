---------------------------- MODULE LinkedLists ----------------------------
(***************************************************************************)
(* Callers of list.c: they initialise a head before they use it, insert an *)
(* entry that is in no list, and remove an entry that is in one.  The cells *)
(* lie in memory malloc gave: a link has no meaning before it is written,  *)
(* and an entry keeps its links when it is removed.                        *)
(*                                                                         *)
(* One of the lists is the queue of free nodes of vhash.c, which counts    *)
(* its entries.  Nothing calls the two functions that work on it, and      *)
(* VHash_Create_Moudle does not initialise it; here it is initialised.     *)
(***************************************************************************)
EXTENDS ListLinks, FiniteSets

CONSTANTS Heads, Entries, FreeQueue, Null

Cells == Heads \cup Entries

ASSUME CellsAssumption ==
  /\ IsFiniteSet(Cells) /\ Heads \cap Entries = {} /\ Null \notin Cells \cup BOOLEAN
  /\ Null \notin Seq(Entries)
  /\ FreeQueue \in Heads

VARIABLES
  links,   \* Flink and Blink of every cell
  linked,  \* the heads that are initialised and the entries in a list
  ulListLen,  \* of the queue
  out      \* the latest operation: its name and what it returned

vars == <<links, linked, ulListLen, out>>

Init ==
  /\ links = [Flink |-> [c \in Cells |-> Null], Blink |-> [c \in Cells |-> Null]]
  /\ linked = {}
  /\ ulListLen = 0
  /\ out = <<Null, Null>>

Done(op, ret) == out' = <<op, ret>>

EntriesOf(h) == ListOf(links, h, Cardinality(Cells), Null)
\* What only the two functions of the queue touch.
Queue ==
  LET queue == EntriesOf(FreeQueue)
  IN  IF FreeQueue \in linked THEN {FreeQueue} \cup {queue[i] : i \in DOMAIN queue} ELSE {}

Initialize(h) ==
  /\ h \notin linked
  /\ links' = InitializeListHead(links, h)
  /\ linked' = linked \cup {h}
  /\ Done("Initialize", Null)
  /\ UNCHANGED ulListLen

Insert(h, e) ==
  /\ h \in linked /\ e \notin linked
  /\ \/ links' = InsertTailList(links, h, e) /\ Done("InsertTail", Null)
     \/ links' = InsertHeadList(links, h, e) /\ Done("InsertHead", Null)
  /\ linked' = linked \cup {e}
  /\ UNCHANGED ulListLen

InsertBefore(base, e) ==
  /\ base \in linked /\ e \notin linked
  /\ links' = InsertBeforeEntry(links, base, e)
  /\ linked' = linked \cup {e}
  /\ Done("InsertBefore", Null)
  /\ UNCHANGED ulListLen

Remove(e) ==
  /\ e \in linked
  /\ links' = RemoveEntryList(links, e)
  /\ linked' = linked \ {e}
  /\ Done("Remove", WasLast(links, e))
  /\ UNCHANGED ulListLen

\* Of an empty list both give the head.
RemoveEnd(h) ==
  /\ h \in linked
  /\ \/ links' = RemoveHeadList(links, h) /\ Done("RemoveHead", links.Flink[h])
     \/ links' = RemoveTailList(links, h) /\ Done("RemoveTail", links.Blink[h])
  /\ linked' = linked \ ({out'[2]} \ {h})
  /\ UNCHANGED ulListLen

\* new has no entries that would be lost.
Change(old, new) ==
  /\ old \in linked /\ old # new
  /\ new \in linked => IsListEmpty(links, new)
  /\ links' = ChangeHead(links, old, new)
  /\ linked' = linked \cup {new}
  /\ Done("Change", Null)
  /\ UNCHANGED ulListLen

\* A node of the queue, if it has one.
VHash_Malloc ==
  /\ FreeQueue \in linked
  /\ IF IsListEmpty(links, FreeQueue)
     THEN Done("VHash_Malloc", Null) /\ UNCHANGED <<links, linked, ulListLen>>
     ELSE /\ links' = RemoveHeadList(links, FreeQueue)
          /\ linked' = linked \ {links.Flink[FreeQueue]}
          /\ ulListLen' = ulListLen - 1
          /\ Done("VHash_Malloc", links.Flink[FreeQueue])

VHash_Free(e) ==
  /\ FreeQueue \in linked /\ e \notin linked
  /\ links' = InsertTailList(links, FreeQueue, e)
  /\ linked' = linked \cup {e}
  /\ ulListLen' = ulListLen + 1
  /\ Done("VHash_Free", Null)

Next ==
  \/ \E h \in Heads : Initialize(h)
  \/ \E h \in Heads \ Queue :
       \/ RemoveEnd(h)
       \/ \E e \in Entries : Insert(h, e)
       \/ \E new \in Heads \ {FreeQueue} : Change(h, new)
  \/ \E e \in Entries \ Queue :
       Remove(e) \/ \E base \in Cells \ Queue : InsertBefore(base, e)
  \/ VHash_Malloc
  \/ \E e \in Entries : VHash_Free(e)

Spec == Init /\ [][Next]_vars

-----------------------------------------------------------------------------
\* The links of the cells in use are rings: in use with a cell are both its
\* neighbours, and each of them points back at it.  No removed entry is
\* reachable from a list, and none of a list's own is lost.
Rings ==
  \A c \in linked :
    /\ links.Flink[c] \in linked /\ links.Blink[links.Flink[c]] = c
    /\ links.Blink[c] \in linked /\ links.Flink[links.Blink[c]] = c

\* Read along Flink, the rings are the lists, in order; what is returned is
\* right, and an operation on one list leaves the others alone.
Abstract == INSTANCE Lists
              WITH lists <- [h \in Heads |->
                               IF h \in linked THEN EntriesOf(h) ELSE Null]
ListsSpec == Abstract!LSpec
=============================================================================
