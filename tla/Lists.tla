------------------------------- MODULE Lists -------------------------------
(***************************************************************************)
(* What list.c promises: lists with a head, as sequences.  An entry is in  *)
(* one list at most.  Popping gives the entry, or the head itself when     *)
(* there is none; unlinking says whether the list is empty now.            *)
(*                                                                         *)
(* This is the abstract specification that LinkedLists is compared with.   *)
(***************************************************************************)
EXTENDS Integers, Sequences, SequencesExt

CONSTANTS Heads, Entries, FreeQueue, Null

VARIABLES lists,  \* head -> its entries, or Null before it is initialised
          ulListLen,  \* what the queue of free nodes counts
          out     \* the latest operation: its name and what it returned

lvars == <<lists, ulListLen, out>>

Used == UNION {ToSet(lists[h]) : h \in {g \in Heads : lists[g] # Null}}
Becomes(h, list) == lists' = [lists EXCEPT ![h] = list]
Done(op, ret) == out' = <<op, ret>>

LInit == lists = [h \in Heads |-> Null] /\ ulListLen = 0 /\ out = <<Null, Null>>

Create(h) == lists[h] = Null /\ Becomes(h, << >>) /\ Done("Initialize", Null)

Push(h, e) ==
  /\ e \notin Used
  /\ \/ Becomes(h, <<e>> \o lists[h]) /\ Done("InsertHead", Null)
     \/ Becomes(h, Append(lists[h], e)) /\ Done("InsertTail", Null)
     \* in front of the entry at i, or of the head: at the end
     \/ \E i \in 1..(Len(lists[h]) + 1) :
          Becomes(h, InsertAt(lists[h], i, e)) /\ Done("InsertBefore", Null)

Pop(h) ==
  IF lists[h] = << >>
  THEN UNCHANGED lists /\ (Done("RemoveHead", h) \/ Done("RemoveTail", h))
  ELSE \/ Becomes(h, Tail(lists[h])) /\ Done("RemoveHead", Head(lists[h]))
       \/ Becomes(h, Front(lists[h])) /\ Done("RemoveTail", Last(lists[h]))

\* An entry is taken out wherever it is; whether the list is empty now.
Unlink(h, i) ==
  Becomes(h, RemoveAt(lists[h], i)) /\ Done("Remove", Len(lists[h]) = 1)

\* new takes over the entries of old.
Move(old, new) ==
  /\ old # new
  /\ lists[new] \in {Null, << >>}
  /\ lists' = [lists EXCEPT ![new] = lists[old], ![old] = << >>]
  /\ Done("Change", Null)

Plain(h) ==
  \/ Pop(h)
  \/ \E e \in Entries : Push(h, e)
  \/ \E i \in DOMAIN lists[h] : Unlink(h, i)
  \/ \E new \in Heads \ {FreeQueue} : Move(h, new)

\* A queue, first in first out; none is what an empty one gives.
Free(e) ==
  /\ e \notin Used
  /\ Becomes(FreeQueue, Append(lists[FreeQueue], e))
  /\ Done("VHash_Free", Null)
Malloc ==
  IF lists[FreeQueue] = << >>
  THEN UNCHANGED lists /\ Done("VHash_Malloc", Null)
  ELSE Becomes(FreeQueue, Tail(lists[FreeQueue])) /\ Done("VHash_Malloc", Head(lists[FreeQueue]))

\* The count is that of the entries, always.
LNext ==
  /\ \/ \E h \in Heads : Create(h)
     \/ \E h \in {g \in Heads \ {FreeQueue} : lists[g] # Null} : Plain(h)
     \/ lists[FreeQueue] # Null /\ (Malloc \/ \E e \in Entries : Free(e))
  /\ ulListLen' = IF lists'[FreeQueue] = Null THEN 0 ELSE Len(lists'[FreeQueue])

LSpec == LInit /\ [][LNext]_lvars
=============================================================================
