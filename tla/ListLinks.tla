----------------------------- MODULE ListLinks -----------------------------
(***************************************************************************)
(* The operations of list.c on the link fields.  links is the part of      *)
(* memory they work on: for every cell, a list head or an entry, its Flink *)
(* and its Blink.  The updates of an EXCEPT are made in the order of the   *)
(* assignments of the code, each on the result of the one before: cells    *)
(* that coincide are written twice, as they are there.                     *)
(***************************************************************************)
EXTENDS Integers, Sequences

IsListEmpty(links, h) == links.Flink[h] = h

InitializeListHead(links, h) == [links EXCEPT !.Blink[h] = h, !.Flink[h] = h]

\* Mistake: the old tail is not told.
InsertTailOneWay(links, h, e) ==
  [links EXCEPT !.Flink[e] = h, !.Blink[e] = links.Blink[h], !.Blink[h] = e]

InsertTailList(links, h, e) ==
  [links EXCEPT !.Flink[e] = h, !.Blink[e] = links.Blink[h],
                !.Flink[links.Blink[h]] = e, !.Blink[h] = e]

InsertHeadList(links, h, e) ==
  [links EXCEPT !.Flink[e] = links.Flink[h], !.Blink[e] = h,
                !.Blink[links.Flink[h]] = e, !.Flink[h] = e]

InsertBeforeEntry(links, base, e) ==
  [links EXCEPT !.Blink[base] = e, !.Flink[e] = base,
                !.Blink[e] = links.Blink[base], !.Flink[links.Blink[base]] = e]

RemoveEntryList(links, e) ==
  [links EXCEPT !.Flink[links.Blink[e]] = links.Flink[e],
                !.Blink[links.Flink[e]] = links.Blink[e]]
\* Mistake: the entry is compared with itself.
WasAlone(links, e) == links.Flink[e] = e
\* What RemoveEntryList returns.
WasLast(links, e) == links.Flink[e] = links.Blink[e]

RemoveHeadList(links, h) ==
  LET next == links.Flink[links.Flink[h]]
  IN  [links EXCEPT !.Flink[h] = next, !.Blink[next] = h]

RemoveTailList(links, h) ==
  LET prev == links.Blink[links.Blink[h]]
  IN  [links EXCEPT !.Blink[h] = prev, !.Flink[prev] = h]

ChangeHead(links, old, new) ==
  IF IsListEmpty(links, old) THEN InitializeListHead(links, new)
  ELSE [links EXCEPT !.Blink[links.Flink[old]] = new, !.Flink[links.Blink[old]] = new,
                     !.Flink[new] = links.Flink[old], !.Blink[new] = links.Blink[old],
                     !.Blink[old] = old, !.Flink[old] = old]

(***************************************************************************)
(* The list of h, read along Flink.  A loop over it that is not back at h  *)
(* after that many steps, or is led into a cell without links, is lost:    *)
(* then Null stands for the rest.                                          *)
(***************************************************************************)
ListOf(links, h, steps, Null) ==
  LET from[n \in 0..steps] ==
        [c \in DOMAIN links.Flink |->
           LET next == links.Flink[c]
           IN  IF next = h THEN << >>
               ELSE IF next = Null \/ n = 0 THEN <<Null>>
               ELSE <<next>> \o from[n - 1][next]]
  IN  from[steps][h]
=============================================================================
