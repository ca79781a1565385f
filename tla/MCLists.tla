------------------------------ MODULE MCLists ------------------------------
(***************************************************************************)
(* Two heads and the queue, and four entries: first, middle and last of    *)
(* one list, one of another, and lists that change heads.                  *)
(***************************************************************************)
EXTENDS LinkedLists, TLC

HeadAndEntrySymmetry == Permutations(Heads \ {FreeQueue}) \cup Permutations(Entries)
=============================================================================
