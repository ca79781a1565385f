--------------------------- MODULE MCVHashLinked ---------------------------
(***************************************************************************)
(* Three keys in two buckets, so that chains have two nodes.               *)
(***************************************************************************)
EXTENDS VHashLinked, TLC

CONSTANTS k1, k2, k3

MCKeys == {k1, k2, k3}
MCHash == (k1 :> 1 @@ k2 :> 1 @@ k3 :> 0)
=============================================================================
