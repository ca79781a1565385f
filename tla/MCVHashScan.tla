---------------------------- MODULE MCVHashScan ----------------------------
(***************************************************************************)
(* An enumeration over four keys in three buckets, three of them in one    *)
(* and none in the next; freed addresses come back.                        *)
(***************************************************************************)
EXTENDS VHashScan, TLC

CONSTANTS k1, k2, k3, k4

MCKeys == {k1, k2, k3, k4}
MCHash == (k1 :> 0 @@ k2 :> 0 @@ k3 :> 0 @@ k4 :> 2)
MCUpdateAnswers == [m \in Ids |-> {TRUE}]
MCCopyAnswers == [m \in Ids |-> {VHASH_OK}]
=============================================================================
