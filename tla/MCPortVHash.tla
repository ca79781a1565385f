---------------------------- MODULE MCPortVHash ----------------------------
(***************************************************************************)
(* The port table, another module and an id beyond; three keys in two      *)
(* buckets, so that chains have two nodes and buckets are passed over;     *)
(* fewer addresses than keys, so that addresses come back.                 *)
(***************************************************************************)
EXTENDS PortVHash, TLC

CONSTANTS k1, k2, k3

MCKeys == {k1, k2, k3}
MCHash == (k1 :> 1 @@ k2 :> 1 @@ k3 :> 0)
\* The callbacks of port_vhash.c always agree; others may not.
MCUpdateAnswers == [m \in Ids |-> IF m = en_PORT THEN {TRUE} ELSE BOOLEAN]
MCCopyAnswers == [m \in Ids |-> IF m = en_PORT THEN {MAC_VHash_copy(ItemSize)} ELSE {VHASH_OK, VHASH_ERR}]
AddressSymmetry == Permutations(Nodes)
=============================================================================
