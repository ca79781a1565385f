----------------------------- MODULE VHashCodes -----------------------------
(***************************************************************************)
(* What the calls of vhash.h return.                                       *)
(***************************************************************************)
VHASH_OK == 0
VHASH_ERR == 1
VHASH_NOT_INNIF == 2
VHASH_NOT_FOUND == 3
VHASH_EXIST == 4
VHASH_INTERFACE_ERR == 5
VHASH_UPDATE_OK == 6
VHASH_ENUM_END == 7
=============================================================================
