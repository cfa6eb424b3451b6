---------------------------- MODULE MCStorageOM ----------------------------
(***************************************************************************)
(* Instances of StorageOM for TLC.                                         *)
(***************************************************************************)
EXTENDS StorageOM, TLC

CONSTANTS p1, c1, c2, l1

=============================================================================
