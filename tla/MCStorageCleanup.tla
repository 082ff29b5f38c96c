-------------------------- MODULE MCStorageCleanup --------------------------
(* Small instances of StorageCleanup for TLC.                              *)
EXTENDS StorageCleanup, TLC

CONSTANTS o1, o2, o3, o4, badge, special, wide, r1, none

Alike == Permutations(Ops)
=============================================================================
