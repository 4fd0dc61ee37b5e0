------------------------- MODULE MCStorageChangeSync -------------------------
(* StorageChangeSync for TLC: the tables are interchangeable. *)
EXTENDS StorageChangeSync, TLC

Symmetry == Permutations(Table)
=============================================================================
