-------------------------- MODULE MCStorageLineage --------------------------
(* StorageLineage with the one widening the check knows. *)
EXTENDS StorageLineage, TLC

CONSTANTS integer, bigint

MCTypes == {integer, bigint}

MCWidenings == {<<integer, bigint>>}

Symmetry == Permutations(Authors)
=============================================================================
