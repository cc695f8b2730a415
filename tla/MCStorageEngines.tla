-------------------------- MODULE MCStorageEngines --------------------------
(* Small instances of StorageEngines. *)
EXTENDS StorageEngines, TLC

EngineSymmetry == Permutations(Threads)
=============================================================================
