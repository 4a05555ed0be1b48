-------------------------- MODULE MCStorageStartup --------------------------
(* A small instance of the service's database across restarts.              *)
EXTENDS StorageStartup, TLC

Symmetry == Permutations(Awards)
=============================================================================
