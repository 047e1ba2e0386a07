--------------------------- MODULE MCStorageServer ---------------------------
(* StorageServer on small instances. *)
EXTENDS StorageServer, TLC

CONSTANTS t1, t2, t3, id1, id2

MC_Symmetry == Permutations(Thread) \cup Permutations(ChunkId)

=============================================================================
