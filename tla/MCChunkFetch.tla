---------------------------- MODULE MCChunkFetch ----------------------------
(* ChunkFetch on a small instance. *)
EXTENDS ChunkFetch

CONSTANTS a1, a2, a3

\* One chunk with two reliable replicas, one with one, one with none.
MC_Reliable == {<<a1, 0>>, <<a2, 0>>, <<a3, 1>>}

=============================================================================
