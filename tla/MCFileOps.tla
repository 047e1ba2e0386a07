------------------------------ MODULE MCFileOps ------------------------------
(* FileOps on small instances. *)
EXTENDS FileOps, TLC

CONSTANTS c1, c2, f1, a1, a2

MC_TwoServers == {a1, a2}
MC_AnyoneWrites == [f \in Filename |-> Client]
MC_OneWriter == [f \in Filename |-> {c1}]

MC_ServersAndClients == Permutations(Address) \cup Permutations(Client)

=============================================================================
