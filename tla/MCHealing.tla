------------------------------ MODULE MCHealing ------------------------------
(* Healing on small instances. *)
EXTENDS Healing, TLC

CONSTANTS f1, f2, a1, a2, a3

MC_ThreeServers == {a1, a2, a3}

MC_NoFaults == [k \in FaultKinds |-> 0]
MC_EachOnce == [k \in FaultKinds |-> 1]
MC_StopAndLoss == [MC_NoFaults EXCEPT !["stop"] = 1, !["lose_disk"] = 1]

MC_Servers == Permutations(Address)
MC_OtherServers == Permutations({a2, a3})

=============================================================================
