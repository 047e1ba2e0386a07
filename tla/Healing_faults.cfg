\* Every kind of fault once, late heartbeats, one chunk.
SPECIFICATION Spec
CONSTANTS
  f1 = f1
  f2 = f2
  a1 = a1
  a2 = a2
  a3 = a3
  Filename = {f1}
  Address <- MC_ThreeServers
  R = 2
  Starting = {a1}
  Starved = TRUE
  Unstable = {a1}
  Deletable = {f1}
  MaxFaults <- MC_EachOnce
SYMMETRY MC_OtherServers
CHECK_DEADLOCK FALSE
INVARIANTS TypeOK ReplicaRows DurableCopies RowsStored
