\* A name is written once; both clients write, read and delete.
SPECIFICATION Spec
CONSTANTS
  c1 = c1
  c2 = c2
  f1 = f1
  a1 = a1
  a2 = a2
  Filename = {f1}
  Client = {c1, c2}
  Address <- MC_TwoServers
  R = 2
  ChunkCounts = {2}
  Writers <- MC_AnyoneWrites
  Reuse = FALSE
  Cleanup = TRUE
  MaxUploads = 2
  MaxCrashes = 1
SYMMETRY MC_ServersAndClients
CHECK_DEADLOCK FALSE
INVARIANTS TypeOK CommittedFullyStored
PROPERTIES ImplementsFileStore LostAsWhole
