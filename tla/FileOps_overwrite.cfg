\* Anyone uses a name again, reads and deletes; two chunks a file.
SPECIFICATION Spec
CONSTANTS
  c1 = c1
  c2 = c2
  f1 = f1
  a1 = a1
  a2 = a2
  Filename = {f1}
  Client = {c1, c2}
  Address <- MC_TwoServers
  R = 1
  ChunkCounts = {0, 2}
  Writers <- MC_AnyoneWrites
  Reuse = TRUE
  Cleanup = FALSE
  MaxUploads = 2
  MaxCrashes = 1
SYMMETRY MC_ServersAndClients
CHECK_DEADLOCK FALSE
INVARIANTS ReadIsWholeUpload MetadataConsistent
PROPERTIES ImplementsFileMap
