\* Liveness of the cleanup thread (no symmetry).
SPECIFICATION FairSpec
CONSTANTS
  c1 = c1
  c2 = c2
  f1 = f1
  a1 = a1
  a2 = a2
  Filename = {f1}
  Client = {c1}
  Address <- MC_TwoServers
  R = 1
  ChunkCounts = {0, 1}
  Writers <- MC_OneWriter
  Reuse = TRUE
  Cleanup = TRUE
  MaxUploads = 2
  MaxCrashes = 1
CHECK_DEADLOCK FALSE
PROPERTIES PendingResolved
