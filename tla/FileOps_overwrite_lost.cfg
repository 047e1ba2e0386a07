\* One client writes a name, then writes it again.
SPECIFICATION Spec
CONSTANTS
  c1 = c1
  c2 = c2
  f1 = f1
  a1 = a1
  a2 = a2
  Filename = {f1}
  Client = {c1}
  Address <- MC_TwoServers
  R = 2
  ChunkCounts = {1}
  Writers <- MC_OneWriter
  Reuse = TRUE
  Cleanup = FALSE
  MaxUploads = 2
  MaxCrashes = 0
CHECK_DEADLOCK FALSE
PROPERTY OnlyDeletedIsLost
