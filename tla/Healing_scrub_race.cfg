\* A file is created while the servers start for the first time.
SPECIFICATION Spec
CONSTANTS
  f1 = f1
  f2 = f2
  a1 = a1
  a2 = a2
  a3 = a3
  Filename = {f1}
  Address <- MC_ThreeServers
  R = 2
  Starting <- MC_ThreeServers
  Starved = FALSE
  Unstable <- MC_ThreeServers
  Deletable = {f1}
  MaxFaults <- MC_NoFaults
SYMMETRY MC_Servers
CHECK_DEADLOCK FALSE
INVARIANTS MetadataToDisk
