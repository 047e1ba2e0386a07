\* A server stops for good; a disk is lost and the other file deleted meanwhile.
SPECIFICATION FairSpec
CONSTANTS
  f1 = f1
  f2 = f2
  a1 = a1
  a2 = a2
  a3 = a3
  Filename = {f1, f2}
  Address <- MC_ThreeServers
  R = 2
  Starting = {}
  Starved = FALSE
  Unstable = {a1}
  Deletable = {f2}
  MaxFaults <- MC_StopAndLoss
CHECK_DEADLOCK FALSE
INVARIANTS NoDanglingReplicas
PROPERTIES Healed
