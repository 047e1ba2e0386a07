\* Three chunks, up to two replicas each, in batches of two.
SPECIFICATION FairSpec
CONSTANTS
  a1 = a1
  a2 = a2
  a3 = a3
  Address = {a1, a2, a3}
  N = 3
  BatchSize = 2
  MaxRows = 2
  Reliable <- MC_Reliable
CHECK_DEADLOCK FALSE
INVARIANTS TypeOK FailsOnlyIfLost BatchesFit
PROPERTIES Progress Ends
