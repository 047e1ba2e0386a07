\* Two stores of one id at the same time.
SPECIFICATION Spec
CONSTANTS
  t1 = t1
  t2 = t2
  t3 = t3
  id1 = id1
  id2 = id2
  Thread = {t1, t2, t3}
  ChunkId = {id1}
  Overlap = TRUE
  MaxRequests = 4
  MaxRestarts = 0
SYMMETRY MC_Symmetry
CHECK_DEADLOCK FALSE
INVARIANTS NoTornRead
