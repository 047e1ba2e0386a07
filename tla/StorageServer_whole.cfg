\* Stores of one id one after the other, reads, deletes, restarts.
SPECIFICATION Spec
CONSTANTS
  t1 = t1
  t2 = t2
  t3 = t3
  id1 = id1
  id2 = id2
  Thread = {t1, t2, t3}
  ChunkId = {id1}
  Overlap = FALSE
  MaxRequests = 5
  MaxRestarts = 1
SYMMETRY MC_Symmetry
CHECK_DEADLOCK FALSE
INVARIANTS TypeOK WholeChunks CountersExact
PROPERTIES ImplementsDirectory
