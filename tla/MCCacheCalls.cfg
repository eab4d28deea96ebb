SPECIFICATION Spec
CONSTANTS
  t1 = t1
  t2 = t2
  t3 = t3
  Tx = {t1, t2, t3}
  Block <- MCBlock
  CacheSize = 2
  BlocksToStay = 1
  MaxBlocks = 3
INVARIANTS TypeOK BlocksWithinSize WaitingListAge ArraysAligned ProofsBacked
PROPERTIES RetrievedOnce ImplementsWaitingList
