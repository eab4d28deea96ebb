SPECIFICATION Spec
CONSTANTS
  Tx = {t1, t2}
  Matching = {t1, t2}
  Requests <- NewRequests
  Disturbances = {"otherCall"}
  MaxHeight = 3
  MaxLocks = 1
  CacheSize = 2
  BlocksToStay = 1
CHECK_DEADLOCK FALSE
SYMMETRY Symmetry
INVARIANTS TypeOK ProofFollowsTransactions CachedProofsComplete LiveAtMostOnce LockedIsKnown
