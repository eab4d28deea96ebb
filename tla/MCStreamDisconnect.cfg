SPECIFICATION FairSpec
CONSTANTS
  Tx = {t1, t2}
  Matching = {t1, t2}
  Requests <- NewRequests
  Disturbances = {"cancel"}
  MaxHeight = 3
  MaxLocks = 1
  CacheSize = 1
  BlocksToStay = 1
CHECK_DEADLOCK FALSE
INVARIANTS ProofFollowsTransactions CachedProofsComplete RetrievedWasSent
PROPERTIES CollectedLocksDelivered
