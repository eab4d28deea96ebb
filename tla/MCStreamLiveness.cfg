SPECIFICATION FairSpec
CONSTANTS
  Tx = {t1, t2}
  Matching = {t1, t2}
  Requests <- AllRequests
  Disturbances = {"rpcFails"}
  MaxHeight = 3
  MaxLocks = 0
  CacheSize = 2
  BlocksToStay = 2
CHECK_DEADLOCK FALSE
PROPERTIES TransactionsDelivered ProofsDelivered
