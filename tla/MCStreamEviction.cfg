SPECIFICATION FairSpec
CONSTANTS
  Tx = {t1, t2}
  Matching = {t1, t2}
  Requests <- NewRequests
  Disturbances = {}
  MaxHeight = 3
  MaxLocks = 0
  CacheSize = 1
  BlocksToStay = 1
CHECK_DEADLOCK FALSE
PROPERTIES TransactionsDelivered
