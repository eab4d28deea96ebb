SPECIFICATION FairSpec
CONSTANTS
  Tx = {t1}
  Matching = {t1}
  Requests <- NewRequests
  Disturbances = {"cancel"}
  MaxHeight = 1
  MaxLocks = 0
  CacheSize = 1
  BlocksToStay = 1
CHECK_DEADLOCK FALSE
PROPERTIES CancelCleansUp
