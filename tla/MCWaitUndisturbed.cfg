SPECIFICATION FairSpec
CONSTANTS
  c1 = c1
  c2 = c2
  t1 = t1
  t2 = t2
  Call = {c1, c2}
  Tx = {t1}
  TxOf <- SameTx
  Disturbances = {}
  MaxHeight = 3
CHECK_DEADLOCK FALSE
PROPERTIES NoMissedResult
