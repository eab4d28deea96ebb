SPECIFICATION FairSpec
CONSTANTS
  a1 = a1
  a2 = a2
  a3 = a3
  b2 = b2
  b3 = b3
  b4 = b4
  pay = pay
  spend = spend
  plain = plain
  key = key
  other = other
  coin = coin
  NoHash = NoHash
  Block = {a1, a2, a3, b2, b3, b4}
  Tx = {pay, spend, plain}
  TxsOf <- MCTxsOf
  HeightOf <- MCHeightOf
  Chains <- MCChains
  Inputs <- MCInputs
  Outputs <- MCOutputs
  Requests <- MCRequests
  ClientItems = {key}
  ClientFlag = "p2pubkeyOnly"
  Batch = 2
  MaxTests = 2
CHECK_DEADLOCK FALSE
INVARIANTS TypeOK HistoryExact HeightsIncrease SpendFollowed
PROPERTIES ScanEnds
