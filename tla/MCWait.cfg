SPECIFICATION FairSpec
CONSTANTS
  c1 = c1
  c2 = c2
  t1 = t1
  t2 = t2
  Call = {c1, c2}
  Tx = {t1, t2}
  TxOf <- OwnTx
  Disturbances = {"timeout", "lostEvents", "rpcFails"}
  MaxHeight = 3
CHECK_DEADLOCK FALSE
INVARIANTS TypeOK ProvableWhenAnswered ErrorIsOfTransaction ListenerHasTimer WaitsForFuture
PROPERTIES EveryCallAnswered
