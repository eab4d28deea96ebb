SPECIFICATION Spec
CONSTANTS
  b1 = b1
  b2 = b2
  r2 = r2
  parent = parent
  child = child
  garbled = garbled
  rejected = rejected
  o1 = o1
  unknown = unknown
  None = None
  BadArg = BadArg
  MaxAttempts = 2
  Tx <- MCTx
  Block <- MCBlock
  TxsOf <- MCTxsOf
  HeightOf <- MCHeight
  Chains <- MCChains
  Parents <- MCParents
  Unspent <- MCUnspent
  Refusal <- MCRefusal
  MaxInt = 3
  RegtestCommands = TRUE
  Object = {o1}
  St <- Codes
  CheckTxCode <- MCCheckTx
  ConsensusErrors = {1000, 1999, 2000, 2999, 3000, 3999, 4000}
  MaxTip = 2
  Requests <- MCRequests
CHECK_DEADLOCK FALSE
INVARIANTS TypeOK AnswerWasRight InternalIsServers
PROPERTIES NotRefusedIfHeld
