SPECIFICATION FairSpec
CONSTANTS
  tx = tx
  newBlock = newBlock
  Query = {tx, newBlock}
  Limits <- AllLimits
  MaxFailures = 5
CHECK_DEADLOCK FALSE
INVARIANTS TypeOK SubscribedWhenOpen FailuresLimited
PROPERTIES Resubscribed
