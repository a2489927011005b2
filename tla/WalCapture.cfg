SPECIFICATION FairSpec
CONSTANTS
  Tables <- MCTables
  Tagged <- MCTables
  PollLimit = 4
  ChannelCap = 1
  Faults = {"query", "reply", "crash", "server"}
  MaxLsn = 4
  MaxFailures = 1
  MaxLosses = 1
  MaxCrashes = 1
INVARIANTS TypeOK SentInOrderOnce
PROPERTIES EveryChangeSent
