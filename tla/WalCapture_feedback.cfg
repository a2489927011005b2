SPECIFICATION Spec
CONSTANTS
  Tables <- MCTables
  Tagged <- MCTables
  PollLimit = 4
  ChannelCap = 1
  Faults = {}
  MaxLsn = 3
  MaxFailures = 0
  MaxLosses = 0
  MaxCrashes = 0
INVARIANTS OnlyTaggedTables
