SPECIFICATION FairSpec
CONSTANTS
  Kinds = {"AUTH_TCP", "DDL"}
  ChannelCap = 2
  BatchSize = 2
  MaxRetry = 5
  MaxInsertRows = 4
  Faults = {}
  MaxEvents = 3
  MaxRestarts = 0
PROPERTIES EveryEventStored
