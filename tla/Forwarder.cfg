SPECIFICATION FairSpec
CONSTANTS
  Kinds = {"AUTH_TCP", "DDL"}
  ChannelCap = 2
  BatchSize = 2
  MaxRetry = 5
  MaxInsertRows = 4
  Faults = {"db", "reply", "crash"}
  MaxEvents = 6
  MaxRestarts = 2
INVARIANTS TypeOK PendingIsChainRun ReplayOnly ValidMeansComplete BreakHasCause
PROPERTIES LossHasCause ImplementsAuditTrail OverlongQueueStays StoredWhileItFits
