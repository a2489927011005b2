SPECIFICATION FairSpec
CONSTANTS
  PoolSize = 2
  MonthLength = 2
  BatchSize = 1
  MaxInsertRows = 2
  MaxRetry = 3
  EventsPerDay = 3
  MaxDays = 3
  MaxOutages = 1
INVARIANTS TypeOK PoolFlows
PROPERTIES EveryWaiterServed StoredAcrossMonths
