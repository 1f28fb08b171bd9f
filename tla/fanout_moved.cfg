SPECIFICATION Spec
CONSTANTS
  MaxUser = 2
  BatchSize = 1
  Lookback = 3
  MaxLateness = 2
  ScanEvery = 2
  KeepCompleted = 3
  MaxAttempts = 2
  FirstDue = 1
  MaxTime = 5
  MaxMoves = 1
  MaxFollows = 1
  Unfollows = TRUE
  Outages = FALSE
INVARIANTS TypeOK NeverMissed OneFanoutPerDue
CHECK_DEADLOCK FALSE
