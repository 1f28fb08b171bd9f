SPECIFICATION Spec
CONSTANTS
  MaxUser = 3
  BatchSize = 2
  Lookback = 2
  MaxLateness = 2
  ScanEvery = 1
  KeepCompleted = 2
  MaxAttempts = 2
  FirstDue = 1
  MaxTime = 4
  MaxMoves = 0
  MaxFollows = 2
  Unfollows = TRUE
  Outages = FALSE
PROPERTY RowsReadArePaged
CHECK_DEADLOCK FALSE
