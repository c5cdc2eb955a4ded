CONSTANTS
  Axes = 2
  MaxHomes = 3
  MaxFailures = 3
  MaxCrashes = 2
  CommandCapacity = 2
  ResultCapacity = 4
  RuntimeLimit = 1
  ControlLimit = 2
  UsesProbe = TRUE
  MaxSearches = 2
  MaxHolds = 1
  MaxRefused = 1
  MaxDeferred = 1
  MaxSessions = 1
SPECIFICATION HomeSpec
INVARIANTS
  FlushedIsOnDisk
  HistoryIsComplete
  SequenceIsFresh
PROPERTIES
  ReturnedLeaseIsSettled
CHECK_DEADLOCK FALSE
