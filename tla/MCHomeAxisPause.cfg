CONSTANTS
  CommandCapacity = 2
  ResultCapacity = 4
  RuntimeLimit = 1
  ControlLimit = 2
  UsesProbe = TRUE
  MaxSearches = 1
  MaxHolds = 1
  MaxRefused = 0
  MaxDeferred = 0
  MaxSessions = 1
SPECIFICATION Spec
INVARIANTS
  PausedAxisIsNotDriven
