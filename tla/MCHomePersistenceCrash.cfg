CONSTANTS
  Axes = 2
  MaxHomes = 3
  MaxFailures = 0
  MaxCrashes = 1
SPECIFICATION Spec
INVARIANTS
  SnapshotIsOldOrNew
CHECK_DEADLOCK FALSE
