SPECIFICATION StopsSpec
CONSTANTS
  r1 = r1
  r2 = r2
  w1 = w1
  Requester <- TwoRequesters
  Worker <- OneWorker
  Session <- TwoSessions
  Maximum = 7
  Tries = 2
  MaxCalls = 3
  Stopper = {s1}
  Nc = nc
  MaxPress = 1
  MaxIncident = 1
SYMMETRY Symmetry
INVARIANTS
  ReadyIsConsistent
  NoStopIsMissed
  EvidenceKept
PROPERTIES
  ConsumedUninterrupted
  ActionClearedWhenPosted
CHECK_DEADLOCK FALSE
