SPECIFICATION ReportsSpec
CONSTANTS
  p1 = p1
  p2 = p2
  h1 = h1
  Reader = {r1}
  WordCount = 2
  Last = 4
  Attempts = 2
  NoAlarm = NoAlarm
  Mode <- FrameAndReset
  Producer <- TwoProducers
  Clearer <- OneClearer
  Holder <- OneHolder
  MaxAlarms = 1
  MaxDeferred = 1
  MaxSequence = 2
INVARIANTS
  BusyOnlyWhenOvertaken
  AdmissionProof
  NoAlarmIsLost
  DeferredDescribesWaiting
PROPERTIES
  RegisterRefined
CHECK_DEADLOCK FALSE
