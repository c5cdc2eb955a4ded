SPECIFICATION Spec
CONSTANTS
  p1 = p1
  p2 = p2
  h1 = h1
  NoAlarm = NoAlarm
  Mode <- ResetOnly
  Producer <- TwoProducers
  Clearer <- None
  Holder <- OneHolder
  MaxAlarms = 1
  MaxDeferred = 1
  MaxSequence = 2
CHECK_DEADLOCK FALSE
PROPERTIES
  SupersededDenotesPublication
