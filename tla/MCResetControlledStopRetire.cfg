\* No other request: one press, superseded by an alarm, and the press in it.
CONSTANTS
  Stopper = {}
  Nc = nc
  MaxPress = 2
  MaxIncident = 1
SPECIFICATION Spec
PROPERTIES
  BatchAfterConsumedStop
CHECK_DEADLOCK FALSE
