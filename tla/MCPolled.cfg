SPECIFICATION PolledSpec
CONSTANTS
  MaxSession = 2
  MaxCommand = 2
  Capacity = 2
  MaxPops = 1
  Facts <- AllOrNone
  Nothing = Nothing
  Stopper = {s1}
  Nc = nc
  MaxPress = 1
  MaxIncident = 0
INVARIANTS
  ReadIsCurrent
  StopHonoured
PROPERTIES
  CancelAcknowledged
  SubmissionSettled
  EveryPressAnswered
