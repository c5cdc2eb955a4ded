SPECIFICATION SideBySide
CONSTANTS
  r1 = r1
  c1 = c1
  Requester <- OneRequester
  Taker <- NoTaker
  Client <- OneClient
  RequestKind <- BothKinds
  Rt = motionThread
  OrdinaryOwner <- AutoAndJog
  MaxGeneration = 3
  pdo = pdo
  plc = plc
  probe = probe
  Timer <- AllTimers
  OneShot <- SelfArming
  Probe <- probe
  StopOrder <- Closing
  DrainOrder <- Draining
  CommandCapacity = 2
  ResultCapacity = 4
  RuntimeLimit = 1
  ControlLimit = 2
  UsesProbe = TRUE
  MaxSearches = 1
  MaxHolds = 0
  MaxRefused = 1
  MaxDeferred = 0
  MaxSessions = 1
INVARIANTS
  OwnerOutlivesCallback
  QuiescentIsQuiet
PROPERTIES
  EveryTicketAcknowledged
  EveryRequestApplied
  StopCompletes
  CancelRetires
