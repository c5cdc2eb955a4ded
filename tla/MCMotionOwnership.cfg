SPECIFICATION Spec
CONSTANTS
  r1 = r1
  t1 = t1
  c1 = c1
  rt = rt
  auto = auto
  jog = jog
  Requester <- OneRequester
  Taker <- OneTaker
  Client <- OneClient
  RequestKind <- BothKinds
  Rt <- rt
  OrdinaryOwner <- AutoAndJog
  MaxGeneration = 3
SYMMETRY Symmetry
INVARIANTS
  OwedRequestHoldsMotion
  AcknowledgedRequestConsumed
PROPERTIES
  OutstandingTicketFencesOwner
  SafetyReleasedWhenApplied
  OwedRequestStopsOrdinaryFrames
