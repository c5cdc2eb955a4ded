SPECIFICATION FairSpec
CONSTANTS
  h1 = h1
  h2 = h2
  p1 = p1
  c1 = c1
  rt = rt
  Rt <- rt
  Helper <- TwoHelpers
  Publisher <- OnePublisher
  Committer <- OneCommitter
  MaxTicket = 2
  MaxGen = 2
  MaxEpoch = 2
CHECK_DEADLOCK FALSE
INVARIANTS
  ClosedTakeoverIsFenced
  CommitReservationExact
  AbortingEpochPrecedesSafety
PROPERTIES
  TakeoverRefined
  HandshakeCloses
