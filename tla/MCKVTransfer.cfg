CONSTANTS
  p1 = p1
  p2 = p2
  d1 = d1
  d2 = d2
  r1 = r1
  r2 = r2
  Nets <- AllNets
SPECIFICATION FairP
INVARIANTS SourceHeld DestinationHeld SentOnce LoadComplete
PROPERTIES SourceReleased
CHECK_DEADLOCK FALSE
