CONSTANTS
  lead = lead
  sub = sub
  s1 = s1
  s2 = s2
  Actors = {lead, sub}
  None = None
  NoKey = None
  Scale = 1
  Offset = 0
  Sessions = {s1, s2}
  Plans <- TwoPlans
  MaxConcurrency = 2
  MaxFaults = 2
  MayTimeOut = {s1}
SPECIFICATION FairSpec
INVARIANTS FaultsIsolated SlotsExact
PROPERTIES TasksEnd
CHECK_DEADLOCK FALSE
