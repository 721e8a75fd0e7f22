CONSTANTS
  Scenarios <- AllScenarios
SPECIFICATION FairSpec
INVARIANTS TraceSound CycleIsReal
PROPERTIES Ends
CHECK_DEADLOCK FALSE
