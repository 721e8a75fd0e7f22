CONSTANTS
  Workloads <- Small
  NDomains = 2
  MaxInFlight = 2
  MaxTokens = 2
  MaxSeqs = 2
  MaxSteps = 7
SPECIFICATION Spec
INVARIANTS TransfersSound InputExact ResultValid NeverStalled
CHECK_DEADLOCK FALSE
