CONSTANTS
  Workloads <- WithZero
  SessionConcurrency = 1
  PSlots = 2
  ChunkTokens = 2
  StepBudget = 3
  TransferTicks = 1
SPECIFICATION Spec
INVARIANTS NeverStuck
CHECK_DEADLOCK FALSE
