CONSTANTS
  Workloads <- Positive
  SessionConcurrency = 1
  PSlots = 2
  ChunkTokens = 2
  StepBudget = 3
  TransferTicks = 1
SPECIFICATION FairSpec
INVARIANTS BooksSound
PROPERTIES NothingSkipped Terminates
CHECK_DEADLOCK FALSE
