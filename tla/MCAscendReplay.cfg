CONSTANTS
  Requests = {1, 2, 3, 4, 5, 6, 7, 8, 9, 10, 11, 12, 13, 14, 15}
  Deployments <- OneEngine
  StepLimit = 20
SPECIFICATION ReplaySpec
INVARIANTS Accepted NothingLeft
CHECK_DEADLOCK FALSE
