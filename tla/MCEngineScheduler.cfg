CONSTANTS
  Requests = {1, 2, 3, 4}
  Deployments <- AllEngines
SPECIFICATION FairSpec
INVARIANTS WritesFenced BlocksKept CountersTrue InOrder
PROPERTIES Completes DriverContract
CHECK_DEADLOCK FALSE
