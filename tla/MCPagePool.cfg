CONSTANTS
  k1 = k1
  k2 = k2
  NoKey = NoKey
  Total = 4
  Keys <- TwoKeys
  MaxRefs = 2
SPECIFICATION PoolSpec
INVARIANTS PoolExact
PROPERTIES StateSafe ImplementsBlockQueue
