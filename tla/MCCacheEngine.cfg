CONSTANTS
  r1 = r1
  r2 = r2
  r3 = r3
  r4 = r4
  NoKey = NoKey
  Total = 6
  Keys <- AllKeys
  Scenarios <- AllScenarios
  Groups <- TwoGroups
  Alignment = 2
  Budgets = {3}
SPECIFICATION Spec
INVARIANTS RefsAreHolders NoHalfSchedule StateSound InputAccounted ColdFits
PROPERTIES SharingSound ImplementsLifecycle
CHECK_DEADLOCK FALSE
