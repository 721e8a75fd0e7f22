CONSTANTS
  lead = lead
  sub = sub
  none = none
SPECIFICATION Spec
INVARIANTS HitGreatest RetainedSuffices PlansValid SpacingKept
CHECK_DEADLOCK FALSE
SYMMETRY ActorSymmetry
