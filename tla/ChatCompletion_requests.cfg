SPECIFICATION Spec
CONSTANTS
  NoLimit = NoLimit
  Asks <- MCAsks
  Limits <- MCLimits
  Plans <- MCPlans
  MaxTime = 4
CHECK_DEADLOCK FALSE
INVARIANTS
  LimitHolds
  OneAnswer
  OneRow
