SPECIFICATION Spec
CONSTANTS
  r1 = r1
  r2 = r2
  r3 = r3
  Requests <- MCRequests
  Kinds <- AllKinds
  InitialCredits = 3
  StartFee = 2
  Costs <- MCCosts
  Adjustments <- MCAdjustments
  MaxLosses = 1
CHECK_DEADLOCK FALSE
INVARIANTS
  TypeOK
  BalanceIsLedger
  NothingTaken
PROPERTIES
  DebtIsBounded
  FundsAtAccept
