SPECIFICATION Spec
CONSTANTS
  r1 = r1
  r2 = r2
  r3 = r3
  Requests <- MCRequests
  Kinds <- ChargesOnly
  InitialCredits = 3
  StartFee = 2
  Costs <- MCCosts
  Adjustments <- MCAdjustments
  MaxLosses = 0
CHECK_DEADLOCK FALSE
SYMMETRY Symmetry
INVARIANT EveryChangeIsKept
