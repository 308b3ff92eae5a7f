SPECIFICATION Spec
CONSTANTS
  m1 = m1
  m2 = m2
  Models <- MCModels
  Asks <- MCAsks
  MaxRequests = 2
  MaxProcesses = 2
  MaxFaults = 1
  MaxLeaves = 1
INVARIANTS
  TypeOK
  OwnUpdates
  RightModel
PROPERTIES
  EveryRequestEnds
CHECK_DEADLOCK FALSE
