SPECIFICATION FairSpec
CONSTANTS
  c1 = c1
  c2 = c2
  Clients <- MCClients
  MaxEvents = 1
  MaxRollbacks = 1
  MaxRestarts = 1
  MaxDrops = 1
CHECK_DEADLOCK FALSE
INVARIANTS
  TypeOK
  ShownInOrder
  ShownIsRecorded
  ClosedAfterEnd
PROPERTY ToldStreamCloses
