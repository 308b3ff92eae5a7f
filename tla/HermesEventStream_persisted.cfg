SPECIFICATION Spec
CONSTANTS
  c1 = c1
  c2 = c2
  Clients <- MCClients
  MaxEvents = 1
  MaxRollbacks = 0
  MaxRestarts = 0
  MaxDrops = 0
CHECK_DEADLOCK FALSE
INVARIANT ToldIsPersisted
