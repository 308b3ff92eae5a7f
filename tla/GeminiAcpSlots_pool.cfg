SPECIFICATION FairSpec
CONSTANTS
  Requests <- MCRequests
  Streams <- MCStreams
  NumSlots = 2
  Prewarm = TRUE
  MaxRuntimes = 2
  MaxCancels = 1
INVARIANTS
  LockIsUser
  WaitersCounted
  BrokenIsGone
PROPERTIES
  EveryRequestEnds
CHECK_DEADLOCK FALSE
