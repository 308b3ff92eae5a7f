SPECIFICATION FairSpec
CONSTANTS
  w1 = w1
  w2 = w2
  c1 = c1
  NumTasks = 2
  Workers <- MCWorkers
  Cancels <- MCCancels
  MaxSeq = 3
  MaxCrashes = 1
  MaxFaults = 1
INVARIANTS
  TypeOK
  SingleOwner
  OpenTaskHasOwner
  ChargedAtMostOnce
  SubmittedOncePerProcess
PROPERTIES
  ImplementsContract
  EveryTaskEnds
  SubmittedIsCharged
