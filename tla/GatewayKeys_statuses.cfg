SPECIFICATION Spec
CONSTANTS
  j1 = j1
  j2 = j2
  j3 = j3
  Jobs <- MCJobs
CHECK_DEADLOCK FALSE
SYMMETRY Symmetry
INVARIANTS
  RevokedStaysOut
  CreatedOnce
PROPERTY ReopenedOnDemand
