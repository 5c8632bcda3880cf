SPECIFICATION Spec
CONSTANTS
  k1 = k1
  k2 = k2
  Key <- MCTwoKeys
  MaxGeneration = 2
  MaxOvertaking = 1
  MaxMsgs = 1
  MaxDisconnects = 1
  JobsPerKey = 2
  DrainInTime = FALSE
SYMMETRY Symmetry
INVARIANTS
  QuietMeansConverged
  NoConflictingJobs
PROPERTY OnlyWorkersTakeRequests
CHECK_DEADLOCK FALSE
