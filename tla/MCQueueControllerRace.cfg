SPECIFICATION Spec
CONSTANTS
  k1 = k1
  k2 = k2
  Key <- MCOneKey
  MaxGeneration = 3
  MaxOvertaking = 3
  MaxMsgs = 1
  MaxDisconnects = 0
  JobsPerKey = 3
  DrainInTime = TRUE
INVARIANT JobsNeverConflict
CHECK_DEADLOCK FALSE
