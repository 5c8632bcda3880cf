SPECIFICATION FairPoolSpec
CONSTANTS
  k1 = k1
  Key <- MCKey
  MaxGeneration = 2
  MaxOvertaking = 1
  MaxMsgs = 2
  MaxDisconnects = 1
  JobsPerKey = 2
  DrainInTime = TRUE
  MaxRequests = 2
  MaxDriverFailures = 1
INVARIANT RequestsAccountedFor
PROPERTIES
  EventuallyServed
  EventuallyConverged
CHECK_DEADLOCK FALSE
