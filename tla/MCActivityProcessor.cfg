SPECIFICATION ActivitySpec
CONSTANTS
  k1 = k1
  k2 = k2
  c1 = c1
  Key <- MCKey
  Client <- MCClient
  InitialKeys <- MCInitialKeys
  UnbindDelay = 2
  DeleteDelay = 1
  TimeoutAllowance = 1
  ExtraLifetime = 1
  MaxTime = 6
  RequestHorizon = 5
INVARIANT ActivityKeepsActive
CHECK_DEADLOCK FALSE
