SPECIFICATION FairSpec
CONSTANTS
  good = good
  lethal = lethal
  unknown = unknown
  w1 = w1
  w2 = w2
  Call <- MCCall
  Worker <- MCWorker
  Poison <- MCPoison
  Unknown <- MCUnknown
  Threads = 2
  MaxCrashes = 1
INVARIANTS
  OneCopy
  RequestNotLost
PROPERTY GoodCallsAnswered
CHECK_DEADLOCK FALSE
