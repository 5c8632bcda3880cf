CONSTANTS
  i1 = i1
  Input <- MCInput
  MaxLaunches = 2
  MaxLoads = 1
SPECIFICATION FairSpec
CHECK_DEADLOCK FALSE
INVARIANTS SelectedExists StoppedAddsNothing
PROPERTY PendingEnds
