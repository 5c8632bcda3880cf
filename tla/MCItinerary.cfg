CONSTANTS
  LineLength = 3
  Trains <- MCTrains
  Stock = {"S1", "S2"}
  Tag = {"T1", "T2"}
  Typed <- MCTyped
  Clicked = {2, 3}
  MaxLaunches = 3
  MaxFailures = 1
SPECIFICATION FairSpec
CHECK_DEADLOCK FALSE
INVARIANTS StepsFoundInOPs PathIsCurrent RestrictionsStayOnPath
PROPERTY RunningEnds
