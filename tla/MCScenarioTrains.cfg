SPECIFICATION FairSpec
CONSTANTS
  t1 = t1
  t2 = t2
  Train <- MCTrain
  Timetables <- MCTimetables
  BatchSize = 2
  MaxEdits = 2
  MaxInfras = 2
  MaxPaths = 1
  MaxFailures = 0
INVARIANTS
  RemovedTrainsStayRemoved
  ProjectionFollowsList
  QuietMeansFresh
PROPERTY EventuallySimulated
CHECK_DEADLOCK FALSE
