CONSTANTS
  Name = {"A", "B", "C"}
  FirstTrains <- MCTrains
  MaxOps = 2
  MaxChanges = 1
  LabelEdits = TRUE
SPECIFICATION MacroSpec
CHECK_DEADLOCK FALSE
INVARIANTS NodesIndexed QuietMeansSaved
