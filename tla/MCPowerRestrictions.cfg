CONSTANTS
  Length = 4
  Vias <- MCVias
  ChangePoints = {1}
  Code = {"C1"}
  MaxEdits = 5
SPECIFICATION PowerSpec
CHECK_DEADLOCK FALSE
INVARIANTS RestrictionsHaveSteps 
