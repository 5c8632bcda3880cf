CONSTANTS
  Groups <- MCGroups
  Values = {0, 1}
  KnownStocks = {0}
  Times = {2}
  Names = {3}
  Paces <- MCPaces
  MaxOps = 3
  MaxInFlight = 2
SPECIFICATION Spec
CHECK_DEADLOCK FALSE
INVARIANTS ExceptionsIdentify EditSticks SelectedOccurrenceExists
PROPERTIES OthersUntouched ExceptionsSurvive
