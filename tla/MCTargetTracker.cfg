SPECIFICATION FairSpec
CONSTANTS
  k1 = k1
  k2 = k2
  c1 = c1
  c2 = c2
  Key <- MCKey
  Client <- MCClient
  InitialKeys <- MCInitialKeys
  UnbindDelay = 2
  DeleteDelay = 1
  TimeoutAllowance = 1
  ExtraLifetime = 1
  MaxTime = 4
  RequestHorizon = 3
INVARIANTS
  TypeOK
  TablesConsistent
  EvolveAdvances
  NotSpooledDownEarly
  AnsweredGenerationIsActive
  PublishedIsTarget
PROPERTIES
  RefinesSpooldown
  GenerationNamesTarget
  RequireIsAnswered
  OverdueIsPublished
CHECK_DEADLOCK FALSE
