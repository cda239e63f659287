SPECIFICATION FairSpec
CONSTANTS
  Default = Default
  Time <- MCTime
  MaxStepNs <- MCMaxStepNs
  MaxSteps <- MCMaxSteps
  Smooth <- MCSmooth
  Refusals <- MCRefusals
  Err <- MCErr
  TolNum = 7
  TolDen = 2
INVARIANTS
  TypeOK
  StepSizeHasFloor
  ErrorWithinBudget
  NoNeedlessAbort
PROPERTIES
  Completes
