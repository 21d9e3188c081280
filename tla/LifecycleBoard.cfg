SPECIFICATION Spec
CONSTANTS
  LastStep <- BoardLength
  StepPercent <- WorthOfStep
  LegacyNext <- MiddleStep
  RequirementsStep <- MiddleStep
  PendingPercent <- BetweenSteps
  DonePercent <- WorthOfThird
  DraftSteps = {2}
  MinPercents <- CallerMinimums
  FormulaPercents <- NewFile
  EditStatuses = {"Open", "Closed"}
  Configurable = {2}
  MaxTargets = 1
  ForwardOnly = TRUE
INVARIANTS TypeOK FrontierOpen ProgressCoversPointer AdvanceIdempotent AdvanceSettlesPrior
PROPERTY CompletedStays
