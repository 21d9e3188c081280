SPECIFICATION Spec
CONSTANTS
  Requests = {r1, r2, r3}
  MaxInFlight = 1
  MaxCrashes = 0
  LastStep = 3
  StepPercent = 33
  FormulaPercents = {15}

INVARIANT NoTrappedStep
PROPERTY BoardAtomic
CHECK_DEADLOCK FALSE
