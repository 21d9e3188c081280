SPECIFICATION FairSpec
CONSTANTS
  Requests = {r1, r2, r3}
  MaxInFlight = 2
  MaxCrashes = 1
  LastStep = 3
  StepPercent = 33
  FormulaPercents = {15}

INVARIANTS TypeOK QuiescentFrontier
PROPERTIES LoneRequestMatchesBoard EndedTasksClosed RequestsEnd
CHECK_DEADLOCK FALSE
