SPECIFICATION Spec
CONSTANTS
  Users = {u1, u2}
  MaxInFlight = 1
  MaxVersion = 5
  StatusEdits = FALSE
INVARIANTS TypeOK VerdictOfBoth
PROPERTY NoLostReview
CHECK_DEADLOCK FALSE
