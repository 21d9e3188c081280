SPECIFICATION Spec
CONSTANTS
  Types = {advance, final}
  MaxRequests = 2
  MaxBatches = 1
  Moves = FALSE
INVARIANTS TypeOK PaidIsSettled PaymentsShown
PROPERTY UndoneByApprovalOnly
SYMMETRY TypesAlike
CHECK_DEADLOCK FALSE
