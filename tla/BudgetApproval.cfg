SPECIFICATION Spec
CONSTANTS
  Users = {u1, u2}
  Admins = {u2}
  Figures = {100, 150}
  Threshold = 40
  MaxBudgets = 2
  EditStatuses = {"Draft"}
INVARIANTS TypeOK RevisionChain PendingIsClean FreshCodeOnScreens
PROPERTIES SecondByEditOnly SupersededFrozen
CHECK_DEADLOCK FALSE
