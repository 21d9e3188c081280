SPECIFICATION Spec
CONSTANTS
  MaxSettlements = 1
  MaxInvoices = 2
INVARIANTS TypeOK OneLineEach TasksHandedOn
