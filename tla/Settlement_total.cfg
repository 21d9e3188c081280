SPECIFICATION Spec
CONSTANTS
  MaxSettlements = 1
  MaxInvoices = 1
INVARIANT TotalOfLines
