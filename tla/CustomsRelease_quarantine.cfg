SPECIFICATION Spec
CONSTANTS
  MaxRecords = 1
  MaxReceipts = 1
  Followed = {"CS-02", "CL-03"}
INVARIANT QuarantineHolds
