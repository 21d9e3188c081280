SPECIFICATION Spec
CONSTANTS
  MaxRecords = 2
  MaxReceipts = 1
  Followed = {"CL-03"}
INVARIANTS TypeOK ReleaseIsEarned BlockedGoodsNotAccepted DutyTaskWaits
