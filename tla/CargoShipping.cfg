SPECIFICATION CargoSpec
CONSTANTS
  Files = {f1, f2}
  Boxes = {b1, b2}
  Days = {1, 20}
  Window = 15
  MaxLoads = 1
INVARIANTS CargoTypeOK ContainerUsedOnce DualApprovedByBoth UploadWasReviewed
