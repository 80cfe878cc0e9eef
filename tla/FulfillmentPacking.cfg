SPECIFICATION Spec
CONSTANTS
  Packages = {p1, p2}
  Items = {i1, i2}
  Quantity = 2
  Window = 1
  MaxClock = 0
  MaxRecordings = 0
  MaxLines = 2
  MaxFailures = 1
  UploadMeetsJob = FALSE
  None = None
SYMMETRY IdSymmetry
CHECK_DEADLOCK FALSE
INVARIANTS
  TypeOK
  PackedIsCounted
  CompletedHasEvidence
PROPERTY
  ReceivedKeepsEvidence
