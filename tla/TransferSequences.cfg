SPECIFICATION Spec
CONSTANTS
  Packages = {p1, p2}
  Series = {s1}
  Items = {i1, i2}
  Bins = {b1, b2}
  AisleBins = {a1, a2}
  Requests = {r1}
  MaxTransfers = 5
  MaxBatch = 2
  MayFail = TRUE
  None = None
SYMMETRY IdSymmetry
ACTION_CONSTRAINT StaysOnOneFloor
CHECK_DEADLOCK FALSE
INVARIANTS
  TypeOK
  AlwaysListed
  EntryInOneBin
