SPECIFICATION Spec
CONSTANTS
  Sources = {1, 2}
  Rows = {1, 2}
  Orders = {o1}
  Linked <- SharedOrder
  Calls = {c1, c2}
  Start = 1
  Unpack = 2
  LastStep = 3
  Notes = {n1}
  MaxStage = 2
  Codes = {1}
  Patches = {"active"}
  Together = {"step","page","track"}
  MaxHistory = 3
  MaxCauses = 1
  None = None
SYMMETRY IdSymmetry
CHECK_DEADLOCK FALSE
INVARIANTS
  TypeOK
  ClosedIsSent
  PageFinishes
  StepIsHighest
PROPERTIES
  LegKept
