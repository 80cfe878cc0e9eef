SPECIFICATION Spec
CONSTANTS
  Tickets = {t1}
  Items = {i1, i2}
  Requests = {r1, r2}
  Keys = {k1}
  MaxOpen = 1
  MaxQuantity = 2
  MaxRevisions = 2
  MaxClock = 0
  MaxFailures = 0
  Together = {"create", "update", "prepare", "takeout", "initiate", "confirm"}
  ReminderDays = 1
  Runs = {}
  None = None
SYMMETRY IdSymmetry
CHECK_DEADLOCK FALSE
INVARIANTS
  TypeOK
  NeverMoreThanRequested
  BorrowAgrees
  KeyCountedOnce
  UnchangedSinceApproval
PROPERTY
  FinalStaysFinal
