SPECIFICATION FairSpec
CONSTANTS
  Tickets = {t1, t2}
  Items = {i1}
  Requests = {r1}
  Keys = {}
  MaxOpen = 1
  MaxQuantity = 1
  MaxRevisions = 1
  MaxClock = 2
  MaxFailures = 1
  Together = {}
  ReminderDays = 1
  Runs = {daily, page}
  None = None
CHECK_DEADLOCK FALSE
INVARIANTS
  RemindersSpaced
PROPERTY
  DueIsTold
