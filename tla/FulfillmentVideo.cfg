SPECIFICATION FairSpec
CONSTANTS
  Packages = {p1}
  Items = {i1}
  Quantity = 1
  Window = 1
  MaxClock = 3
  MaxRecordings = 2
  MaxLines = 1
  MaxFailures = 1
  UploadMeetsJob = FALSE
  None = None
CHECK_DEADLOCK FALSE
PROPERTIES
  AnswerIsFinal
  SilenceIsTold
