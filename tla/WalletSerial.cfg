SPECIFICATION Spec
CONSTANTS
  Accounts = {a1}
  XafAccounts = {a1}
  Requests = {r1}
  Deposits = {d1}
  Withdrawals = {w1, w2}
  Amounts = {1, 2}
  MinWithdrawal = 1
  MaxWithdrawal = 2
  FeePercent = 1
  FeeMin = 1
  SettingsChoices <- BothModes
  PoolSize = 10
  MayFail = FALSE
  MaxStarted = 5
  None = None
CHECK_DEADLOCK FALSE
INVARIANTS
  ReservedIsPending
PROPERTIES
  ImplementsLedger
