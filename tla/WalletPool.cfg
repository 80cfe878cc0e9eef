SPECIFICATION FairSpec
CONSTANTS
  Accounts = {a1}
  XafAccounts = {a1}
  Deposits = {d1}
  MinWithdrawal = 1
  MaxWithdrawal = 2
  FeePercent = 1
  FeeMin = 0
  None = None
  Requests = {r1, r2, r3}
  Withdrawals = {w1}
  Amounts = {1}
  SettingsChoices <- BothModes
  PoolSize = 3
  MayFail = FALSE
  MaxStarted = 3
CHECK_DEADLOCK FALSE
INVARIANTS
  DecisionsPosted
PROPERTIES
  EveryRequestFinishes
