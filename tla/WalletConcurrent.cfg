SPECIFICATION Spec
CONSTANTS
  Accounts = {a1}
  XafAccounts = {a1}
  Requests = {r1, r2}
  Deposits = {d1}
  Withdrawals = {w1}
  Amounts = {1, 2}
  MinWithdrawal = 1
  MaxWithdrawal = 2
  FeePercent = 1
  FeeMin = 0
  SettingsChoices <- BothModes
  PoolSize = 4
  MayFail = TRUE
  MaxStarted = 4
  None = None
SYMMETRY SlotSymmetry
CHECK_DEADLOCK FALSE
INVARIANTS
  TypeOK
  BalancesOrdered
  LedgerTailMatches
  PostedImpliesDecided
