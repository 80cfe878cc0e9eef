SPECIFICATION FairSpec
CONSTANTS
  Users = {u1}
  Orders = {o1, o2}
  Txns = {t1, t2}
  Requests = {r1}
  Subtotal = 2
  Discount = 1
  DeliveryFee = 1
  UsageLimit = None
  WalletStart = 2
  CampayEnabled = TRUE
  InOrder = TRUE
  MayFail = TRUE
  None = None

CHECK_DEADLOCK FALSE
INVARIANTS
  NeverOvercharged
PROPERTY PaidEndsCompleted
