SPECIFICATION Spec
CONSTANTS
  Users = {u1, u2}
  Orders = {o1, o2}
  Txns = {t1, t2}
  Requests = {r1, r2}
  Subtotal = 2
  Discount = 1
  DeliveryFee = 1
  UsageLimit = 1
  WalletStart = 1
  CampayEnabled = TRUE
  InOrder = FALSE
  MayFail = TRUE
  None = None
SYMMETRY IdSymmetry
CHECK_DEADLOCK FALSE
INVARIANTS
  TypeOK
  CouponAccounted
  CompletedIsPaid
