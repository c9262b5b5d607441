SPECIFICATION Spec
CONSTANTS
  r1 = r1  r2 = r2  r3 = r3  u1 = u1  u2 = u2  i1 = i1  i2 = i2  p1 = p1  p2 = p2
  Nobody = Nobody
  Quantity <- MCQuantity
  Requests = {r1}
  Users = {u1}
  Instances = {i1}
  Products = {p1}
  User <- SameUser
  Instance <- OneInstance
  WithCoupon = {}
  Supply <- RichSupply
  InitialCart <- OneItemCart
  UsageLimit = 1
  PerUserLimit = 1
  Budget <- CancelAndThrow
INVARIANT StockReturnedOnce
CHECK_DEADLOCK FALSE
