SPECIFICATION FairSpec
CONSTANTS
  r1 = r1  r2 = r2  r3 = r3  u1 = u1  u2 = u2  i1 = i1  i2 = i2  p1 = p1  p2 = p2
  Nobody = Nobody
  Quantity <- MCQuantity
  Requests = {r1, r2}
  Users = {u1, u2}
  Instances = {i1, i2}
  Products = {p1, p2}
  User <- TwoUsers
  Instance <- TwoInstances
  WithCoupon = {r1, r2}
  Supply <- MCSupply
  InitialCart <- DisjointCarts
  UsageLimit = 1
  PerUserLimit = 1
  Budget <- Faults
INVARIANTS
  StockAccounted CouponOrdersCounted RefusedLeavesNothing
 
CHECK_DEADLOCK FALSE
