SPECIFICATION LSpec
CONSTANTS
  o1 = o1  o2 = o2  p1 = p1  p2 = p2  h1 = h1  h2 = h2  s1 = s1  s2 = s2
  Orders <- MCOrders
  Products <- MCProducts
  Items <- MCItems
  Supply <- MCSupply
  Webhooks <- MCWebhooks
  Handlers = {h1}
  Sweepers = {s1}
  MaxFaults = 1
INVARIANTS
  StockAccounted LiveOrderHoldsStock CancelledPaymentIsRefunded
PROPERTY ImplementsOrderMachine
