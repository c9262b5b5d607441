SPECIFICATION FairSpec
CONSTANTS
  o1 = o1  o2 = o2  p1 = p1  p2 = p2  h1 = h1  h2 = h2  s1 = s1  s2 = s2
  Orders <- OneOrder
  Products <- MCProducts
  Items <- OneItems
  Supply <- MCSupply
  Webhooks <- RepeatedWebhooks
  Handlers = {h1, h2}
  Sweepers = {s1, s2}
  MaxFaults = 0
INVARIANTS
  RecordedPaymentTookEffect
PROPERTIES ExpiredOrderIsSettled CancelledStockReturns
