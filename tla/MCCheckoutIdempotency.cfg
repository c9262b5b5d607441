SPECIFICATION Spec
CONSTANTS
  t1 = t1  t2 = t2
  Tabs = {t1, t2}
  Bodies = {1, 2}
  MaxRequests = 3
  MaxKeys = 4
  Budget <- Retries
INVARIANTS
  OneOrderPerKey RetryReturnsOrder OneHandlerPerKey KeyIsReleased
CHECK_DEADLOCK FALSE
