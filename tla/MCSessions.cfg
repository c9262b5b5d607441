SPECIFICATION FairSpec
CONSTANTS
  t1 = t1
  t2 = t2
  NoTab = NoTab
  Tabs = {t1, t2}
  Calls <- SomeCalls
  MaxPairs = 5
  Rows <- TwoRows
  Budget <- Few
 
PROPERTIES ImplementsRotation TabSettles
CHECK_DEADLOCK FALSE
