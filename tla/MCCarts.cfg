SPECIFICATION CartsSpec
CONSTANTS
  t1 = t1
  t2 = t2
  p1 = p1
  p2 = p2
  NoCart = NoCart
  NoOp = NoOp
  Tabs = {t1}
  Products = {p1, p2}
  Requests <- Three
  Stock <- Plenty
  MaxQuantity = 3
  MaxAdd = 1
  MaxSignOuts = 1
  MaxSoldOut = 1
INVARIANTS MoveNeverLoses AddsSucceedTogether
CHECK_DEADLOCK FALSE
SYMMETRY Twins
PROPERTIES ImplementsAtomicCart
