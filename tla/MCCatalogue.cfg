SPECIFICATION Spec
CONSTANTS
  p1 = p1  p2 = p2  i1 = i1  i2 = i2  w1 = w1  w2 = w2  kAll = kAll  kOne = kOne  None = None
  Products = {p1, p2}
  Processes = {i1, i2}
  Keys = {kAll, kOne}
  Matches <- MCMatches
  Writers = {w1, w2}
  Listers = {l1}
  Existing = {p1}
  CacheSize = 1
  TTL = 2
  MaxTime = 2
  MaxFaults = 1
INVARIANTS ServedWithinTTL OwnWritesAreListed UploadsAreUsed
SYMMETRY Alike
CHECK_DEADLOCK FALSE
