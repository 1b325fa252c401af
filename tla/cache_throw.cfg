CONSTANTS
  k1 = k1
  k2 = k2
  c1 = c1
  c2 = c2
  c3 = c3
  Keys <- MCKeys
  Callers <- MCCallers
  Scopes <- Root
  MayClear = FALSE
  MayThrow = TRUE
  MaxFetches = 2
  Direct = Direct
  None = None
SPECIFICATION CacheSpec
SYMMETRY MCSymmetry
INVARIANT RejectionsNotCached
CHECK_DEADLOCK FALSE
