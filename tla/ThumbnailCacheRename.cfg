SPECIFICATION Spec
CONSTANTS
  normal = normal
  large = large
  t1 = t1
  t2 = t2
  Threads = {t1, t2}
  Sizes = {normal, large}
  Setups <- RenameFails
  Uris = {file}
  MaxMTime = 1
  None = None
CHECK_DEADLOCK FALSE
INVARIANT TrueMeansSaved
