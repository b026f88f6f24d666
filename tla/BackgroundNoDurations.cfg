SPECIFICATION Spec
CONSTANTS
  a = a
  b = b
  album = album
  None = None
  Images = {a, b}
  Shows = {album}
  Documents <- NoDurations
  SameAspect = {a}
  Placements = {zoom, centered}
  Colors = {blue, red}
  Frames = {1, 2}
  CacheSize = 4
  KeepExpensiveCacheSecs = 1
  MaxUint = 100
  FadeSteps = 2
  MaxTime = 1
  MaxEdits = 0
  MaxCalls = 1
CHECK_DEADLOCK FALSE
INVARIANT AlwaysACurrentSlide
