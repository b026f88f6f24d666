SPECIFICATION Spec
CONSTANTS
  a = a
  b = b
  album = album
  None = None
  Images = {a, b}
  Shows = {album}
  Documents <- WellFormed
  SameAspect = {a}
  Placements = {zoom, centered}
  Colors = {blue, red}
  Frames = {1, 2}
  CacheSize = 4
  KeepExpensiveCacheSecs = 1
  MaxUint = 100
  FadeSteps = 2
  MaxTime = 3
  MaxEdits = 1
  MaxCalls = 3
CHECK_DEADLOCK FALSE
SYMMETRY Symmetry
INVARIANTS TypeOK ShownIsUpToDate NoSlideStaysTooLong NoExpensiveCaches
