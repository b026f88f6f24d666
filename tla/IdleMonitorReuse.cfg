SPECIFICATION Spec
CONSTANTS
  Watches = {w1, w2}
  NoWatch = NoWatch
  MaxOwners = 1
  MaxId = 2
  MaxFired = 1
  SlowOwners = {}
  ReuseFreed = TRUE
PROPERTIES OnlyItsOwnCallbackRemoves
CHECK_DEADLOCK FALSE
