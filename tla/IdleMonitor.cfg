SPECIFICATION FairSpec
CONSTANTS
  Watches = {w1, w2}
  NoWatch = NoWatch
  MaxOwners = 2
  MaxId = 2
  MaxFired = 2
  SlowOwners = {1}
  ReuseFreed = FALSE
INVARIANTS TypeOK RefCountInv IndexInv RemoveReachesItsMutter
PROPERTIES CallsTheRightWatch ImplementsService EventuallyRegistered EventuallyUnregistered
CHECK_DEADLOCK FALSE
