SPECIFICATION Spec
CONSTANTS
  short = short
  long = long
  low = low
  medium = medium
  None = None
  Empty = Empty
  Texts = {short, long}
  Levels = {low, medium}
  FirstLevel = low
  Modules <- TestModules
  Requests <- TestRequests
  MaxTasks = 3
  MaxRequests = 1
CHECK_DEADLOCK FALSE
INVARIANTS TypeOK PixelsAreTheModules ShowsItsText NoAnswerIsLost
PROPERTIES NeverShowsAnOldText
