SPECIFICATION Spec
CONSTANTS
  Duration = 2
  None = None
  MaxStarts = 3
  MaxSets = 6
  MaxClockSets = 0
CHECK_DEADLOCK FALSE
INVARIANT IsStartedWhileItRuns
