SPECIFICATION Spec
CONSTANTS
  TicksPerSecond = 2
  SecondsPerMinute = 2
  MaxReal = 4
  MaxSets = 1
  Formats = {f12h, f24h}
  Zones = {utc, cet}
SYMMETRY Symmetry
INVARIANTS TypeOK ShowsTheTime WakesOnlyToShowAnotherTime
