SPECIFICATION Spec
CONSTANTS
  user = user
  system = system
  a = a
  b = b
  png = png
  pdf = pdf
  Paths = {a, b}
  Dirs = {system}
  DirOf <- BothInSystem
  MimeTypes = {png, pdf}
  Claims <- OneClaim
  Mounts = {system}
  NoPath = NoPath
  Broken = Broken
  Gone = Gone
  MaxEvents = 1
CHECK_DEADLOCK FALSE
INVARIANT NoneAfterUnmount
