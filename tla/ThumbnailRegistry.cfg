SPECIFICATION FairSpec
CONSTANTS
  user = user
  system = system
  a = a
  b = b
  png = png
  pdf = pdf
  Paths = {a, b}
  Dirs = {user, system}
  DirOf <- OneFileEach
  MimeTypes = {png, pdf}
  Claims <- Overlapping
  Mounts = {system}
  NoPath = NoPath
  Broken = Broken
  Gone = Gone
  MaxEvents = 2
CHECK_DEADLOCK FALSE
INVARIANTS TypeOK RefsBalance MapIsSound ListIsWhatIsOnDisk SettingsAreObeyed
PROPERTY EventuallyListed
