SPECIFICATION Spec
CONSTANTS
  app = app
  mirror = mirror
  other = other
  appDeb = appDeb
  otherDeb = otherDeb
  Urls <- MCUrls
  Names <- MCNames
  FileName <- MCFileName
  Chunks = 2
  Curls = 2
  MaxCrashes = 1
  NoFile = NoFile
  Hole = Hole
INVARIANTS
  TypeOK
  CompletedIsWhole
  OverMeansStill
  CancelledLeavesNothing
PROPERTIES
  DownloadsEnd
CHECK_DEADLOCK FALSE
