SPECIFICATION Spec
CONSTANTS
  a1 = a1
  a2 = a2
  nothing = nothing
  Apps <- MCApps
  Wide <- MCWide
  SystemApps <- MCSystemApps
  Nobody = Nobody
  MaxFaults = 2
  MaxCrashes = 1
CONSTRAINT TwoMishaps
INVARIANTS
  TypeOK
  RecordedHasDir
  ReportedIsRecorded
  UninstallLeavesNothing
  OneMishapHidesNothing
PROPERTIES
  ManifestForgetsNothing
