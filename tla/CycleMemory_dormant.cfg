CONSTANTS
  Windows <- mcWindows
  Instants <- mcInstants
  Period <- mcPeriod
  Bounds <- mcBounds
  Edge <- mcEdge
  Ceiling = 25
  MinMembers = 2
  MaxMembers = 2
  KeepActivity = 5
  KeepLog = 5
  KeepState = 6
  MaxFaults = 2
  MaxLosses = 1
SPECIFICATION Spec
PROPERTY OnlyLabelsLapse
