SPECIFICATION FairSpec
CONSTANTS
  p1 = p1
  p2 = p2
  p3 = p3
  Nobody = Nobody
  Procs <- MCProcs
  TTL = 2
  StallsIn <- WhileWorking
  LastWindow = 2
  MaxStalls = 1
  MaxUnclean = 1
  MaxCrashes = 1
INVARIANT OneCycleAtATime
PROPERTY WritesWhatItRead
PROPERTY MovesUnderLease
PROPERTY KeepsPublishing
CHECK_DEADLOCK FALSE
