CONSTANTS
  Interval = 2
  Breath = 1
  Recent = 3
  MaxBuild = 3
  MaxUnended = 1
  Horizon = 12
SPECIFICATION HealthSpec
INVARIANTS
  StallTurnsRed
  WorkStaysGreen
CHECK_DEADLOCK FALSE
