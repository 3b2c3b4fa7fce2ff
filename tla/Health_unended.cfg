CONSTANTS
  Interval = 2
  Breath = 1
  Recent = 3
  MaxBuild = 3
  MaxUnended = 2
  Horizon = 12
SPECIFICATION HealthSpec
INVARIANTS
  StallTurnsRed
CHECK_DEADLOCK FALSE
