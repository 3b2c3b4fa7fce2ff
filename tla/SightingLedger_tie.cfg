\* Documents at the tick of the cap are read before it trips.
SPECIFICATION Spec
CONSTANTS
  a = a
  b = b
  Ids <- MCIds
  Hits <- MCHits
  Parsed <- MCHits
  Start = 0
  Legacy <- NoLegacy
  Lookback = 2
  MaxWindow = 3
  CapPolicy = "stable"
  TieRead = TRUE
  RewindPolicy = "aboveStart"
  Settled = TRUE
  Outages = {}
  MaxTime = 5
  MaxFaults = 0
  MaxRewinds = 0
INVARIANTS
  NeverInflates
CHECK_DEADLOCK FALSE
