\* The first installation has no cursor, and its first publish fails.
SPECIFICATION Spec
CONSTANTS
  a = a
  b = b
  Ids <- OneId
  Hits <- OneHits
  Parsed <- OneHits
  Start <- NoTime
  Legacy <- NoLegacy
  Lookback = 2
  MaxWindow = 3
  CapPolicy = "never"
  TieRead = FALSE
  RewindPolicy = "aboveStart"
  Settled = TRUE
  Outages = {}
  MaxTime = 5
  MaxFaults = 1
  MaxRewinds = 0
INVARIANTS
  RetriesSameWindow
CHECK_DEADLOCK FALSE
