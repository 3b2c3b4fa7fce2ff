\* One Sighting OpenCTI already holds, and an operator who moves the cursor
\* anywhere once a cycle published cleanly: gaps, backfills, re-runs, rejects.
\* Every event is parsed and every read-back answers, so counts are exact.
SPECIFICATION Spec
CONSTANTS
  a = a
  b = b
  Ids <- OneId
  Hits <- OneHits
  Parsed <- OneHits
  Start = 3
  Legacy <- SomeLegacy
  Lookback = 2
  MaxWindow = 3
  CapPolicy = "stable"
  TieRead = FALSE
  RewindPolicy = "afterClean"
  Settled = TRUE
  Outages = {"aggregation"}
  MaxTime = 6
  MaxFaults = 2
  MaxRewinds = 2
INVARIANTS
  OneOpenWindow
  ExactWhenClosed
CHECK_DEADLOCK FALSE
