\* Two Sightings, crashes, lost writes and unanswered calls, and one operator
\* who moves the cursor.  The bounded clock lets the system come to rest.
SPECIFICATION FairSpec
CONSTANTS
  a = a
  b = b
  Ids <- MCIds
  Hits <- MCHits
  Parsed <- MCParsed
  Start = 0
  Legacy <- NoLegacy
  Lookback = 2
  MaxWindow = 3
  CapPolicy = "stable"
  TieRead = FALSE
  RewindPolicy = "aboveStart"
  Settled = TRUE
  Outages = {"aggregation", "lookup"}
  MaxTime = 5
  MaxFaults = 3
  MaxRewinds = 1
INVARIANTS
  WritesWiden
  NeverInflates
  NoGapBelowCursor
PROPERTIES
  ImplementsTally
  CatchesUp
CHECK_DEADLOCK FALSE
