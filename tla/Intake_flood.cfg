CONSTANTS
  Addresses <- mcAddresses
  NoSource = "nosource"
  NoId = "noid"
  Garbled = "garbled"
  Gap = 1
  Documents <- mcDocuments
  Late <- mcLate
  MaxEvents = 7
  PageSize = 3
  MaxWindow = 2
  FattEvery = 2
  IgnoreTypes = {"P0f"}
  Own = {"us"}
  ByOrigin = {"census"}
  ByName = {"named"}
  LookupBudget = 1
  KeepIcs = TRUE
  MaxSalvaged = 1
  Horizon = 5
  MaxFaults = 1
SPECIFICATION Spec
INVARIANTS
  NothingLeftBehind
  ReadAccounted
  SessionsExact
  EvidenceCarried
PROPERTIES
  MovesPastFlood
CHECK_DEADLOCK FALSE
