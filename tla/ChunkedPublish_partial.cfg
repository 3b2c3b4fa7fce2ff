SPECIFICATION Spec
CONSTANTS
  ip = ip
  url = url
  note = note
  sight = sight
  geo = geo
  Objs <- MCObjs
  Contents <- TwoWindows
  PassOf <- MCPassOf
  Refs <- EdgeRefs
  Rejected <- None
  Immutable <- OnlyGeo
  Chunks = 2
  MinChunk = 1
  QuarantineAfter = 3
  Failures = {"chunk"}
  MaxFaults = 1
INVARIANT GivenUpOnlyProven
CHECK_DEADLOCK FALSE
