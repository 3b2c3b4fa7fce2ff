SPECIFICATION Spec
CONSTANTS
  ip = ip
  url = url
  note = note
  sight = sight
  geo = geo
  Objs <- MCObjs
  Contents <- OneWindow
  PassOf <- MCPassOf
  Refs <- EdgeRefs
  Rejected <- OnlyIp
  Immutable <- OnlyGeo
  Chunks = 1
  MinChunk = 1
  QuarantineAfter = 3
  Failures = {}
  MaxFaults = 0
INVARIANT EmitOnceLanded
CHECK_DEADLOCK FALSE
