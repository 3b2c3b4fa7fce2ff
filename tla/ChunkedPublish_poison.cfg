SPECIFICATION FairSpec
CONSTANTS
  ip = ip
  url = url
  note = note
  sight = sight
  geo = geo
  Objs <- MCObjs
  Contents <- Poisoned
  PassOf <- MCPassOf
  Refs <- UrlRefs
  Rejected <- OnlyUrl
  Immutable <- OnlyGeo
  Chunks = 2
  MinChunk = 1
  QuarantineAfter = 2
  Failures = {"work", "send", "toProcessed", "lookup", "refuse", "wait", "crash"}
  MaxFaults = 3
INVARIANT GivenUpOnlyProven
INVARIANT PoisonCostsOnlyItself
PROPERTY NoWedge
CHECK_DEADLOCK FALSE
