CONSTANTS
  Windows <- mcWindows
  Salvaged <- mcSalvaged
  Configs <- mcConfigs
  Malformed <- mcMalformed
  OwnHosts <- mcOwnHosts
  EsCounts <- mcEsCounts
  MaxWebUrls = 2
SPECIFICATION BundleSpec
INVARIANTS
  OrderFree
  NoEdgeDangles
  AccusedForCause
  CountsWindowOnce
  IcsLabelsKept
