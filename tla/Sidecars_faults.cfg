SPECIFICATION Spec
CONSTANTS
  Documents = {"d1", "d2", "d3", "d4"}
  CredentialOf <- mcCredentialOf
  SourceOf <- mcSourceOf
  Unparsed = "unparsed"
  PerSecond = 2
  Pause = 2
  ZeroAlert = 1
  LastInstant = 5
  MaxBreaks = 1
  Samples = {1, 2, 3}
  Unusable = {2}
  FamilyOf <- mcFamilyOf
  NoFamily = "none"
  MinFamily = 2
  LastDay = 3
  MaxMishaps = 2
  Files = {"f1", "f2", "f3"}
  DirOf <- mcDirOf
  Fragment <- mcFragment
  Content <- mcContent
  MaxTroubles = 3
  Sources = {"firehol", "spamhaus", "tor"}
  Broken = {"firehol"}
  RefreshEvery = 3
  RetryAfter = 1
  MaxAge = 9
  MaxSlips = 4
INVARIANTS
  CountedOnce
  PassedMeansLanded
  MarkedIsKept
  AnsweringListsUsable
CHECK_DEADLOCK FALSE
