\* publish returns a result with errors instead of raising.
SPECIFICATION Spec
CONSTANTS
  Addresses = {1, 2}
  PageSize = 3
  IPv4 = {1, 2}
  Samples = {8, 9}
  Knows = {1, 9}
  Allowance <- OneSampleADay
  Always = {1, 2}
  Failures = {"report"}
  MaxFaults = 1
INVARIANT CachedOnlyLanded
CHECK_DEADLOCK FALSE
