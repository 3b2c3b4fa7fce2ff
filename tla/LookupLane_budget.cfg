\* Rows 2 and 3 are IPv6.  Whether 6 is active or not, the second page of a
\* pass is short and has an IPv4 address.
SPECIFICATION FairSpec
CONSTANTS
  Addresses = {1, 2, 3, 5, 6}
  PageSize = 3
  IPv4 = {1, 5}
  Samples = {8, 9}
  Knows = {5, 9}
  Allowance <- OneSampleADay
  Always = {1, 2, 3, 5}
  Failures = {"read", "fetch", "raise", "crash"}
  MaxFaults = 1
INVARIANT CachedOnlyLanded
INVARIANT BudgetKept
PROPERTY StaysAnswered
CHECK_DEADLOCK FALSE
