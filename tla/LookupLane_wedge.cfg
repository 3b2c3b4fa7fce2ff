\* As many addresses as a page holds: the pass should end on an empty page.
SPECIFICATION FairSpec
CONSTANTS
  Addresses = {1, 2}
  PageSize = 2
  IPv4 = {1, 2}
  Samples = {}
  Knows = {1}
  Allowance <- OneSampleADay
  Always = {1, 2}
  Failures = {}
  MaxFaults = 0
PROPERTY StaysAnswered
CHECK_DEADLOCK FALSE
