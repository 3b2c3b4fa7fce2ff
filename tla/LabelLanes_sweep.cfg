\* Three addresses, of which one is a malformed row, and pages of one and a
\* short one: passes end on a full page, a short page and an empty page.
SPECIFICATION FairSpec
CONSTANTS
  Addresses = {1, 2, 3}
  PageSize = 2
  Labels = {"scan", "substantive"}
  Malformed = {2}
  MaxFaults = 2
INVARIANT MarkedOnlyLanded
PROPERTY EveryLabelLands
CHECK_DEADLOCK FALSE
