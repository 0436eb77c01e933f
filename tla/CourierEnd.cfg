SPECIFICATION FairSpec
CONSTANTS
  Shifts = {c1, c2}
  MaxHistory = 1
  HistoryCap = 2
  MaxInbox = 1
  MaxOffered = 1
  FleetSize = 1
  RetireEvery = 2
  Reliable = TRUE
PROPERTY EndedShiftCloses
\* The two ids are used up once a shift is stuck.
CHECK_DEADLOCK FALSE
