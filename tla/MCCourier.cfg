SPECIFICATION FairSpec
CONSTANTS
  Shifts = {c1, c2}
  MaxHistory = 1
  HistoryCap = 2
  MaxInbox = 1
  MaxOffered = 2
  FleetSize = 2
  RetireEvery = 1
  Reliable = FALSE
INVARIANTS TypeOK FleetGoesOn AssignmentsInOrder
PROPERTIES EndIsKept EveryShiftIsReplaced ShiftKeepsUp
