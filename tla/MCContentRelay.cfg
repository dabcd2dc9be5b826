SPECIFICATION Spec
CONSTANTS
  Clients = {c1, c2}
  Cap = 1
  MaxEdits = 2
  MaxFaults = 1
  MaxEvents = 3
  DbMayFail = TRUE
SYMMETRY Symmetry
INVARIANTS
  TypeOK
  RelayedIsSaved
  NothingMissed
CHECK_DEADLOCK FALSE
