SPECIFICATION FairSpec
CONSTANTS
  Clients = {c1, c2}
  Cap = 1
  MaxEdits = 2
  MaxFaults = 1
  MaxEvents = 2
  DbMayFail = FALSE
PROPERTY EditsConverge
CHECK_DEADLOCK FALSE
