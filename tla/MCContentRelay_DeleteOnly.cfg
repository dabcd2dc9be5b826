\* A deletion alone is dropped by the server as an empty update.
SPECIFICATION Spec
CONSTANTS
  Clients = {c1, c2}
  Cap = 1
  MaxEdits = 2
  MaxFaults = 0
  MaxEvents = 2
  DbMayFail = FALSE
PROPERTY SkipsOnlyEmptyUpdates
CHECK_DEADLOCK FALSE
