SPECIFICATION FairSpec
CONSTANTS
  Clients = {c1, c2}
  MaxUpdates = 2
  MaxFaults = 2
  IoMayFail = TRUE
INVARIANTS
  TypeOK
  BroadcastsAreDurable
  LamportCoversManifest
  StampsAreUnique
PROPERTY ConvergesUnlessIoFails
CHECK_DEADLOCK FALSE
