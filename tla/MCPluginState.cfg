SPECIFICATION Spec
CONSTANTS
  MaxStamp = 4
  MaxStops = 3
  MaxWriters = 2
  MaxAmiss = 1
INVARIANTS
  TypeOK
  NoStampTwice
  DiskIsCurrent
CHECK_DEADLOCK FALSE
