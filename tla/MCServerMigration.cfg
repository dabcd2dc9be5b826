SPECIFICATION MigrationSpec
CONSTANTS
  TextDocs = {t1, t2}
  BinaryDocs = {b1}
  SkippedDocs = {x1}
  MaxCrashes = 3
INVARIANTS
  MigrationTypeOK
  NothingLost
  OriginalsAreKept
CHECK_DEADLOCK FALSE
