SPECIFICATION Spec
CONSTANTS
  N = 2
  Blobs = {b1, b2}
  EmptyBlob = b2
  Calls = {c1, c2}
  NoBlob = NoBlob
  MaxMoves = 2
  MaxAmiss = 1
INVARIANTS
  TypeOK
  SettlesInAgreement
  MissingFilesCome
  RowsHaveBlobs
SYMMETRY Symmetry
CHECK_DEADLOCK FALSE
