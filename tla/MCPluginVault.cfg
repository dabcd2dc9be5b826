SPECIFICATION Spec
CONSTANTS
  Nodes = {n1, n2}
  NoNode = NoNode
  N = 2
  Runs = {r1, r2}
  NoFile = NoFile
  Blank = Blank
  Draft = Draft
  MaxFrames = 2
  MaxUser = 1
  MaxAmiss = 1
INVARIANTS
  TypeOK
  SettlesInAgreement
  RowsBeforeTexts
  BlanksAreAwaited
  RequestsAreServed
PROPERTY PublishesInOrder
CHECK_DEADLOCK FALSE
