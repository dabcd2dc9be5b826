SPECIFICATION Spec
CONSTANTS
  Nodes = {n1, n2}
  NoNode = NoNode
  Edits = {e1, e2}
  Tasks = {t1, t2}
  MaxBreaks = 2
  MaxBroken = 1
  MaxAmiss = 1
INVARIANTS
  TypeOK
  SettlesInAgreement
  SubscribedAreTracked
  OnlyTypingReverts
PROPERTY DocumentsOnlyGrow
SYMMETRY Symmetry
CHECK_DEADLOCK FALSE
