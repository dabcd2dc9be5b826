\* An edit that the reconnect leaves behind.
SPECIFICATION Spec
CONSTANTS
  Nodes = {n1}
  NoNode = NoNode
  Edits = {e1, e2}
  Tasks = {t1, t2}
  MaxBreaks = 1
  MaxBroken = 1
  MaxAmiss = 1
INVARIANT ReconnectSynchronizes
SYMMETRY Symmetry
CHECK_DEADLOCK FALSE
