SPECIFICATION Spec
CONSTANTS
  Actors = {1, 2}
  Nodes = {1, 2}
  Names = {x, y}
  DocIds = {1, 2, 3}
  MaxEvents = 4
SYMMETRY Symmetry
INVARIANTS
  TypeOK
  BranchesGrow
  OnlyUnseenEditsResurrect
PROPERTY OnlyEditsYieldPaths
