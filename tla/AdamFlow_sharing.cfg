CONSTANTS
  a = a
  b = b
  c = c
  NoCell = NoCell
  Cell <- Three
  Shapes <- Sharing3
  MaxRelations = 2
  MaxHigh = 1
  MaxLow = 1
SPECIFICATION Spec
SYMMETRY Symmetry3
CHECK_DEADLOCK FALSE
INVARIANTS
  CellLetGo
