CONSTANTS
  a = a
  b = b
  c = c
  d = d
  NoCell = NoCell
  Cell <- Three
  Shapes <- Single3
  LinkedChoices <- AllLinked
  MaxRelations = 2
  MaxHigh = 2
  MaxLow = 2
SPECIFICATION HSpec
SYMMETRY Symmetry3
CHECK_DEADLOCK FALSE
INVARIANTS
  TypeOK
  CountExact
  LosesOnlyToHigher
