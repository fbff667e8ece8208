CONSTANTS
  a = a
  b = b
  c = c
  d = d
  NoCell = NoCell
  Cell <- Four
  Shapes <- Disjoint4
  LinkedChoices <- SomeLinked
  MaxRelations = 3
  MaxHigh = 4
  MaxLow = 3
SPECIFICATION BuiltSpec
CHECK_DEADLOCK FALSE
INVARIANTS
  CountExact
  NeverOverConstrained
  EachAppliedOnce
  DerivedBelowContributors
  LosesOnlyToHigher
  DerivationAcyclic
PROPERTIES
  Repeatable
  UpdateEnds
