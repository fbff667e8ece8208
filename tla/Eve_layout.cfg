CONSTANTS
  Layout <- MCLayout
  Trees <- MCTrees
  Calls <- MCCalls
  NaNRounds <- MCNaNRounds
SPECIFICATION Spec
INVARIANTS
  SolveSettles
  ChildrenInside
  SpacingKept
  GuidesMeet
  ResizeForgets
