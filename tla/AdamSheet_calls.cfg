CONSTANTS
  NoCell = NoCell
  Cell = {"a", "b"}
  Shapes <- MCShapes
  Input = {"i"}
  Constant = {"k"}
  Output = {"o"}
  Invariant = {"v"}
  Logic = {"l"}
  Value = {0, 1}
  Empty = 0
  True = 1
  NoExpr = NoExpr
  Unmonitored = Unmonitored
  Step <- MCStep
  Sheets <- MCSheets
  Chosen = {"cyclic", "related", "failingcell", "attached", "chained", "filtered", "conditional", "restarted"}
  MaxRelations = 1
  MaxHigh = 3
  MaxLow = 1
  MaxLeak = 1
SPECIFICATION FairSheetSpec
CHECK_DEADLOCK FALSE
INVARIANTS
  SheetTypeOK
  OwnNameOnTop
  RefusesOnlyCycles
PROPERTIES
  CallsReturn
