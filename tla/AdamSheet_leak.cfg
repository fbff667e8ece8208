CONSTANTS
  NoCell = NoCell
  Cell = {"a", "b"}
  Shapes <- MCShapes
  Input = {"i"}
  Constant = {"k"}
  Output = {"o"}
  Invariant = {"v"}
  Logic = {"l"}
  Value = {0, 1}
  Empty = 0
  True = 1
  NoExpr = NoExpr
  Unmonitored = Unmonitored
  Step <- MCStep
  Sheets <- MCSheets
  Chosen = {"failingcell"}
  MaxRelations = 1
  MaxHigh = 5
  MaxLow = 3
  MaxLeak = 1
  Get <- Var
  MaxReads = 2
SPECIFICATION HSheetSpec
CHECK_DEADLOCK FALSE
PROPERTIES
  ClientSeesOutput
