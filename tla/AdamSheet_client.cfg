CONSTANTS
  NoCell = NoCell
  Cell = {"a", "b", "c"}
  Shapes <- MCShapes
  Input = {"i"}
  Constant = {"k"}
  Output = {"o"}
  Invariant = {"v"}
  Logic = {"l"}
  Value = {0, 1}
  Empty = 0
  True = 1
  NoExpr = NoExpr
  Unmonitored = Unmonitored
  Step <- MCStep
  Sheets <- MCSheets
  Chosen = {"related", "conditional", "filtered", "chosen", "chained", "failing", "cyclic", "attached", "forward", "initialized", "governed", "touching"}
  MaxRelations = 1
  MaxHigh = 5
  MaxLow = 1
  MaxLeak = 0
  Get <- Var
  MaxReads = 2
SPECIFICATION ClientSpec
CHECK_DEADLOCK FALSE
INVARIANTS
  ValuesRight
  MonitorsInSyncUnlessFailed
  EnabledInSyncUnlessFailed
PROPERTIES
  ContributingComplete
  Quiet
  ClientSeesOutputUnlessFailed
  Reinitialized
  EnabledConservative
