SPECIFICATION FairSpec
CONSTANTS
  Pieces = 4
  PipeCap = 1
INVARIANTS NothingLeft ExportToldTruly
PROPERTIES ExportReturns
CHECK_DEADLOCK FALSE
