SPECIFICATION FairSpec
CONSTANTS
  c1 = c1
  c2 = c2
  Cursors <- MCCursors
  MaxRows <- MCMaxRows
  Handles = {1, 2}
  PageRows = 2
  TotalMayBeWrong = TRUE
  FirstResponseFits = TRUE
INVARIANTS CursorsApart
PROPERTIES ReadsAsPromised FetchAllReturns
CHECK_DEADLOCK FALSE
