SPECIFICATION FfiSpec
CONSTANTS
  ConnTimeouts = {0, 1, 5, 6}
  StatementTimeouts = {0, 2, 4, 18}
  TicksPerMilli = 2
  TicksPerSecond = 4
  AmbientLimit = 7
  MaxLimit = 4
  MaxWrites = 3
INVARIANTS TransactionAgrees TimeoutInForce ManualOnceSwitched
PROPERTIES NothingLeaksBeforeCommit TransactionEndsWhole
CHECK_DEADLOCK FALSE
