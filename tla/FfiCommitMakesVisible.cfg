SPECIFICATION FfiSpec
CONSTANTS
  ConnTimeouts = {0, 6}
  StatementTimeouts = {}
  TicksPerMilli = 2
  TicksPerSecond = 4
  AmbientLimit = 7
  MaxLimit = 4
  MaxWrites = 3
INVARIANTS CommitMakesVisible
CHECK_DEADLOCK FALSE
