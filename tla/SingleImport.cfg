SPECIFICATION FairSpec
CONSTANTS
  N = 3
  Cap = 1
INVARIANTS SourceToldTruly
PROPERTIES ImportSettles
CHECK_DEADLOCK FALSE
