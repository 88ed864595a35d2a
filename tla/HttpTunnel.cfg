SPECIFICATION FairSpec
CONSTANTS
  SetupBound = 2
  PieceMax = 2
  SinkCap = 1
  FileLen = 3
  MaxRequests = 2
  Bodies <- MCBodies
INVARIANTS BodiesWhole
PROPERTIES ClosedCarriesNothing TunnelEnds
CHECK_DEADLOCK FALSE
