SPECIFICATION FairSpec
CONSTANTS
  ConnectSteps = 2
  Timeouts = {0, 2}
  MaxTime = 4
  MaxReqs = 4
  MaxStill = 1
INVARIANTS MatchWhileInStep SetupWithinBudget
PROPERTIES EndIsFinal SetupEnds
