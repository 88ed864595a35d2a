SPECIFICATION FairSpec
CONSTANT N = 3
INVARIANTS OutcomeIsTrue NothingLeft
PROPERTIES ImportReturns
CHECK_DEADLOCK FALSE
