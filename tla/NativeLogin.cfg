SPECIFICATION LoginSpec
CONSTANTS
  Schemas = {"S", "T"}
  Names = {"s", "T", "x"}
  MaxLogins = 2
  MaxOps = 3
INVARIANTS KeystreamsAgree SessionInSchema
CHECK_DEADLOCK FALSE
