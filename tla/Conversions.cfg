SPECIFICATION Spec
CONSTANTS
  Step = 10
  UnitDigits = 1
  MaxInt = 1000000000
  MaxPrecision = 36
  IntPrecision = 18
  MaxVarchar = 2000000
  MaxChar = 2000
  Base = 32
  IntBytes = 4
  LongBytes = 6
  MaxParts = 3
  MaxTimeout = 300
  MinKeyBits = 96
  MaxKeyBits = 1064
  DefaultMessageSize = 64
  RsaKeyLength = 8
INVARIANTS RowsSurvive ValuesSurvive SchemasFit ResultsRead BoundValuesArrive SubstitutionKeepsTokens StatementFitsData
  ObjectTreeMatches WsAnswersRead SetupAsAsked PasswordReachesServer
CHECK_DEADLOCK FALSE
