SPECIFICATION Spec
CONSTANTS
  Statements <- MCStatements
  Scenarios <- MCScenarios
  Batches <- MCBatches
  Texts <- MCTexts
  Overhead = 2
  Limit = 6
  IngestOptions <- MCIngestOptions
  MaxBinds = 2
  MaxCalls = 2
INVARIANTS BatchesExact CutOnlyWhereNeeded MessagesFit
PROPERTIES CallsAsSetUp
