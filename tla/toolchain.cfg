SPECIFICATION Spec
CONSTANTS
  Sources <- MCAll
  Edits <- MCEditsOf
  NoExpr <- MCNoExpr
  NoValue <- NoWord
  Value <- MCValue
  Meaning <- MeaningOf
  Key <- MCKey
  DATA_ALLOC = 2
  MaxCommands = 3
INVARIANTS
  DataKept
  OverlapOnlyByOrg
  ImageHoldsListing
  RunsOneProgram
PROPERTIES
  EvaluatesAsMeant
  ImplementsListing
  RefusedLeavesFiles
CHECK_DEADLOCK FALSE
