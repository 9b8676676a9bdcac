SPECIFICATION Spec
CONSTANTS
  Sources <- MCEdits
  Edits <- MCEditsOf
  NoExpr <- MCNoExpr
  NoValue <- NoWord
  Value <- MCValue
  Meaning <- MeaningOf
  Key <- MCKey
  DATA_ALLOC = 2
  MaxCommands = 2
INVARIANTS
  RefusedIsNotRun
CHECK_DEADLOCK FALSE
