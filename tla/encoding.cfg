SPECIFICATION Spec
CONSTANTS
  Constants <- MCConstants
  Words <- MCWords
  Displacements <- MCDisplacements
INVARIANTS
  DecodesAsWritten
  SkipsWholeLines
  BranchesReachLabels
CHECK_DEADLOCK FALSE
