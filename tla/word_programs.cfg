SPECIFICATION Spec
CONSTANTS
  Leftover <- MCLeftover
  Images = {}
  Words <- MCWords
  Statuses <- MCStatuses
  Constant = 63
INVARIANTS
  WideAdd
  WideCompare
  WordImmediate
  WideSubtractFromClear
CHECK_DEADLOCK FALSE
