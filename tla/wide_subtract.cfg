SPECIFICATION Spec
CONSTANTS
  Leftover <- MCLeftover
  Images = {}
  Words <- MCWords
  Statuses <- MCStatuses
  Constant = 63
INVARIANT
  WideSubtract
CHECK_DEADLOCK FALSE
