SPECIFICATION Spec
CONSTANTS
  Leftover <- MCLeftover
  Images = {}
  Words <- MCWords
  Statuses <- MCStatuses
  Constant = 63
INVARIANT
  WalkReturns
CHECK_DEADLOCK FALSE
