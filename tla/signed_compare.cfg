SPECIFICATION Spec
CONSTANTS
  Leftover <- MCLeftover
  Images = {}
  Words <- MCWords
  Statuses <- MCStatuses
  Constant = 63
INVARIANT
  SignedCompare
CHECK_DEADLOCK FALSE
