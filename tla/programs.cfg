SPECIFICATION TraceSpec
CONSTANTS
  Leftover <- MCLeftover
  Images <- MCImages
  Programs <- MCPrograms
  MaxX = 2
  MaxY = 1
  KeyCodes = {}
  MaxTyped = 0
  RandomBytes = {9}
  Garbage = {0}
INVARIANTS
  TypeOK
  OnBoundary
  Outcomes
  WholeAreDisciplined
PROPERTIES
  ReturnsToCaller
  DevicesKeepOut
  Ends
CHECK_DEADLOCK FALSE
