SPECIFICATION KeySpec
CONSTANTS
  Leftover <- MCLeftover
  Images <- MCImages
  Program <- Echo
  MaxX = 2
  MaxY = 1
  KeyCodes <- MCKeyCodes
  MaxTyped = 3
  RandomBytes = {9}
  Garbage = {0, 65}
INVARIANTS
  ScreenFaithful
  KeyLatch
  StepPaced
PROPERTIES
  KeysDrain
  QuitHonoured
  EchoShown
CHECK_DEADLOCK FALSE
