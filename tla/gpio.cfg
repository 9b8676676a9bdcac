SPECIFICATION Spec
CONSTANT NPins = 2
INVARIANTS
  TypeOK
  OwnPins
  ProgramsCleanUp
  DirectionsFollow
  OutputsFollow
