SPECIFICATION FairSpec
CONSTANTS
  NumSdus = 3
  SduSize = 3
  Spaces = {1, 5}
  RxWindowSize = 4
  Nothing = Nothing
INVARIANTS
  UmTypeOK
  NothingThrown
  WindowSound
  LossesAreExact
PROPERTIES
  ImplementsService
  HeldBackNotForever
CHECK_DEADLOCK FALSE
