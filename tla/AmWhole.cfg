SPECIFICATION Spec
CONSTANTS
  NumSdus = 3
  FirstSn <- Whole
  TxWindow = 4
  RxWindow = 4
  MaxRtx = 1
  Load = 2
  AirBound = 3
  MrwBound = 2
INVARIANTS
  AmTypeOK
  OnlyWithoutContact
  WindowsNested
  ReceivedWasSeen
  PassedUpOnce
  NothingSkipped
  LeftBehindOnlyWhenDone
  AmIInv
PROPERTIES
  ImplementsService
CHECK_DEADLOCK FALSE
