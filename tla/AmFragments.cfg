SPECIFICATION Spec
CONSTANTS
  NumSdus = 2
  FirstSn <- Halves
  TxWindow = 4
  RxWindow = 4
  MaxRtx = 1
  Load = 4
  AirBound = 3
  MrwBound = 2
INVARIANT PassedUpOnce
CHECK_DEADLOCK FALSE
