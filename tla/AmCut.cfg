SPECIFICATION Spec
CONSTANTS
  NumSdus = 2
  FirstSn <- Halves
  TxWindow = 3
  RxWindow = 6
  MaxRtx = 1
  Load = 4
  AirBound = 3
  MrwBound = 2
INVARIANT PassedUpComplete
CHECK_DEADLOCK FALSE
