SPECIFICATION Spec
CONSTANTS
  NumSdus = 6
  FirstSn <- Whole
  TxWindow = 4
  RxWindow = 4
  MaxRtx = 1
  Load = 4
  AirBound = 3
  MrwBound = 2
INVARIANT ReceivedWasSeen
CHECK_DEADLOCK FALSE
