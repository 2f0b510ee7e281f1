SPECIFICATION FairSpec
CONSTANTS
  NumUes = 3
  Enbs = {e1, e2}
  FirstEnb = e1
  Movers = {2}
  MaxPhyFrames = 2
  MaxTriggers = 2
  NetworkTypes = {"CAIN", "Social", "4G"}
  RaRespWin = 3
  NumSenders = 2
  MaxRequests = 2
INVARIANTS
  CainTypeOK
  RelayCountExact
  OneRequestUnderWay
PROPERTIES
  ImplementsService
