SPECIFICATION FairSpec
CONSTANTS
  Enbs = {e1, e2}
  NoEnb = NoEnb
  Datagrams = {d1}
  Rssi = {10, 11, 20}
  HysteresisFactor = 10
  MaxHandovers = 3
INVARIANTS
  HoTypeOK
  StarterHasTarget
  NotForMuchWeaker
  InOnePlace
  NoTunnelLeft
  PathFollowsHandover
  HoIInv
PROPERTIES
  TunnelCloses
  HeldReleased
CHECK_DEADLOCK FALSE
