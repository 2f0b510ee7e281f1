SPECIFICATION FairSpec
CONSTANTS
  NumProc = 4
  Codewords = {0}
  MaxHarqRtx = 1
  Pdus = {p1, p2}
  NoPdu = NoPdu
  FbInterval = 1
  RxPurges = FALSE
  SwitchScopes <- NoSwitch
  Handovers = FALSE
  IdleFirstGrant = FALSE
INVARIANTS
  GrantSynchronized
PROPERTIES
  WaitingIsAnswered
  NackedIsSentAgain
