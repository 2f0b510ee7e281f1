SPECIFICATION Spec
CONSTANTS
  NumProc = 4
  Codewords = {0, 1}
  MaxHarqRtx = 1
  Pdus = {p1, p2}
  NoPdu = NoPdu
  FbInterval = 1
  RxPurges = FALSE
  SwitchScopes <- NoSwitch
  Handovers = TRUE
  IdleFirstGrant = FALSE
SYMMETRY PduSymmetry
INVARIANTS
  GrantSynchronized
