SPECIFICATION Spec
CONSTANTS
  NumProc = 4
  Codewords = {0, 1}
  MaxHarqRtx = 1
  Pdus = {p1, p2}
  NoPdu = NoPdu
  FbInterval = 1
  RxPurges = FALSE
  SwitchScopes <- BothEnds
  Handovers = TRUE
  IdleFirstGrant = TRUE
SYMMETRY PduSymmetry
INVARIANTS
  TypeOK
  NoError
  FeedbackIsAwaited
  CountersMatch
  WaitingHasAnswer
  EndsCountAlike
  NoRedelivery
  IInv
PROPERTIES
  ImplementsService
