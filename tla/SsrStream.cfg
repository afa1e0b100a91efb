SPECIFICATION FairSpec
CONSTANTS
  MaxClient = 3
  MaxServer = 1
  MaxObfs = 2
  MaxSsr = 2
  MaxPayload = 2
  MaxFrame = 1
  MaxPad = 1
INVARIANTS InOrder CleanEndIsWhole
PROPERTIES AllArrives
CHECK_DEADLOCK FALSE
