SPECIFICATION FairSpec
CONSTANTS
  DualStack = TRUE
  MaxChunks = 1
  Confs <- MCConfs
  EnableStatistic = TRUE
  AbortIndex = 2
  Chains <- MCChains
INVARIANTS AdmittedOnly OutboundClosed EofIsComplete TrackerGone NoStrayRequest
PROPERTIES LoserClosed EndsTogether ClientGone
CHECK_DEADLOCK FALSE
