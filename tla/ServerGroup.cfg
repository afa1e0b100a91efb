SPECIFICATION GroupFairSpec
CONSTANTS
  N = 2
  Tun = TRUE
  Udp = {1}
  MayFail = TRUE
INVARIANTS NothingLeftRunning ClientUndone
PROPERTIES FailureStopsAll CloseStopsAll
CHECK_DEADLOCK FALSE
