SPECIFICATION NatFairSpec
CONSTANTS
  NIL = NIL
  Source = {a1, a2}
  Peer = {r1, r2}
  Target = {r1, r2}
  Sock = {s1, s2}
INVARIANTS CacheIsHandlers OnlySolicited
PROPERTY AllConnsClosed
CHECK_DEADLOCK FALSE
