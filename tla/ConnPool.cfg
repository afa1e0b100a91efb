SPECIFICATION FairSpec
CONSTANTS
  NIL = NIL
  Caller = {p1, p2}
  Conn = {x1, x2, x3}
  Size = 2
INVARIANTS SlotUsable ClosedOnlyIfFailed
PROPERTY DialReturns
CHECK_DEADLOCK FALSE
