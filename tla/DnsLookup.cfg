SPECIFICATION Spec
CONSTANTS
  NIL = NIL
  Caller = {c1, c2}
  Qtype = {"A", "AAAA"}
  NS = 2
  MaxLoad = 2
INVARIANTS FailureIsGenuine NobodyForgotten
SYMMETRY Symmetry
