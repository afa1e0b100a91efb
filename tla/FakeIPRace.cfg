CONSTANTS
    NIL = NIL
    Host = {ha, hb}
    Elem = {e1, e2, e3}
    Proc = {p1, p2}
    Size = 8
    TunAddr = 1
    Hash <- MCHash
    MaxSize = 1
    TTL = 1
    MaxNow = 1
SPECIFICATION Spec
SYMMETRY Symmetry
INVARIANT HeldNotAvailable
