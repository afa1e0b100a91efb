CONSTANTS
    NIL = NIL
    Key = {k1, k2, k3}
    Value = {v1, v2}
    Elem = {e1, e2, e3}
    Proc = {p1, p2}
    MaxSize = 2
    Expiration = 2
    MaxNow = 2
    DeleteOnGet = TRUE
    RenewOnGet = TRUE
    Background = TRUE
    MayStop = TRUE
SPECIFICATION SerialSpec
SYMMETRY Interchangeable
INVARIANT EvictedOnce
PROPERTY ImplementsSerialCache
