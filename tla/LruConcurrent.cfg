CONSTANTS
    NIL = NIL
    Key = {k1, k2}
    Value = {v1}
    Elem = {e1, e2}
    Proc = {p1, p2}
    MaxSize = 1
    Expiration = 1
    MaxNow = 1
    DeleteOnGet = TRUE
    RenewOnGet = FALSE
    Background = TRUE
    MayStop = TRUE
SPECIFICATION FairSpec
INVARIANTS MapWithinList SizeBound
PROPERTIES ExpiredCollected StopEndsWorkers
