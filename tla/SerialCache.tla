----------------------------- MODULE SerialCache -----------------------------
(***************************************************************************)
(* The LRU cache as its callers see it: one atomic step per call.  A Get    *)
(* judges expiry by the clock at some moment t of the call.                 *)
(***************************************************************************)
EXTENDS CacheOps

CONSTANTS Key, Value, MaxSize, Expiration, MaxNow, DeleteOnGet, RenewOnGet

VARIABLES c, now

Init == c = EmptyCache(Key) /\ now = 0

GetHit(k) ==
    /\ Has(c, k)
    /\ \E t \in 0..now :
          /\ ~Expired(c, k, t)
          /\ c' = IF RenewOnGet THEN Update(c, k, c.ent[k].val, t + Expiration)
                                ELSE Touch(c, k)
    /\ UNCHANGED now

GetExpired(k) ==
    /\ DeleteOnGet /\ Has(c, k) /\ Expired(c, k, now)
    /\ c' = Drop(c, k)
    /\ UNCHANGED now

Set(k, v) == c' = Put(c, k, v, now + Expiration, MaxSize) /\ UNCHANGED now

Delete(k) == Has(c, k) /\ c' = Drop(c, k) /\ UNCHANGED now

Tick == now < MaxNow /\ now' = now + 1 /\ UNCHANGED c

Next ==
    \/ \E k \in Key : GetHit(k) \/ GetExpired(k) \/ Delete(k)
    \/ \E k \in Key, v \in Value : Set(k, v)
    \/ Tick

Spec == Init /\ [][Next]_<<c, now>>
=============================================================================
