------------------------------ MODULE FakeIPConc ------------------------------
(***************************************************************************)
(* resolver/fakeip.go under concurrency: goroutines answering DNS queries   *)
(* share the host cache and the address pool.  The host cache is LruCache,  *)
(* step by step; the pool (resolver/pool.go) has no lock, so Allocate reads *)
(* the flags in one step and sets one in another.  ipCache is left out: it  *)
(* takes no part in the fate of an address.                                 *)
(***************************************************************************)
EXTENDS IPPool, Sequences, Functions

CONSTANTS NIL, Elem, Proc, MaxSize, TTL, MaxNow

VARIABLES
    used,               \* pool.flags
    query, host, ip,    \* where each query is, its domain, its address
    lru, cache, ent, now, pc, reg, jpc, todo, jele, jnow, workers, done, evicted

C == INSTANCE LruCache WITH
        Key <- Host, Value <- Pool, Expiration <- TTL,
        DeleteOnGet <- TRUE, RenewOnGet <- FALSE, Background <- TRUE, MayStop <- FALSE

caller == <<query, host, ip>>
cvars == <<lru, cache, ent, now, pc, reg, jpc, todo, jele, jnow, workers, done, evicted>>
vars == <<used, caller, cvars>>

Init ==
    /\ used = Reserved
    /\ query = [p \in Proc |-> "idle"]
    /\ host = [p \in Proc |-> NIL]
    /\ ip = [p \in Proc |-> NIL]
    /\ C!Init

At(p, label) == query' = [query EXCEPT ![p] = label]
Done(p) == At(p, "idle") /\ host' = [host EXCEPT ![p] = NIL] /\ ip' = [ip EXCEPT ![p] = NIL]

\* onReleaseFakeIP, the evict callback of the host cache, for element e.
onRelease(e) == used' = Release(used, ent[e].val)

\* query: find(domain) begins, and ends at once when the host is not cached.
Query(p, h) ==
    /\ query[p] = "idle"
    /\ host' = [host EXCEPT ![p] = h]
    /\ IF cache[h] = NIL
       THEN At(p, "allocate") /\ UNCHANGED cvars
       ELSE At(p, "find") /\ C!GetLookup(p, h)
    /\ UNCHANGED <<used, ip>>

\* find: cache.Get goes on; a hit is answered, an expired record is deleted and
\* its address released.
FindRead(p) == query[p] = "find" /\ C!GetRead(p) /\ UNCHANGED <<used, caller>>
FindHit(p) == query[p] = "find" /\ C!GetHit(p) /\ Done(p) /\ UNCHANGED used
FindExpired(p) ==
    /\ query[p] = "find" /\ C!GetDelete(p) /\ onRelease(reg[p].ele)
    /\ At(p, "allocate") /\ UNCHANGED <<host, ip>>

\* pool.Allocate: the scan of the flags, then the write of one of them.
AllocateScan(p) ==
    /\ query[p] = "allocate"
    /\ LET a == Allocate(used, host[p])
       IN IF a \in used THEN Done(p)
          ELSE At(p, "mark") /\ ip' = [ip EXCEPT ![p] = a] /\ UNCHANGED host
    /\ UNCHANGED <<used, cvars>>

AllocateMark(p) ==
    /\ query[p] = "mark"
    /\ used' = used \cup {ip[p]}
    /\ At(p, "set")
    /\ UNCHANGED <<host, ip, cvars>>

\* cache.Set(host, record): an insertion may evict, and so release, the oldest.
SetLookup(p) ==
    /\ query[p] = "set" /\ C!SetLookup(p, host[p], ip[p]) /\ At(p, "store")
    /\ UNCHANGED <<used, host, ip>>
SetUpdate(p) == query[p] = "store" /\ C!SetUpdate(p) /\ Done(p) /\ UNCHANGED used
SetInsert(p, e) ==
    /\ query[p] = "store" /\ C!SetInsert(p, e) /\ Done(p)
    /\ IF Len(lru) = MaxSize THEN onRelease(Head(lru)) ELSE UNCHANGED used

\* cleanup in the background; the element it deletes is released.
CleanupDelete == C!CleanupDelete /\ onRelease(jele) /\ UNCHANGED caller
CleanupOther ==
    /\ \/ C!CleanupCollect \/ C!CleanupNow \/ C!CleanupEnd
       \/ \E e \in Elem : C!CleanupRead(e)
    /\ UNCHANGED <<used, caller>>
Tick == C!Tick /\ UNCHANGED <<used, caller>>

Next ==
    \/ \E p \in Proc :
          \/ \E h \in Host : Query(p, h)
          \/ FindRead(p) \/ FindHit(p) \/ FindExpired(p)
          \/ AllocateScan(p) \/ AllocateMark(p)
          \/ SetLookup(p) \/ SetUpdate(p) \/ \E e \in Elem : SetInsert(p, e)
    \/ CleanupDelete \/ CleanupOther \/ Tick

Spec == Init /\ [][Next]_vars
-----------------------------------------------------------------------------
\* pool_test.go:47 asserts of an address Allocate returned, and nobody released,
\* that IsAvailable is false: the address of a cached record is in use.
HeldNotAvailable == \A h \in Host : cache[h] # NIL => ent[cache[h]].val \in used
=============================================================================
