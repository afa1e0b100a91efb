-------------------------------- MODULE FakeIP --------------------------------
(***************************************************************************)
(* resolver/fakeip.go: fake addresses for domain names, as seen when calls  *)
(* do not overlap.  `cache` maps a host to its address and gives the        *)
(* address back to the pool when an entry leaves (onReleaseFakeIP);         *)
(* `ipCache` maps an address to the host it was given to.                   *)
(***************************************************************************)
EXTENDS IPPool, CacheOps

CONSTANTS
    MaxSize,    \* cache.WithMaxSize of both caches
    TTL,        \* DefaultFakeIPDnsRecordTTL, the expiration of both caches
    MaxNow      \* bound on the clock

ASSUME FakeIPAssumption ==
    /\ MaxSize \in Nat \ {0} /\ TTL \in Nat /\ MaxNow \in Nat
    /\ NIL \notin Host /\ NIL \notin [val : Pool, exp : Nat] /\ NIL \notin [val : Host, exp : Nat]

VARIABLES
    used,       \* pool.flags
    cache, ipCache,
    now,
    owner       \* history: the host each address was last given to

vars == <<used, cache, ipCache, now, owner>>

Init ==
    /\ used = Reserved
    /\ cache = EmptyCache(Host)
    /\ ipCache = EmptyCache(Pool)
    /\ now = 0
    /\ owner = [a \in Pool |-> NIL]

IPOf(h) == cache.ent[h].val

\* Mutated: the evict callback does not release the address.
EvictKeepsFlag(h) == cache' = Drop(cache, h) /\ used' = used

\* cache.Get(h) of an expired record deletes it, and the address is released.
Evict(h) == cache' = Drop(cache, h) /\ used' = Release(used, IPOf(h))

\* query, when find has the record: the address it already has.
QueryHit(h) ==
    /\ Has(cache, h) /\ ~Expired(cache, h, now)
    /\ cache' = Touch(cache, h)
    /\ UNCHANGED <<used, ipCache, now, owner>>

\* query, when find fails: an expired record is dropped by the way, and
\* makeNewFakeDnsRecord gives the host an address, or fails when none is left.
\* The host cache, when full, drops its oldest record.
QueryMiss(h) ==
    /\ Has(cache, h) => Expired(cache, h, now)
    /\ LET c == IF Has(cache, h) THEN Drop(cache, h) ELSE cache
           u == IF Has(cache, h) THEN Release(used, IPOf(h)) ELSE used
           a == Allocate(u, h)
       IN IF a \in u
          THEN cache' = c /\ used' = u /\ UNCHANGED <<ipCache, owner>>
          ELSE /\ cache' = Put(c, h, a, now + TTL, MaxSize)
               /\ used' = (u \cup {a}) \ {IPOf(v) : v \in Victims(c, MaxSize)}
               /\ ipCache' = Put(ipCache, a, h, now + TTL, MaxSize)
               /\ owner' = [owner EXCEPT ![a] = h]
    /\ UNCHANGED now

\* FindByIP: the host from ipCache, then its record from cache; either Get drops
\* an expired entry, and moves a live one to the back.
FindByIP(a) ==
    /\ Has(ipCache, a)
    /\ IF Expired(ipCache, a, now)
       THEN ipCache' = Drop(ipCache, a) /\ UNCHANGED <<cache, used>>
       ELSE LET h == ipCache.ent[a].val
            IN /\ ipCache' = Touch(ipCache, a)
               /\ IF ~Has(cache, h) THEN UNCHANGED <<cache, used>>
                  ELSE IF Expired(cache, h, now) THEN Evict(h)
                  ELSE cache' = Touch(cache, h) /\ UNCHANGED used
    /\ UNCHANGED <<now, owner>>

\* cleanup of each cache: it deletes expired entries one lock acquisition at a time.
CleanupHost(h) ==
    /\ Has(cache, h) /\ Expired(cache, h, now)
    /\ Evict(h)
    /\ UNCHANGED <<ipCache, now, owner>>

CleanupIP(a) ==
    /\ Has(ipCache, a) /\ Expired(ipCache, a, now)
    /\ ipCache' = Drop(ipCache, a)
    /\ UNCHANGED <<used, cache, now, owner>>

Tick == now < MaxNow /\ now' = now + 1 /\ UNCHANGED <<used, cache, ipCache, owner>>

Next ==
    \/ \E h \in Host : QueryHit(h) \/ QueryMiss(h) \/ CleanupHost(h)
    \/ \E a \in Pool : FindByIP(a) \/ CleanupIP(a)
    \/ Tick

Spec == Init /\ [][Next]_vars
-----------------------------------------------------------------------------
\* A well-formed cache: its order lists exactly the keys it has, once each.
CacheOK(c, K, V) ==
    /\ c \in [ord : Seq(K), ent : [K -> [val : V, exp : Nat] \cup {NIL}]]
    /\ IsInjective(c.ord)
    /\ Range(c.ord) = {k \in K : Has(c, k)}

\* The types of the state, each cache's recency order agreeing with its entries.
TypeOK ==
    /\ used \subseteq Pool
    /\ CacheOK(cache, Host, Pool)
    /\ CacheOK(ipCache, Pool, Host)
    /\ now \in Nat
    /\ owner \in [Pool -> Host \cup {NIL}]

Held == {IPOf(h) : h \in {x \in Host : Has(cache, x)}}

\* The pool's flags are exact: an address is in use just when it is set aside or
\* some record of the host cache holds it.  No address leaks and none is free
\* while a record still hands it out.
PoolExact == used = Reserved \cup Held

\* Two hosts never share a fake address, and none has the TUN device's or the
\* fake DNS server's.
AddressesDistinct ==
    /\ Held \cap Reserved = {}
    /\ \A g, h \in Host : Has(cache, g) /\ Has(cache, h) /\ IPOf(g) = IPOf(h) => g = h

\* The domain of the record FindByIP(a) returns in this state; NIL for an error.
Answer(a) ==
    LET h == ipCache.ent[a].val
    IN IF ~Has(ipCache, a) \/ Expired(ipCache, a, now) THEN NIL
       ELSE IF ~Has(cache, h) \/ Expired(cache, h, now) THEN NIL ELSE h

\* A connection to a fake address is taken for the host that was last given the
\* address, or refused; never for an earlier holder of a reused address.
NeverMisrouted == \A a \in Pool : Answer(a) \in {NIL, owner[a]}
=============================================================================
