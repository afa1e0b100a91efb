----------------------------- MODULE FakeIPProofs -----------------------------
(***************************************************************************)
(* The fake address pool stays exact, for any prefix, hosts, hash, cache    *)
(* size and clock.  The enhancer uses the fake addresses as FakeIP allows,  *)
(* so all that is proved of FakeIP holds of it, and a connection reaches    *)
(* the host whose address the application was told.                         *)
(***************************************************************************)
EXTENDS Enhancer, ListsProofs

\* Zenon proves the leaves, unless they name another backend.
USE ZenonT(30)

-----------------------------------------------------------------------------
(* Operations on a well-formed cache.                                      *)

\* Dropping a key removes that key only.
LEMMA DropKeeps ==
    ASSUME NEW K, NEW V, NEW c, CacheOK(c, K, V), NEW k \in K
    PROVE  /\ CacheOK(Drop(c, k), K, V)
           /\ \A j \in K : Drop(c, k).ent[j] = IF j = k THEN NIL ELSE c.ent[j]
<1> DEFINE d == Drop(c, k)
<1>1. /\ c.ord \in Seq(K) /\ IsInjective(c.ord)
      /\ c.ent \in [K -> [val : V, exp : Nat] \cup {NIL}]
      /\ Range(c.ord) = {j \in K : c.ent[j] # NIL}
  BY DEF CacheOK, Has
<1>2. /\ Without(c.ord, k) \in Seq(K) /\ IsInjective(Without(c.ord, k))
      /\ Range(Without(c.ord, k)) = Range(c.ord) \ {k}
  BY <1>1, WithoutAny
<1>3. d.ord = Without(c.ord, k) /\ d.ent = [c.ent EXCEPT ![k] = NIL]
  BY DEF Drop
<1>4. d \in [ord : Seq(K), ent : [K -> [val : V, exp : Nat] \cup {NIL}]]
  BY <1>1, <1>2 DEF Drop
<1>5. \A j \in K : d.ent[j] = IF j = k THEN NIL ELSE c.ent[j]
  BY <1>1, <1>3
<1>6. Range(d.ord) = {j \in K : d.ent[j] # NIL}
  BY <1>1, <1>2, <1>3, <1>5
<1> QED
  BY <1>2, <1>3, <1>4, <1>5, <1>6 DEF CacheOK, Has

\* A hit changes the order, never the entries.
LEMMA TouchKeepsCache ==
    ASSUME NEW K, NEW V, NEW c, CacheOK(c, K, V), NEW k \in K
    PROVE  CacheOK(Touch(c, k), K, V) /\ Touch(c, k).ent = c.ent
<1> DEFINE d == Touch(c, k)
<1>1. /\ c.ord \in Seq(K) /\ IsInjective(c.ord)
      /\ c.ent \in [K -> [val : V, exp : Nat] \cup {NIL}]
      /\ Range(c.ord) = {j \in K : c.ent[j] # NIL}
      /\ c = [ord |-> c.ord, ent |-> c.ent]
  BY DEF CacheOK, Has
<1>2. /\ MoveToBack(c.ord, k) \in Seq(K) /\ IsInjective(MoveToBack(c.ord, k))
      /\ Range(MoveToBack(c.ord, k)) = Range(c.ord)
  BY <1>1, MoveToBackKeeps
<1>3. d = [ord |-> MoveToBack(c.ord, k), ent |-> c.ent]
  BY <1>1 DEF Touch
<1> QED
  BY <1>1, <1>2, <1>3, SMT DEF CacheOK, Has

\* Overwriting a present key's entry, and making it the most recent.
LEMMA UpdateKeeps ==
    ASSUME NEW K, NEW V, NEW c, CacheOK(c, K, V), NEW k \in K, Has(c, k),
           NEW v \in V, NEW t \in Nat, NIL \notin [val : V, exp : Nat]
    PROVE  /\ CacheOK(Update(c, k, v, t), K, V)
           /\ \A j \in K : Update(c, k, v, t).ent[j] =
                 IF j = k THEN [val |-> v, exp |-> t] ELSE c.ent[j]
<1> DEFINE s == Store(c, k, v, t)
<1>1. /\ c.ord \in Seq(K) /\ IsInjective(c.ord)
      /\ c.ent \in [K -> [val : V, exp : Nat] \cup {NIL}]
      /\ Range(c.ord) = {j \in K : c.ent[j] # NIL}
      /\ c = [ord |-> c.ord, ent |-> c.ent]
  BY DEF CacheOK, Has
<1>2. s = [ord |-> c.ord, ent |-> [c.ent EXCEPT ![k] = [val |-> v, exp |-> t]]]
  BY <1>1 DEF Store
<1>3. \A j \in K : s.ent[j] = IF j = k THEN [val |-> v, exp |-> t] ELSE c.ent[j]
  BY <1>1, <1>2, SMT
<1>4. [val |-> v, exp |-> t] \in [val : V, exp : Nat] /\ [val |-> v, exp |-> t] # NIL
  BY SMT
<1>5. {j \in K : s.ent[j] # NIL} = {j \in K : c.ent[j] # NIL}
  BY <1>3, <1>4 DEF Has
<1>6. s \in [ord : Seq(K), ent : [K -> [val : V, exp : Nat] \cup {NIL}]]
  BY <1>1, <1>2, <1>4, SMT
<1>7. CacheOK(s, K, V)
  BY <1>1, <1>2, <1>5, <1>6, SMT DEF CacheOK, Has
<1> HIDE DEF s
<1>8. CacheOK(Touch(s, k), K, V) /\ Touch(s, k).ent = s.ent
  BY <1>7, TouchKeepsCache
<1> QED
  BY <1>3, <1>8 DEF Update, s

\* Adding an absent key, after the least recent key made room if need be.
LEMMA InsertKeepsCache ==
    ASSUME NEW K, NEW V, NEW c, CacheOK(c, K, V), NEW k \in K, ~Has(c, k),
           NEW v \in V, NEW t \in Nat, NEW max \in Nat \ {0},
           NIL \notin [val : V, exp : Nat]
    PROVE  /\ CacheOK(Insert(c, k, v, t, max), K, V)
           /\ Victims(c, max) \subseteq {j \in K : Has(c, j)}
           /\ \A j \in K : Insert(c, k, v, t, max).ent[j] =
                 IF j = k THEN [val |-> v, exp |-> t]
                 ELSE IF j \in Victims(c, max) THEN NIL ELSE c.ent[j]
<1> DEFINE r == IF Len(c.ord) = max THEN Drop(c, Head(c.ord)) ELSE c
           n == [val |-> v, exp |-> t]
           d == Insert(c, k, v, t, max)
<1>1. c.ord \in Seq(K) /\ Range(c.ord) = {j \in K : Has(c, j)}
  BY DEF CacheOK
<1>2. Len(c.ord) = max => Head(c.ord) \in {j \in K : Has(c, j)}
  BY <1>1, HeadIsMember, SMT
<1>3. /\ CacheOK(r, K, V)
      /\ \A j \in K : r.ent[j] = IF j \in Victims(c, max) THEN NIL ELSE c.ent[j]
  <2>1. CASE Len(c.ord) = max
    <3> DEFINE h == Head(c.ord)
    <3>1. r = Drop(c, h) /\ Victims(c, max) = {h} /\ h \in K
      BY <1>2, <2>1 DEF Victims
    <3> HIDE DEF r, h
    <3>2. /\ CacheOK(Drop(c, h), K, V)
          /\ \A j \in K : Drop(c, h).ent[j] = IF j = h THEN NIL ELSE c.ent[j]
      BY <3>1, DropKeeps, SMT
    <3> QED
      BY <3>1, <3>2
  <2>2. CASE Len(c.ord) # max
    <3>1. r = c /\ Victims(c, max) = {}
      BY <2>2 DEF Victims
    <3> QED
      BY <3>1
  <2> QED
    BY <2>1, <2>2
<1>4. r.ent[k] = NIL
  BY <1>3 DEF Has
<1> HIDE DEF r
<1>5. /\ r.ord \in Seq(K) /\ IsInjective(r.ord)
      /\ r.ent \in [K -> [val : V, exp : Nat] \cup {NIL}]
      /\ Range(r.ord) = {j \in K : r.ent[j] # NIL}
      /\ r = [ord |-> r.ord, ent |-> r.ent]
  BY <1>3 DEF CacheOK, Has
<1>6. /\ Append(r.ord, k) \in Seq(K) /\ IsInjective(Append(r.ord, k))
      /\ Range(Append(r.ord, k)) = Range(r.ord) \cup {k}
  BY <1>4, <1>5, AppendNew
<1>7. d = [ord |-> Append(r.ord, k), ent |-> [r.ent EXCEPT ![k] = n]]
  <2>1. Store(r, k, v, t) = [ord |-> r.ord, ent |-> [r.ent EXCEPT ![k] = n]]
    BY <1>5 DEF Store
  <2>2. d = [ord |-> Append(r.ord, k), ent |-> Store(r, k, v, t).ent]
    BY DEF Insert, r
  <2> QED
    BY <2>1, <2>2, SMT
<1>8. n \in [val : V, exp : Nat] /\ n # NIL
  BY SMT
<1> HIDE DEF n, d
<1>9. \A j \in K : d.ent[j] = IF j = k THEN n ELSE r.ent[j]
  BY <1>5, <1>7
<1>10. {j \in K : d.ent[j] # NIL} = {j \in K : r.ent[j] # NIL} \cup {k}
  BY <1>8, <1>9
<1>11. d \in [ord : Seq(K), ent : [K -> [val : V, exp : Nat] \cup {NIL}]]
  BY <1>5, <1>6, <1>7, <1>8
<1>12. CacheOK(d, K, V)
  BY <1>5, <1>6, <1>7, <1>10, <1>11 DEF CacheOK, Has
<1>13. Victims(c, max) \subseteq {j \in K : Has(c, j)}
  BY <1>2 DEF Victims
<1> QED
  BY <1>3, <1>9, <1>12, <1>13 DEF d, n

\* Set, on either path.
LEMMA PutKeeps ==
    ASSUME NEW K, NEW V, NEW c, CacheOK(c, K, V), NEW k \in K,
           NEW v \in V, NEW t \in Nat, NEW max \in Nat \ {0},
           NIL \notin [val : V, exp : Nat]
    PROVE  /\ CacheOK(Put(c, k, v, t, max), K, V)
           /\ Put(c, k, v, t, max).ent[k] = [val |-> v, exp |-> t]
           /\ \A j \in K \ {k} : Put(c, k, v, t, max).ent[j] \in {NIL, c.ent[j]}
<1>1. CASE Has(c, k)
  BY <1>1, UpdateKeeps, SMT DEF Put
<1>2. CASE ~Has(c, k)
  BY <1>2, InsertKeepsCache, SMT DEF Put
<1> QED
  BY <1>1, <1>2
-----------------------------------------------------------------------------
(* The pool.                                                               *)

\* A non-empty set of naturals has a least member, and Min is it.
LEMMA LeastExists ==
    ASSUME NEW S \in SUBSET Nat, S # {}
    PROVE  Min(S) \in S
BY LeastNumber DEF Min

LEMMA PoolFacts == Pool \subseteq Nat /\ Pool # {} /\ -1 \notin Pool
<1>1. hmin \in Pool /\ hmin \in Nat
  BY PoolAssumption, SMT DEF Pool, hmin, hmax
<1> QED
  BY <1>1, SMT DEF Pool

\* The scan for a free address ends at one when there is one.
LEMMA FirstFreeIsFree ==
    ASSUME NEW u, Pool \ u # {}
    PROVE  FirstFree(u) \in Pool \ u
BY PoolFacts, LeastExists DEF FirstFree

\* Allocate answers with an address of the pool; when it is not in use the
\* allocation succeeded.
LEMMA AllocateInPool ==
    ASSUME NEW u, NEW h \in Host
    PROVE  Allocate(u, h) \in Pool
BY PoolAssumption, FirstFreeIsFree DEF Allocate

LEMMA ReservedInPool == Reserved \subseteq Pool
<1>1. TunIP \in Pool
  BY PoolFacts, FirstFreeIsFree DEF TunIP, allocateFor
<1>2. DnsIP \in Pool \cup {-1}
  BY FirstFreeIsFree DEF DnsIP, allocateFor
<1> QED
  BY <1>1, <1>2 DEF Reserved
-----------------------------------------------------------------------------
(* The inductive invariant.                                                *)

\* What ipCache says of an address is whom the address was last given to.
IPCacheCurrent == \A a \in Pool : Has(ipCache, a) => ipCache.ent[a].val = owner[a]

IInv == TypeOK /\ PoolExact /\ AddressesDistinct /\ IPCacheCurrent

LEMMA InitIInv == Init => IInv
<1> SUFFICES ASSUME Init PROVE IInv
  OBVIOUS
<1> USE FakeIPAssumption DEF Init
<1>1. /\ cache.ord = <<>> /\ cache.ent = [h \in Host |-> NIL]
      /\ ipCache.ord = <<>> /\ ipCache.ent = [a \in Pool |-> NIL]
  BY DEF EmptyCache
<1>2. \A K : <<>> \in Seq(K) /\ IsInjective(<<>>) /\ Range(<<>>) = {}
  BY SMT DEF IsInjective, Range
<1>3. CacheOK(cache, Host, Pool)
  BY <1>1, <1>2 DEF EmptyCache, CacheOK, Has
<1>4. CacheOK(ipCache, Pool, Host)
  BY <1>1, <1>2 DEF EmptyCache, CacheOK, Has
<1>5. TypeOK
  BY <1>3, <1>4, ReservedInPool DEF TypeOK
<1>6. Held = {}
  BY <1>1 DEF Held, Has
<1> QED
  BY <1>1, <1>5, <1>6 DEF IInv, PoolExact, AddressesDistinct, IPCacheCurrent, Has

\* The same facts of any host cache c and set u of addresses in use, so that they
\* can be followed through the middle of a handler.
Addrs(c) == {c.ent[g].val : g \in {x \in Host : Has(c, x)}}
Sound(c, u) ==
    /\ CacheOK(c, Host, Pool)
    /\ u \subseteq Pool
    /\ u = Reserved \cup Addrs(c)
    /\ Addrs(c) \cap Reserved = {}
    /\ \A f, g \in Host : Has(c, f) /\ Has(c, g) /\ c.ent[f].val = c.ent[g].val => f = g

LEMMA SoundIsInv ==
    IInv <=> /\ Sound(cache, used)
             /\ CacheOK(ipCache, Pool, Host)
             /\ now \in Nat
             /\ owner \in [Pool -> Host \cup {NIL}]
             /\ IPCacheCurrent
BY DEF IInv, Sound, Addrs, TypeOK, PoolExact, AddressesDistinct, Held, IPOf

LEMMA SoundIsInvNext ==
    IInv' <=> /\ Sound(cache', used')
              /\ CacheOK(ipCache', Pool, Host)
              /\ now' \in Nat
              /\ owner' \in [Pool -> Host \cup {NIL}]
              /\ IPCacheCurrent'
BY DEF IInv, Sound, Addrs, TypeOK, PoolExact, AddressesDistinct, Held, IPOf

\* Taking one record out of the host cache and giving its address back.
LEMMA EvictKeeps ==
    ASSUME NEW c, NEW u, Sound(c, u), NEW h \in Host, Has(c, h)
    PROVE  /\ Sound(Drop(c, h), Release(u, c.ent[h].val))
           /\ ~Has(Drop(c, h), h)
           /\ \A g \in Host : Has(Drop(c, h), g) => Drop(c, h).ent[g] = c.ent[g]
<1> DEFINE d == Drop(c, h)
           w == Release(u, c.ent[h].val)
<1>1. /\ CacheOK(d, Host, Pool)
      /\ \A g \in Host : d.ent[g] = IF g = h THEN NIL ELSE c.ent[g]
  BY DropKeeps, SMT DEF Sound
<1> HIDE DEF d
<1>2. \A g \in Host : Has(d, g) <=> Has(c, g) /\ g # h
  BY <1>1 DEF Has
<1>3. c.ent[h].val \in Addrs(c)
  BY DEF Addrs
<1>4. Addrs(d) = Addrs(c) \ {c.ent[h].val}
  BY <1>1, <1>2, SMT DEF Addrs, Sound
<1>5. w = Reserved \cup Addrs(d)
  BY <1>3, <1>4 DEF Release, Sound
<1>6. Sound(d, w)
  BY <1>1, <1>2, <1>4, <1>5 DEF Sound, Release
<1> QED
  BY <1>1, <1>2, <1>6 DEF d

\* A hit leaves every record where it is.
LEMMA TouchSound ==
    ASSUME NEW c, NEW u, Sound(c, u), NEW h \in Host
    PROVE  Sound(Touch(c, h), u)
<1>1. CacheOK(Touch(c, h), Host, Pool) /\ Touch(c, h).ent = c.ent
  BY TouchKeepsCache DEF Sound
<1> QED
  BY <1>1, SMT DEF Sound, Addrs, Has

\* Giving a free address to a host that has none, in a cache that may have to drop
\* its oldest record for it.
LEMMA GiveKeeps ==
    ASSUME NEW c, NEW u, Sound(c, u), NEW h \in Host, ~Has(c, h),
           NEW a \in Pool, a \notin u, NEW t \in Nat
    PROVE  Sound(Put(c, h, a, t, MaxSize),
                 (u \cup {a}) \ {c.ent[v].val : v \in Victims(c, MaxSize)})
<1> DEFINE d == Put(c, h, a, t, MaxSize)
           V == Victims(c, MaxSize)
           gone == {c.ent[v].val : v \in V}
           w == (u \cup {a}) \ gone
<1>1. /\ CacheOK(d, Host, Pool)
      /\ V \subseteq {g \in Host : Has(c, g)}
      /\ \A g \in Host : d.ent[g] = IF g = h THEN [val |-> a, exp |-> t]
                                    ELSE IF g \in V THEN NIL ELSE c.ent[g]
  BY FakeIPAssumption, InsertKeepsCache, SMT DEF Sound, Put
<1> HIDE DEF d, V
<1>2. [val |-> a, exp |-> t] # NIL
  BY FakeIPAssumption, SMT
<1>3. \A g \in Host : Has(d, g) <=> g = h \/ (Has(c, g) /\ g \notin V)
  BY <1>1, <1>2 DEF Has
<1>4. gone \subseteq Addrs(c) /\ a \notin Addrs(c) /\ a \notin Reserved
  BY <1>1 DEF Addrs, Sound
<1>5. Addrs(d) = (Addrs(c) \ gone) \cup {a}
  <2>1. Addrs(d) \subseteq (Addrs(c) \ gone) \cup {a}
    <3> SUFFICES ASSUME NEW g \in Host, Has(d, g)
                 PROVE  d.ent[g].val \in (Addrs(c) \ gone) \cup {a}
      BY DEF Addrs
    <3>1. CASE g = h
      BY <1>1, <3>1, SMT
    <3>2. CASE g # h
      <4>1. d.ent[g] = c.ent[g] /\ Has(c, g) /\ g \notin V
        BY <1>1, <1>3, <3>2
      <4>2. c.ent[g].val \notin gone
        BY <1>1, <4>1 DEF Sound
      <4> QED
        BY <4>1, <4>2 DEF Addrs
    <3> QED
      BY <3>1, <3>2
  <2>2. a \in Addrs(d)
    BY <1>1, <1>3, SMT DEF Addrs
  <2>3. Addrs(c) \ gone \subseteq Addrs(d)
    <3> SUFFICES ASSUME NEW g \in Host, Has(c, g), c.ent[g].val \notin gone
                 PROVE  c.ent[g].val \in Addrs(d)
      BY DEF Addrs
    <3>1. g \notin V /\ g # h
      OBVIOUS
    <3>2. Has(d, g) /\ d.ent[g] = c.ent[g]
      BY <1>1, <1>3, <3>1
    <3> QED
      BY <3>2 DEF Addrs
  <2> QED
    BY <2>1, <2>2, <2>3
<1>6. w = Reserved \cup Addrs(d)
  BY <1>4, <1>5 DEF Sound
<1>7. Addrs(d) \cap Reserved = {}
  BY <1>4, <1>5 DEF Sound
<1>8. ASSUME NEW f \in Host, NEW g \in Host, Has(d, f), Has(d, g), d.ent[f].val = d.ent[g].val
      PROVE  f = g
  <2>1. \A x \in Host : Has(c, x) => c.ent[x].val # a
    BY <1>4 DEF Addrs
  <2> QED
    BY <1>1, <1>3, <1>8, <2>1, SMT DEF Sound
<1>9. w \subseteq Pool
  BY DEF Sound
<1> QED
  BY <1>1, <1>6, <1>7, <1>8, <1>9 DEF Sound, d, V

LEMMA QueryMissKeeps ==
    ASSUME IInv, NEW h \in Host, QueryMiss(h)
    PROVE  IInv'
<1> DEFINE c == IF Has(cache, h) THEN Drop(cache, h) ELSE cache
           u == IF Has(cache, h) THEN Release(used, IPOf(h)) ELSE used
           a == Allocate(u, h)
<1>0. Sound(cache, used) /\ CacheOK(ipCache, Pool, Host) /\ now \in Nat
      /\ owner \in [Pool -> Host \cup {NIL}] /\ IPCacheCurrent
  BY SoundIsInv
<1>1. /\ Sound(c, u) /\ ~Has(c, h)
      /\ \A g \in Host : Has(c, g) => c.ent[g] = cache.ent[g]
  BY <1>0, EvictKeeps DEF IPOf
<1>2. a \in Pool
  BY AllocateInPool
<1>3. CASE a \in u
  <2>1. cache' = c /\ used' = u /\ UNCHANGED <<ipCache, owner, now>>
    BY <1>3 DEF QueryMiss
  <2> QED
    BY <1>0, <1>1, <2>1, SoundIsInvNext DEF IPCacheCurrent
<1>4. CASE a \notin u
  <2>1. /\ cache' = Put(c, h, a, now + TTL, MaxSize)
        /\ used' = (u \cup {a}) \ {IPOf(v) : v \in Victims(c, MaxSize)}
        /\ ipCache' = Put(ipCache, a, h, now + TTL, MaxSize)
        /\ owner' = [owner EXCEPT ![a] = h]
        /\ now' = now
    BY <1>4 DEF QueryMiss
  <2> HIDE DEF c, u, a
  <2>2. now + TTL \in Nat
    BY <1>0, FakeIPAssumption, SMT
  <2>3. Victims(c, MaxSize) \subseteq {g \in Host : Has(c, g)}
    BY <1>1, <1>2, <2>2, FakeIPAssumption, InsertKeepsCache DEF Sound
  <2>4. {IPOf(v) : v \in Victims(c, MaxSize)} = {c.ent[v].val : v \in Victims(c, MaxSize)}
    BY <1>1, <2>3 DEF IPOf
  <2>5. Sound(cache', used')
    BY <1>1, <1>2, <1>4, <2>1, <2>2, <2>4, GiveKeeps
  <2>6. /\ CacheOK(ipCache', Pool, Host)
        /\ ipCache'.ent[a] = [val |-> h, exp |-> now + TTL]
        /\ \A j \in Pool \ {a} : ipCache'.ent[j] \in {NIL, ipCache.ent[j]}
    BY <1>0, <1>2, <2>1, <2>2, FakeIPAssumption, PutKeeps, SMT
  <2>7. IPCacheCurrent'
    BY <1>0, <1>2, <2>1, <2>6, SMT DEF IPCacheCurrent, Has
  <2>8. owner' \in [Pool -> Host \cup {NIL}] /\ now' \in Nat
    BY <1>0, <2>1
  <2> QED
    BY <2>5, <2>6, <2>7, <2>8, SoundIsInvNext
<1> QED
  BY <1>3, <1>4

\* The address side of FindByIP and of cleanup: ipCache only loses entries.
LEMMA IPCacheShrinks ==
    ASSUME IInv, NEW a \in Pool, UNCHANGED owner,
           ipCache' = Drop(ipCache, a) \/ ipCache' = Touch(ipCache, a)
    PROVE  CacheOK(ipCache', Pool, Host) /\ IPCacheCurrent'
<1>1. CacheOK(ipCache, Pool, Host) /\ IPCacheCurrent
  BY SoundIsInv
<1>2. CASE ipCache' = Drop(ipCache, a)
  BY <1>1, <1>2, DropKeeps, SMT DEF IPCacheCurrent, Has
<1>3. CASE ipCache' = Touch(ipCache, a)
  BY <1>1, <1>3, TouchKeepsCache, SMT DEF IPCacheCurrent, Has
<1> QED
  BY <1>2, <1>3

LEMMA NextIInv == IInv /\ [Next]_vars => IInv'
<1> SUFFICES ASSUME IInv, [Next]_vars PROVE IInv'
  OBVIOUS
<1>0. /\ Sound(cache, used) /\ CacheOK(ipCache, Pool, Host) /\ now \in Nat
      /\ owner \in [Pool -> Host \cup {NIL}] /\ IPCacheCurrent
  BY SoundIsInv
<1>1. ASSUME NEW h \in Host, QueryHit(h) PROVE IInv'
  <2>1. Sound(cache', used')
    BY <1>0, <1>1, TouchSound DEF QueryHit
  <2> QED
    BY <1>0, <1>1, <2>1, SoundIsInvNext DEF QueryHit, IPCacheCurrent
<1>2. ASSUME NEW h \in Host, QueryMiss(h) PROVE IInv'
  BY <1>2, QueryMissKeeps
<1>3. ASSUME NEW h \in Host, CleanupHost(h) PROVE IInv'
  <2>1. Sound(cache', used')
    BY <1>0, <1>3, EvictKeeps DEF CleanupHost, Evict, IPOf
  <2> QED
    BY <1>0, <1>3, <2>1, SoundIsInvNext DEF CleanupHost, IPCacheCurrent
<1>4. ASSUME NEW a \in Pool, FindByIP(a) PROVE IInv'
  <2>1. CacheOK(ipCache', Pool, Host) /\ IPCacheCurrent'
    BY <1>4, IPCacheShrinks DEF FindByIP
  <2>2. Sound(cache', used')
    <3> DEFINE h == ipCache.ent[a].val
    <3>1. h \in Host
      BY <1>0, <1>4 DEF FindByIP, CacheOK, Has
    <3>2. CASE UNCHANGED <<cache, used>>
      BY <1>0, <3>2
    <3>3. CASE Has(cache, h) /\ Evict(h)
      BY <1>0, <3>1, <3>3, EvictKeeps DEF Evict, IPOf
    <3>4. CASE cache' = Touch(cache, h) /\ UNCHANGED used
      BY <1>0, <3>1, <3>4, TouchSound
    <3> QED
      BY <1>4, <3>2, <3>3, <3>4 DEF FindByIP
  <2> QED
    BY <1>0, <1>4, <2>1, <2>2, SoundIsInvNext DEF FindByIP
<1>5. ASSUME NEW a \in Pool, CleanupIP(a) PROVE IInv'
  <2>1. CacheOK(ipCache', Pool, Host) /\ IPCacheCurrent'
    BY <1>5, IPCacheShrinks DEF CleanupIP
  <2> QED
    BY <1>0, <1>5, <2>1, SoundIsInvNext DEF CleanupIP
<1>6. ASSUME Tick PROVE IInv'
  BY <1>0, <1>6, SoundIsInvNext, SMT DEF Tick, IPCacheCurrent
<1>7. CASE UNCHANGED vars
  BY <1>0, <1>7, SoundIsInvNext DEF vars, IPCacheCurrent
<1> QED
  BY <1>1, <1>2, <1>3, <1>4, <1>5, <1>6, <1>7 DEF Next

\* The state keeps its types and each cache its recency order.
THEOREM TypeCorrect == Spec => []TypeOK
<1>1. IInv => TypeOK
  BY DEF IInv
<1> QED
  BY <1>1, InitIInv, NextIInv, PTL DEF Spec

\* An address is flagged in use exactly when it is set aside or a cached record
\* holds it: onReleaseFakeIP gives back every address that a record loses, on
\* each of the paths a record can leave by, and none that one still holds.
THEOREM PoolStaysExact == Spec => []PoolExact
<1>1. IInv => PoolExact
  BY DEF IInv
<1> QED
  BY <1>1, InitIInv, NextIInv, PTL DEF Spec

\* No two hosts share a fake address and none gets a reserved one.
THEOREM AddressesStayDistinct == Spec => []AddressesDistinct
<1>1. IInv => AddressesDistinct
  BY DEF IInv
<1> QED
  BY <1>1, InitIInv, NextIInv, PTL DEF Spec

\* FindByIP answers with the host the address was last given to, or fails.
THEOREM NoAddressMisrouted == Spec => []NeverMisrouted
<1>1. IInv => NeverMisrouted
  BY DEF IInv, NeverMisrouted, Answer, IPCacheCurrent
<1> QED
  BY <1>1, InitIInv, NextIInv, PTL DEF Spec
-----------------------------------------------------------------------------
(* The enhancer.                                                           *)

\* Whatever the applications do, the fake DNS sees calls of its own operations.
LEMMA StepIsFakeIP == [EnhancerNext]_evars => [Next]_vars
<1> SUFFICES ASSUME [EnhancerNext]_evars PROVE [Next]_vars
  OBVIOUS
<1>1. ASSUME NEW p \in App, NEW h \in Host, QueryFake(p, h) PROVE Next
  BY <1>1 DEF QueryFake, Next
<1>2. ASSUME NEW p \in App, QueryReal(p) \/ Pack(p) \/ ConnectReal(p) \/ Ends(p) PROVE UNCHANGED vars
  BY <1>2 DEF QueryReal, Pack, ConnectReal, Ends
<1>3. ASSUME NEW p \in App, ConnectFake(p) PROVE [Next]_vars
  BY <1>3 DEF ConnectFake, IsFakeIP, Next
<1>4. CASE Background
  BY <1>4 DEF Background, Next
<1>5. CASE UNCHANGED evars
  BY <1>5 DEF evars
<1> QED
  BY <1>1, <1>2, <1>3, <1>4, <1>5 DEF EnhancerNext

\* The enhancer with its applications implements the fake DNS of module FakeIP:
\* its theorems (an exact pool, distinct addresses, no misrouting) hold of both.
THEOREM EnhancerImplementsFakeIP == EnhancerSpec => Spec
<1>1. EnhancerInit => Init
  BY DEF EnhancerInit
<1> QED
  BY <1>1, StepIsFakeIP, PTL DEF EnhancerSpec, Spec

-----------------------------------------------------------------------------
(* The owner of an address is the host whose record has it.                *)

OwnerOK == \A h \in Host : Has(cache, h) => owner[cache.ent[h].val] = h

\* A record a step leaves or makes: the one it was, or a new one of its owner's.
LEMMA RecordKept ==
    ASSUME IInv, [Next]_vars, NEW g \in Host, Has(cache', g)
    PROVE  \/ cache'.ent[g] = cache.ent[g] /\ owner'[cache.ent[g].val] = owner[cache.ent[g].val]
           \/ owner'[cache'.ent[g].val] = g
<1>0. /\ Sound(cache, used) /\ CacheOK(ipCache, Pool, Host) /\ now \in Nat
      /\ owner \in [Pool -> Host \cup {NIL}]
  BY SoundIsInv
<1>1. ASSUME NEW h \in Host, QueryHit(h) PROVE cache'.ent[g] = cache.ent[g] /\ owner' = owner
  BY <1>0, <1>1, TouchKeepsCache, SMT DEF QueryHit, Sound
<1>2. ASSUME NEW h \in Host, QueryMiss(h)
      PROVE  \/ cache'.ent[g] = cache.ent[g] /\ owner'[cache.ent[g].val] = owner[cache.ent[g].val]
             \/ owner'[cache'.ent[g].val] = g
  <2> DEFINE c == IF Has(cache, h) THEN Drop(cache, h) ELSE cache
             u == IF Has(cache, h) THEN Release(used, IPOf(h)) ELSE used
             a == Allocate(u, h)
  <2>1. /\ Sound(c, u) /\ ~Has(c, h)
        /\ \A f \in Host : Has(c, f) => c.ent[f] = cache.ent[f]
    BY <1>0, EvictKeeps DEF IPOf
  <2>2. a \in Pool
    BY AllocateInPool
  <2>3. CASE a \in u
    <3>1. cache' = c /\ owner' = owner
      BY <1>2, <2>3 DEF QueryMiss
    <3> QED
      BY <2>1, <3>1
  <2>4. CASE a \notin u
    <3>1. cache' = Put(c, h, a, now + TTL, MaxSize) /\ owner' = [owner EXCEPT ![a] = h]
      BY <1>2, <2>4 DEF QueryMiss
    <3> HIDE DEF c, u, a
    <3>2. now + TTL \in Nat
      BY <1>0, FakeIPAssumption, SMT
    <3>3. /\ cache'.ent[h] = [val |-> a, exp |-> now + TTL]
          /\ \A j \in Host \ {h} : cache'.ent[j] \in {NIL, c.ent[j]}
      BY <2>1, <2>2, <3>1, <3>2, FakeIPAssumption, PutKeeps, SMT DEF Sound
    <3>4. CASE g = h
      BY <1>0, <2>2, <3>1, <3>3, <3>4, SMT
    <3>5. CASE g # h
      <4>1. cache'.ent[g] = c.ent[g] /\ Has(c, g) /\ c.ent[g] = cache.ent[g]
        BY <2>1, <3>3, <3>5 DEF Has
      <4>2. c.ent[g].val # a
        BY <2>1, <2>4, <4>1 DEF Sound, Addrs
      <4> QED
        BY <1>0, <3>1, <4>1, <4>2, SMT
    <3> QED
      BY <3>4, <3>5
  <2> QED
    BY <2>3, <2>4
<1>3. ASSUME NEW h \in Host, Has(cache, h), Evict(h) PROVE cache'.ent[g] = cache.ent[g]
  BY <1>0, <1>3, EvictKeeps DEF Evict
<1>4. ASSUME NEW h \in Host, CleanupHost(h) PROVE cache'.ent[g] = cache.ent[g] /\ owner' = owner
  BY <1>3, <1>4 DEF CleanupHost
<1>5. ASSUME NEW a \in Pool, FindByIP(a) PROVE cache'.ent[g] = cache.ent[g] /\ owner' = owner
  <2> DEFINE h == ipCache.ent[a].val
  <2>1. h \in Host
    BY <1>0, <1>5 DEF FindByIP, CacheOK, Has
  <2>2. CASE cache' = Touch(cache, h)
    BY <1>0, <1>5, <2>1, <2>2, TouchKeepsCache, SMT DEF FindByIP, Sound
  <2>3. CASE UNCHANGED cache
    BY <1>5, <2>3 DEF FindByIP
  <2>4. CASE Has(cache, h) /\ Evict(h)
    BY <1>3, <1>5, <2>1, <2>4 DEF FindByIP
  <2> QED
    BY <1>5, <2>2, <2>3, <2>4 DEF FindByIP
<1>6. ASSUME NEW a \in Pool, CleanupIP(a) PROVE cache' = cache /\ owner' = owner
  BY <1>6 DEF CleanupIP
<1>7. CASE Tick \/ UNCHANGED vars
  BY <1>7 DEF Tick, vars
<1> QED
  BY <1>1, <1>2, <1>4, <1>5, <1>6, <1>7 DEF Next

LEMMA OwnerKept ==
    ASSUME IInv, OwnerOK, [Next]_vars
    PROVE  OwnerOK'
<1> SUFFICES ASSUME NEW g \in Host, Has(cache', g) PROVE owner'[cache'.ent[g].val] = g
  BY DEF OwnerOK
<1>1. CASE cache'.ent[g] = cache.ent[g] /\ owner'[cache.ent[g].val] = owner[cache.ent[g].val]
  BY <1>1 DEF OwnerOK, Has
<1> QED
  BY <1>1, RecordKept

-----------------------------------------------------------------------------
(* The applications.                                                       *)

AppState ==
    [at : {"idle", "reply", "known", "relay"}, name : Host \cup {NIL}, addr : Pool \cup {NIL, RealAddr},
     carries : App \cup {NIL}, went : Host \cup {NIL, RealAddr}]

\* What an application that is linked knows is true.
Told(p) ==
    /\ app[p].name \in Host
    /\ app[p].at \in {"reply", "known"} => Has(cache, app[p].name) /\ cache.ent[app[p].name].val = app[p].addr
    /\ app[p].at = "relay" => app[p].went = app[p].name

EInv ==
    /\ IInv /\ OwnerOK
    /\ app \in [App -> AppState] /\ linked \subseteq App
    /\ \A p \in linked : app[p].at # "idle" /\ Told(p)

LEMMA InitEInv == EnhancerInit => EInv
<1> SUFFICES ASSUME EnhancerInit PROVE EInv
  OBVIOUS
<1>1. IInv
  BY InitIInv DEF EnhancerInit
<1>2. OwnerOK
  BY DEF EnhancerInit, Init, EmptyCache, OwnerOK, Has
<1> QED
  BY <1>1, <1>2 DEF EnhancerInit, EInv, Idle, AppState

\* A step on the caches leaves those it keeps with what they know.
LEMMA KeptTold ==
    ASSUME EInv, NEW q \in Kept, app'[q].at = app[q].at, app'[q].name = app[q].name,
           app'[q].addr = app[q].addr, app'[q].went = app[q].went
    PROVE  app'[q].at # "idle" /\ Told(q)'
<1>1. app[q].at # "idle" /\ Told(q)
  BY DEF EInv, Kept
<1>2. app[q].at = "relay" \/ cache'.ent[app[q].name] = cache.ent[app[q].name]
  BY DEF Kept
<1> QED
  BY <1>1, <1>2 DEF Told, Has

LEMMA StepEInv == EInv /\ [EnhancerNext]_evars => EInv'
<1> SUFFICES ASSUME EInv, [EnhancerNext]_evars PROVE EInv'
  OBVIOUS
<1>0. IInv' /\ OwnerOK'
  BY StepIsFakeIP, NextIInv, OwnerKept DEF EInv
<1>t. /\ app \in [App -> AppState] /\ linked \subseteq App /\ Kept \subseteq linked
      /\ \A p \in linked : app[p].at # "idle" /\ Told(p)
  BY DEF EInv, Kept
<1>c. CacheOK(cache', Host, Pool)
  BY <1>0 DEF IInv, TypeOK
<1>1. ASSUME NEW p \in App, NEW h \in Host, QueryFake(p, h) PROVE EInv'
  <2>1. CASE ~Has(cache', h)
    <3>1. app' = app /\ linked' = Kept
      BY <1>1, <2>1 DEF QueryFake
    <3> QED
      BY <1>0, <1>t, <3>1, KeptTold DEF EInv
  <2>2. CASE Has(cache', h)
    <3> DEFINE mine == [at |-> "reply", name |-> h, addr |-> cache'.ent[h].val, carries |-> p, went |-> NIL]
    <3>1. linked' = Kept \cup {p} /\ app' = [SetReply(p, h) EXCEPT ![p] = mine]
      BY <1>1, <2>2 DEF QueryFake
    <3>2. cache'.ent[h].val \in Pool
      BY <1>c, <2>2 DEF CacheOK, Has
    <3>3. mine \in AppState
      BY <3>2 DEF AppState
    <3>4. \A q \in App : /\ SetReply(p, h)[q] \in AppState
                         /\ q \in Kept => /\ SetReply(p, h)[q].at = app[q].at
                                          /\ SetReply(p, h)[q].name = app[q].name
                                          /\ SetReply(p, h)[q].addr = app[q].addr
                                          /\ app[q].at = "reply" \/ SetReply(p, h)[q].went = app[q].went
      BY <1>t DEF SetReply, AppState
    <3>5. app' \in [App -> AppState]
      BY <3>1, <3>3, <3>4 DEF SetReply
    <3>6. ASSUME NEW q \in linked', q # p PROVE app'[q].at # "idle" /\ Told(q)'
      <4>1. q \in Kept /\ q \in App /\ app'[q] = SetReply(p, h)[q]
        BY <1>t, <3>1, <3>6 DEF SetReply
      <4>2. app[q].at # "idle" /\ Told(q)
        BY <1>t, <4>1
      <4>3. app[q].at = "relay" \/ cache'.ent[app[q].name] = cache.ent[app[q].name]
        BY <4>1 DEF Kept
      <4> QED
        BY <3>4, <4>1, <4>2, <4>3 DEF Told, Has
    <3>7. app'[p] = mine
      BY <3>1 DEF SetReply
    <3>8. app'[p].at # "idle" /\ Told(p)'
      BY <2>2, <3>7, SMT DEF Told
    <3> QED
      BY <1>0, <1>t, <3>1, <3>5, <3>6, <3>8 DEF EInv
  <2> QED
    BY <2>1, <2>2
<1>2. ASSUME NEW p \in App, QueryReal(p) PROVE EInv'
  <2>1. p \notin linked
    BY <1>2, <1>t DEF QueryReal
  <2>2. app' \in [App -> AppState] /\ \A q \in linked : app'[q] = app[q]
    BY <1>2, <1>t, <2>1 DEF QueryReal, AppState
  <2> QED
    BY <1>0, <1>2, <1>t, <2>2, SMT DEF QueryReal, EInv, Told, vars
<1>3. ASSUME NEW p \in App, Forget(p), UNCHANGED vars PROVE EInv'
  <2>1. app' \in [App -> AppState] /\ \A q \in linked' : q \in linked /\ app'[q] = app[q]
    BY <1>3, <1>t DEF Forget, Idle, AppState
  <2> QED
    BY <1>0, <1>3, <1>t, <2>1 DEF Forget, EInv, Told, vars
<1>4. ASSUME NEW p \in App, Pack(p) PROVE EInv'
  <2>1. CASE app[p].carries # p
    BY <1>3, <1>4, <2>1 DEF Pack
  <2>2. CASE app[p].carries = p
    <3>1. /\ app' = [app EXCEPT ![p] = [at |-> "known", name |-> app[p].name, addr |-> app[p].addr,
                                        carries |-> NIL, went |-> NIL]]
          /\ linked' = linked /\ cache' = cache /\ app[p].at = "reply"
      BY <1>4, <2>2 DEF Pack, vars
    <3>2. app' \in [App -> AppState]
      BY <1>t, <3>1 DEF AppState
    <3>3. ASSUME NEW q \in linked PROVE app'[q].at # "idle" /\ Told(q)'
      BY <1>t, <3>1 DEF Told
    <3> QED
      BY <1>0, <1>t, <3>1, <3>2, <3>3 DEF EInv
  <2> QED
    BY <2>1, <2>2
<1>5. ASSUME NEW p \in App, ConnectReal(p) PROVE EInv'
  <2>1. p \notin linked
    <3>1. SUFFICES ASSUME p \in linked PROVE FALSE
      OBVIOUS
    <3>2. Has(cache, app[p].name) /\ cache.ent[app[p].name].val = app[p].addr /\ app[p].name \in Host
      BY <1>5, <1>t, <3>1 DEF ConnectReal, Told
    <3>3. CacheOK(cache, Host, Pool)
      BY DEF EInv, IInv, TypeOK
    <3>4. app[p].addr \in Pool
      BY <3>2, <3>3 DEF CacheOK, Has
    <3> QED
      BY <1>5, <3>4 DEF ConnectReal, IsFakeIP
  <2>2. app' \in [App -> AppState] /\ \A q \in linked : app'[q] = app[q]
    BY <1>5, <1>t, <2>1 DEF ConnectReal, Relayed, AppState
  <2> QED
    BY <1>0, <1>5, <1>t, <2>2 DEF ConnectReal, EInv, Told, vars
<1>6. ASSUME NEW p \in App, ConnectFake(p) PROVE EInv'
  <2> DEFINE a == app[p].addr
  <2>1. CASE app' = [app EXCEPT ![p] = Idle] /\ linked' = Kept \ {p}
    <3>1. app' \in [App -> AppState] /\ \A q \in linked' : q \in Kept /\ app'[q] = app[q]
      BY <1>t, <2>1 DEF Idle, AppState
    <3> QED
      BY <1>0, <1>t, <2>1, <3>1, KeptTold DEF EInv
  <2>2. CASE Answer(a) # NIL /\ Relayed(p, Answer(a)) /\ linked' = Kept
    <3>1. a \in Pool /\ app[p].at = "known"
      BY <1>6 DEF ConnectFake, IsFakeIP
    <3>2. Answer(a) = owner[a] /\ Answer(a) \in Host
      BY <2>2, <3>1 DEF EInv, IInv, IPCacheCurrent, Answer, TypeOK
    <3>3. app' \in [App -> AppState]
      BY <1>t, <2>2, <3>2 DEF Relayed, AppState
    <3>4. ASSUME NEW q \in Kept, q # p PROVE app'[q].at # "idle" /\ Told(q)'
      <4>1. app'[q] = app[q]
        BY <1>t, <2>2, <3>4 DEF Relayed
      <4> QED
        BY <4>1, KeptTold
    <3>5. ASSUME p \in Kept PROVE app'[p].at # "idle" /\ Told(p)'
      <4>1. app[p].name \in Host /\ Has(cache, app[p].name) /\ cache.ent[app[p].name].val = a
        BY <1>t, <3>1, <3>5 DEF Told
      <4>2. owner[a] = app[p].name
        BY <4>1 DEF EInv, OwnerOK
      <4>3. app'[p].at = "relay" /\ app'[p].name = app[p].name /\ app'[p].went = Answer(a)
        BY <1>t, <2>2 DEF Relayed
      <4> QED
        BY <3>2, <4>1, <4>2, <4>3 DEF Told
    <3> QED
      BY <1>0, <1>t, <2>2, <3>3, <3>4, <3>5 DEF EInv
  <2> QED
    BY <1>6, <2>1, <2>2 DEF ConnectFake
<1>7. ASSUME NEW p \in App, Ends(p) PROVE EInv'
  BY <1>3, <1>7 DEF Ends
<1>8. CASE Background
  <2>1. app' = app /\ linked' = Kept
    BY <1>8 DEF Background
  <2> QED
    BY <1>0, <1>t, <2>1, KeptTold DEF EInv
<1>9. CASE UNCHANGED evars
  BY <1>0, <1>9, <1>t DEF evars, vars, EInv, Told
<1> QED
  BY <1>1, <1>2, <1>4, <1>5, <1>6, <1>7, <1>8, <1>9 DEF EnhancerNext

\* A connection to the fake address an application was told for a host is relayed to
\* that host, if the record was still cached when it connected.
THEOREM ConnectionsReachTheirHost == EnhancerSpec => []ReachesHost
<1>1. EInv => ReachesHost
  BY DEF EInv, Told, ReachesHost
<1> QED
  BY <1>1, InitEInv, StepEInv, PTL DEF EnhancerSpec
-----------------------------------------------------------------------------
(* A live record and the way back to it are stable.                        *)

\* A record and the entry of its address that leads back to it were stored at the same
\* time, for the same time, so neither expires before the other.
SameExpiry ==
    \A h \in Host : Has(cache, h) /\ Has(ipCache, IPOf(h)) /\ ipCache.ent[IPOf(h)].val = h =>
                       ipCache.ent[IPOf(h)].exp = cache.ent[h].exp

SInv == IInv /\ Len(cache.ord) <= MaxSize /\ SameExpiry

\* How long the order of a cache is after each operation.
LEMMA SizeKept ==
    ASSUME NEW K, NEW V, NEW c, CacheOK(c, K, V), NEW k \in K,
           NEW max \in Nat \ {0}, Len(c.ord) <= max
    PROVE  /\ Len(Drop(c, k).ord) <= max
           /\ Has(c, k) => Len(Drop(c, k).ord) < max
           /\ Len(Touch(c, k).ord) <= max
           /\ \A v, t : ~Has(c, k) => Len(Insert(c, k, v, t, max).ord) <= max
<1>1. /\ c.ord \in Seq(K) /\ IsInjective(c.ord) /\ Range(c.ord) = {j \in K : Has(c, j)}
      /\ Len(c.ord) \in Nat
  BY SMT DEF CacheOK
<1>2. Drop(c, k).ord = Without(c.ord, k) /\ Touch(c, k).ord = MoveToBack(c.ord, k)
  BY DEF Drop, Touch
<1>3. Without(c.ord, k) \in Seq(K) /\ Len(Without(c.ord, k)) <= Len(c.ord)
  BY <1>1, WithoutAny
<1>4. Has(c, k) => Len(Without(c.ord, k)) = Len(c.ord) - 1
  BY <1>1, WithoutMember
<1>5. Len(MoveToBack(c.ord, k)) = Len(c.ord)
  BY <1>1, MoveToBackKeeps
<1>6. ASSUME NEW v, NEW t, ~Has(c, k) PROVE Len(Insert(c, k, v, t, max).ord) <= max
  <2>1. CASE Len(c.ord) = max
    <3> DEFINE h == Head(c.ord)
    <3>1. h \in Range(c.ord)
      BY <1>1, <2>1, HeadIsMember, SMT
    <3> HIDE DEF h
    <3>2. Without(c.ord, h) \in Seq(K) /\ Len(Without(c.ord, h)) = max - 1
      BY <1>1, <2>1, <3>1, WithoutMember
    <3>3. Insert(c, k, v, t, max).ord = Append(Without(c.ord, h), k)
      BY <2>1 DEF Insert, Drop, h
    <3> QED
      BY <3>2, <3>3, SMT
  <2>2. CASE Len(c.ord) # max
    <3>1. Insert(c, k, v, t, max).ord = Append(c.ord, k)
      BY <2>2 DEF Insert
    <3> QED
      BY <1>1, <2>2, <3>1, SMT
  <2> QED
    BY <2>1, <2>2
<1> QED
  BY <1>1, <1>2, <1>3, <1>4, <1>5, <1>6, SMT

\* What giving an address to g takes from others: only what making room takes.
LEMMA MissTakes ==
    ASSUME SInv, NEW g \in Host, QueryMiss(g)
    PROVE  /\ Len(cache'.ord) <= MaxSize
           /\ Has(cache', g) => ipCache'.ent[cache'.ent[g].val].exp = cache'.ent[g].exp
           /\ \A h \in Host \ {g} :
                 /\ \/ cache'.ent[h] = cache.ent[h]
                    \/ ~Has(cache', h) /\ Victims(cache, MaxSize) = {h}
                 /\ \/ ~Has(cache, h)
                    \/ ipCache'.ent[IPOf(h)] = ipCache.ent[IPOf(h)]
                    \/ ~Has(ipCache', IPOf(h)) /\ Victims(ipCache, MaxSize) = {IPOf(h)}
<1> DEFINE c == IF Has(cache, g) THEN Drop(cache, g) ELSE cache
           u == IF Has(cache, g) THEN Release(used, IPOf(g)) ELSE used
           a == Allocate(u, g)
<1>0. Sound(cache, used) /\ CacheOK(ipCache, Pool, Host) /\ now + TTL \in Nat
  BY SoundIsInv, FakeIPAssumption, SMT DEF SInv
<1>1. Sound(c, u) /\ ~Has(c, g) /\ CacheOK(c, Host, Pool)
  BY <1>0, EvictKeeps DEF IPOf, Sound
<1>2. a \in Pool
  BY AllocateInPool
<1>3. \A h \in Host \ {g} : c.ent[h] = cache.ent[h]
  BY <1>0, DropKeeps, SMT DEF Sound
<1>4. Len(c.ord) <= MaxSize /\ (Has(cache, g) => Len(c.ord) < MaxSize)
  BY <1>0, SizeKept, FakeIPAssumption DEF Sound, SInv
<1>5. CASE a \in u
  <2>1. cache' = c /\ ipCache' = ipCache
    BY <1>5 DEF QueryMiss
  <2> QED
    BY <1>1, <1>3, <1>4, <2>1
<1>6. CASE a \notin u
  <2>1. /\ cache' = Put(c, g, a, now + TTL, MaxSize)
        /\ ipCache' = Put(ipCache, a, g, now + TTL, MaxSize)
    BY <1>6 DEF QueryMiss
  <2>v. Victims(c, MaxSize) \subseteq Victims(cache, MaxSize)
    <3>1. CASE Has(cache, g)
      <4>1. Len(c.ord) # MaxSize
        BY <1>4, <3>1, SMT
      <4> QED
        BY <4>1 DEF Victims
    <3> QED
      BY <3>1
  <2> HIDE DEF c, u, a
  <2>2. cache' = Insert(c, g, a, now + TTL, MaxSize)
    BY <1>1, <2>1 DEF Put
  <2>3. \A h \in Host : cache'.ent[h] = IF h = g THEN [val |-> a, exp |-> now + TTL]
                                        ELSE IF h \in Victims(c, MaxSize) THEN NIL ELSE c.ent[h]
    BY <1>0, <1>1, <1>2, <2>2, FakeIPAssumption, InsertKeepsCache, SMT
  <2>4. Len(cache'.ord) <= MaxSize
    BY <1>1, <1>4, <2>2, FakeIPAssumption, SizeKept
  <2>5. /\ ipCache'.ent[a] = [val |-> g, exp |-> now + TTL]
        /\ \A b \in Pool \ {a} : \/ ipCache'.ent[b] = ipCache.ent[b]
                                 \/ ipCache'.ent[b] = NIL /\ b \in Victims(ipCache, MaxSize)
    <3>1. CASE Has(ipCache, a)
      BY <1>0, <1>2, <2>1, <3>1, FakeIPAssumption, UpdateKeeps, SMT DEF Put
    <3>2. CASE ~Has(ipCache, a)
      BY <1>0, <1>2, <2>1, <3>2, FakeIPAssumption, InsertKeepsCache, SMT DEF Put
    <3> QED
      BY <3>1, <3>2
  <2>6. ASSUME NEW h \in Host \ {g}, Has(cache, h) PROVE IPOf(h) \in Pool \ {a}
    <3>1. Has(c, h) /\ c.ent[h] = cache.ent[h]
      BY <1>3, <2>6 DEF Has
    <3>2. c.ent[h].val \in u
      BY <1>1, <3>1 DEF Sound, Addrs
    <3> QED
      BY <1>1, <1>6, <3>1, <3>2 DEF Sound, IPOf
  <2>7. \A k, d : k \in Victims(d, MaxSize) => Victims(d, MaxSize) = {k}
    BY DEF Victims
  <2>8. ASSUME NEW h \in Host \ {g}
        PROVE  /\ \/ cache'.ent[h] = cache.ent[h]
                  \/ ~Has(cache', h) /\ Victims(cache, MaxSize) = {h}
               /\ \/ ~Has(cache, h)
                  \/ ipCache'.ent[IPOf(h)] = ipCache.ent[IPOf(h)]
                  \/ ~Has(ipCache', IPOf(h)) /\ Victims(ipCache, MaxSize) = {IPOf(h)}
    <3>1. \/ cache'.ent[h] = cache.ent[h]
          \/ ~Has(cache', h) /\ Victims(cache, MaxSize) = {h}
      BY <1>3, <2>v, <2>3, <2>7 DEF Has
    <3>2. \/ ~Has(cache, h)
          \/ ipCache'.ent[IPOf(h)] = ipCache.ent[IPOf(h)]
          \/ ~Has(ipCache', IPOf(h)) /\ Victims(ipCache, MaxSize) = {IPOf(h)}
      BY <2>5, <2>6, <2>7 DEF Has
    <3> QED
      BY <3>1, <3>2
  <2>9. ipCache'.ent[cache'.ent[g].val].exp = cache'.ent[g].exp
    BY <2>3, <2>5, SMT
  <2> QED
    BY <2>4, <2>8, <2>9
<1> QED
  BY <1>5, <1>6

\* What a step that gives no address takes: only what has expired.
LEMMA OthersTake ==
    ASSUME SInv, [Next]_vars, ~\E g \in Host : QueryMiss(g)
    PROVE  /\ Len(cache'.ord) <= MaxSize
           /\ \A h \in Host : \/ cache'.ent[h] = cache.ent[h]
                              \/ ~Has(cache', h) /\ Has(cache, h) /\ Expired(cache, h, now)
           /\ \A b \in Pool : \/ ipCache'.ent[b] = ipCache.ent[b]
                              \/ ~Has(ipCache', b) /\ Expired(ipCache, b, now)
<1> DEFINE P == /\ Len(cache'.ord) <= MaxSize
                /\ \A h \in Host : \/ cache'.ent[h] = cache.ent[h]
                                   \/ ~Has(cache', h) /\ Has(cache, h) /\ Expired(cache, h, now)
           Q == \A b \in Pool : \/ ipCache'.ent[b] = ipCache.ent[b]
                                \/ ~Has(ipCache', b) /\ Expired(ipCache, b, now)
<1>0. /\ CacheOK(cache, Host, Pool) /\ CacheOK(ipCache, Pool, Host)
      /\ Len(cache.ord) <= MaxSize
  BY DEF SInv, IInv, TypeOK
<1>1. ASSUME NEW g \in Host, cache' = Touch(cache, g) PROVE P
  <2>1. Touch(cache, g).ent = cache.ent /\ Len(Touch(cache, g).ord) <= MaxSize
    BY <1>0, TouchKeepsCache, SizeKept, FakeIPAssumption
  <2> QED
    BY <1>1, <2>1
<1>2. ASSUME NEW g \in Host, Has(cache, g), Expired(cache, g, now), Evict(g) PROVE P
  <2>1. /\ \A h \in Host : Drop(cache, g).ent[h] = IF h = g THEN NIL ELSE cache.ent[h]
        /\ Len(Drop(cache, g).ord) <= MaxSize
    BY <1>0, DropKeeps, SizeKept, FakeIPAssumption, SMT
  <2> QED
    BY <1>2, <2>1 DEF Evict, Has
<1>3. ASSUME UNCHANGED cache PROVE P
  BY <1>0, <1>3
<1>4. ASSUME NEW a \in Pool, Expired(ipCache, a, now), ipCache' = Drop(ipCache, a) PROVE Q
  <2>1. \A b \in Pool : Drop(ipCache, a).ent[b] = IF b = a THEN NIL ELSE ipCache.ent[b]
    BY <1>0, DropKeeps, SMT
  <2> QED
    BY <1>4, <2>1 DEF Has
<1>5. ASSUME NEW a \in Pool, ipCache' = Touch(ipCache, a) PROVE Q
  BY <1>0, <1>5, TouchKeepsCache
<1>6. ASSUME UNCHANGED ipCache PROVE Q
  BY <1>6
<1> HIDE DEF P, Q
<1>7. ASSUME NEW g \in Host, QueryHit(g) PROVE P /\ Q
  BY <1>1, <1>6, <1>7 DEF QueryHit
<1>8. ASSUME NEW g \in Host, CleanupHost(g) PROVE P /\ Q
  BY <1>2, <1>6, <1>8 DEF CleanupHost
<1>9. ASSUME NEW a \in Pool, FindByIP(a) PROVE P /\ Q
  <2> DEFINE g == ipCache.ent[a].val
  <2>1. g \in Host
    BY <1>0, <1>9 DEF FindByIP, CacheOK, Has
  <2>2. Q
    BY <1>4, <1>5, <1>9 DEF FindByIP
  <2>3. P
    BY <1>1, <1>2, <1>3, <1>9, <2>1 DEF FindByIP
  <2> QED
    BY <2>2, <2>3
<1>10. ASSUME NEW a \in Pool, CleanupIP(a) PROVE P /\ Q
  BY <1>3, <1>4, <1>10 DEF CleanupIP
<1>11. ASSUME Tick \/ UNCHANGED vars PROVE P /\ Q
  BY <1>3, <1>6, <1>11 DEF Tick, vars
<1>12. P /\ Q
  BY <1>7, <1>8, <1>9, <1>10, <1>11 DEF Next
<1> QED
  BY <1>12 DEF P, Q

LEMMA InitSInv == Init => SInv
<1> SUFFICES ASSUME Init PROVE SInv
  OBVIOUS
<1>1. IInv
  BY InitIInv
<1>2. cache.ord = <<>> /\ cache.ent = [h \in Host |-> NIL]
  BY DEF Init, EmptyCache
<1> QED
  BY <1>1, <1>2, FakeIPAssumption, SMT DEF SInv, SameExpiry, Has

LEMMA NextSInv == SInv /\ [Next]_vars => SInv'
<1> SUFFICES ASSUME SInv, [Next]_vars PROVE SInv'
  OBVIOUS
<1>1. IInv'
  BY NextIInv DEF SInv
<1>2. \A h \in Host : Has(cache, h) => IPOf(h) \in Pool
  BY DEF SInv, IInv, TypeOK, CacheOK, Has, IPOf
<1>3. ASSUME NEW h \in Host, cache'.ent[h] = cache.ent[h],
             Has(cache, h) => ipCache'.ent[IPOf(h)] \in {NIL, ipCache.ent[IPOf(h)]},
             Has(cache', h), Has(ipCache', cache'.ent[h].val), ipCache'.ent[cache'.ent[h].val].val = h
      PROVE  ipCache'.ent[cache'.ent[h].val].exp = cache'.ent[h].exp
  BY <1>3 DEF SInv, SameExpiry, IPOf, Has
<1>4. ASSUME NEW g \in Host, QueryMiss(g) PROVE Len(cache'.ord) <= MaxSize /\ SameExpiry'
  <2>1. ASSUME NEW h \in Host, Has(cache', h), Has(ipCache', cache'.ent[h].val),
               ipCache'.ent[cache'.ent[h].val].val = h
        PROVE  ipCache'.ent[cache'.ent[h].val].exp = cache'.ent[h].exp
    <3>1. CASE h = g
      BY <1>4, <2>1, <3>1, MissTakes
    <3>2. CASE h # g /\ Has(cache, h)
      BY <1>3, <1>4, <2>1, <3>2, MissTakes DEF Has
    <3>3. CASE h # g /\ ~Has(cache, h)
      <4>1. ~Has(cache', h)
        BY <1>4, <3>3, MissTakes DEF Has
      <4> QED
        BY <2>1, <4>1
    <3> QED
      BY <3>1, <3>2, <3>3
  <2> QED
    BY <1>4, <2>1, MissTakes DEF SameExpiry, IPOf
<1>5. ASSUME ~\E g \in Host : QueryMiss(g) PROVE Len(cache'.ord) <= MaxSize /\ SameExpiry'
  <2>1. ASSUME NEW h \in Host, Has(cache', h), Has(ipCache', cache'.ent[h].val),
               ipCache'.ent[cache'.ent[h].val].val = h
        PROVE  ipCache'.ent[cache'.ent[h].val].exp = cache'.ent[h].exp
    BY <1>2, <1>3, <1>5, <2>1, OthersTake DEF Has
  <2> QED
    BY <1>5, <2>1, OthersTake DEF SameExpiry, IPOf
<1> QED
  BY <1>1, <1>4, <1>5 DEF SInv

\* What a step may do to a live record and to the entry of its address.
LEMMA LiveStep ==
    ASSUME SInv, [Next]_vars, NEW h \in Host, Has(cache, h), ~Expired(cache, h, now)
    PROVE  /\ \/ cache'.ent[h] = cache.ent[h]
              \/ ~Has(cache', h) /\ Victims(cache, MaxSize) = {h}
           /\ \/ ipCache'.ent[IPOf(h)] = ipCache.ent[IPOf(h)]
              \/ Expired(ipCache, IPOf(h), now)
              \/ Victims(ipCache, MaxSize) = {IPOf(h)}
<1>1. ASSUME NEW g \in Host, QueryMiss(g)
      PROVE  /\ \/ cache'.ent[h] = cache.ent[h]
                \/ ~Has(cache', h) /\ Victims(cache, MaxSize) = {h}
             /\ \/ ipCache'.ent[IPOf(h)] = ipCache.ent[IPOf(h)]
                \/ Victims(ipCache, MaxSize) = {IPOf(h)}
  <2>1. h # g
    BY <1>1 DEF QueryMiss
  <2> QED
    BY <1>1, <2>1, MissTakes
<1>2. CASE ~\E g \in Host : QueryMiss(g)
  <2>1. IPOf(h) \in Pool
    BY DEF SInv, IInv, TypeOK, CacheOK, Has, IPOf
  <2> QED
    BY <1>2, <2>1, OthersTake
<1> QED
  BY <1>1, <1>2

\* A live record keeps its address, and FindByIP of the address leads back to its host:
\* only making room, in the one cache or the other, takes either away.
THEOREM LiveAddressesAreStable == EnhancerSpec => StableWhileLive
<1>1. EnhancerInit => SInv
  BY InitSInv DEF EnhancerInit
<1>2. SInv /\ [EnhancerNext]_evars => SInv'
  BY StepIsFakeIP, NextSInv
<1>3. ASSUME SInv, [EnhancerNext]_evars, NEW h \in Host, Has(cache, h), ~Expired(cache, h, now)
      PROVE  IF ~Has(cache', h) THEN Victims(cache, MaxSize) = {h}
             ELSE /\ cache'.ent[h].val = IPOf(h)
                  /\ Answer(IPOf(h)) = h /\ ~Expired(cache, h, now') =>
                        Answer(IPOf(h))' = h \/ Victims(ipCache, MaxSize) = {IPOf(h)}
  <2>1. /\ \/ cache'.ent[h] = cache.ent[h]
           \/ ~Has(cache', h) /\ Victims(cache, MaxSize) = {h}
        /\ \/ ipCache'.ent[IPOf(h)] = ipCache.ent[IPOf(h)]
           \/ Expired(ipCache, IPOf(h), now)
           \/ Victims(ipCache, MaxSize) = {IPOf(h)}
    BY <1>3, LiveStep, StepIsFakeIP
  <2>2. ASSUME cache'.ent[h] = cache.ent[h], Answer(IPOf(h)) = h, ~Expired(cache, h, now')
        PROVE  Answer(IPOf(h))' = h \/ Victims(ipCache, MaxSize) = {IPOf(h)}
    <3>1. h # NIL
      BY FakeIPAssumption
    <3>2. /\ Has(ipCache, IPOf(h)) /\ ~Expired(ipCache, IPOf(h), now)
          /\ ipCache.ent[IPOf(h)].val = h
      BY <2>2, <3>1 DEF Answer
    <3>3. ipCache.ent[IPOf(h)].exp = cache.ent[h].exp
      BY <1>3, <3>2 DEF SInv, SameExpiry
    <3>4. CASE ipCache'.ent[IPOf(h)] = ipCache.ent[IPOf(h)]
      <4>1. IPOf(h)' = IPOf(h)
        BY <2>2 DEF IPOf
      <4>2. /\ Has(ipCache', IPOf(h)) /\ ~Expired(ipCache', IPOf(h), now')
            /\ ipCache'.ent[IPOf(h)].val = h /\ Has(cache', h) /\ ~Expired(cache', h, now')
        BY <1>3, <2>2, <3>2, <3>3, <3>4 DEF Has, Expired
      <4> QED
        BY <4>1, <4>2 DEF Answer
    <3> QED
      BY <2>1, <3>2, <3>4
  <2> QED
    BY <1>3, <2>1, <2>2 DEF IPOf, Has
<1>4. SInv /\ [EnhancerNext]_evars =>
         [\A h \in Host : Has(cache, h) /\ ~Expired(cache, h, now) =>
             IF ~Has(cache', h) THEN Victims(cache, MaxSize) = {h}
             ELSE /\ cache'.ent[h].val = IPOf(h)
                  /\ Answer(IPOf(h)) = h /\ ~Expired(cache, h, now') =>
                        Answer(IPOf(h))' = h \/ Victims(ipCache, MaxSize) = {IPOf(h)}]_evars
  BY <1>3
<1> QED
  BY <1>1, <1>2, <1>4, PTL DEF EnhancerSpec, StableWhileLive
=============================================================================
