------------------------------- MODULE LruCache -------------------------------
(***************************************************************************)
(* util/cache/cache.go: an LRU cache with expiry, shared by goroutines.     *)
(*                                                                         *)
(* Get and Set look an element up under the read lock, RELEASE it, and act  *)
(* on that element under the write lock; Get and cleanup also read the      *)
(* element's expiry with no lock held.  Each action below is one critical   *)
(* section or one such unlocked read, so every interleaving of the calls of *)
(* Proc and of the background goroutine check is a behaviour.               *)
(***************************************************************************)
EXTENDS Lists

CONSTANTS
    Key, Value,
    Elem,           \* *list.Element: list cells, reused once unreachable
    Proc,           \* goroutines that call the cache
    NIL,
    MaxSize,        \* opts.maxSize
    Expiration,     \* opts.expiration
    MaxNow,         \* bound on the clock
    DeleteOnGet,    \* opts.deleteExpCacheOnGet
    RenewOnGet,     \* opts.updateCacheExpOnGet
    Background,     \* opts.checkCache
    MayStop         \* whether the owner ever calls Stop

ASSUME CacheAssumption ==
    /\ MaxSize \in Nat \ {0} /\ Expiration \in Nat /\ MaxNow \in Nat
    /\ NIL \notin Elem /\ NIL \notin Key /\ NIL \notin Value
    /\ NIL \notin [val : Value \cup {NIL}, exp : Nat]
    /\ {DeleteOnGet, RenewOnGet, Background, MayStop} \subseteq BOOLEAN

VARIABLES
    lru,        \* c.lru, front first
    cache,      \* c.cache : key -> element, NIL when absent
    ent,        \* the cacheEntry each element points to
    now,        \* c.fasttimeNow
    pc, reg,    \* where each caller is, and its local variables
    jpc, todo, jele, jnow,  \* the same for cleanup
    workers,    \* background goroutines still running
    done,       \* c.doneCh is closed
    evicted     \* evictFn calls made for the element's present entry, up to 2

callers == <<pc, reg>>
janitor == <<jpc, todo, jele, jnow>>
life == <<workers, done>>
vars == <<lru, cache, ent, now, callers, janitor, life, evicted>>

Idle == [key |-> NIL, val |-> NIL, ele |-> NIL, now |-> 0]

Init ==
    /\ lru = <<>>
    /\ cache = [k \in Key |-> NIL]
    /\ ent = [e \in Elem |-> [key |-> NIL, val |-> NIL, expires |-> 0]]
    /\ now = 0
    /\ pc = [p \in Proc |-> "idle"]
    /\ reg = [p \in Proc |-> Idle]
    /\ jpc = "select" /\ todo = {} /\ jele = NIL /\ jnow = 0
    /\ workers = {"updateTick"} \cup (IF Background THEN {"check"} ELSE {})
    /\ done = FALSE
    /\ evicted = [e \in Elem |-> 0]

\* The call of p returns.
Return(p) == pc' = [pc EXCEPT ![p] = "idle"] /\ reg' = [reg EXCEPT ![p] = Idle]
Goto(p, label) == pc' = [pc EXCEPT ![p] = label]
Once(n) == IF n < 2 THEN n + 1 ELSE n

\* Mutated forms of delete: the map keeps the key; evictFn is not called.
deleteKeepsKey(e) ==
    cache' = cache /\ lru' = Without(lru, e) /\ evicted' = [evicted EXCEPT ![e] = Once(@)]
deleteSilently(e) ==
    cache' = [cache EXCEPT ![ent[e].key] = NIL] /\ lru' = Without(lru, e) /\ evicted' = evicted

\* delete(ele): the map loses the element's KEY, whichever element it maps to;
\* the list loses the element if it still has it; evictFn runs in any case.
delete(e) ==
    /\ cache' = [cache EXCEPT ![ent[e].key] = NIL]
    /\ lru' = Without(lru, e)
    /\ evicted' = [evicted EXCEPT ![e] = Once(@)]
-----------------------------------------------------------------------------
\* Get: the lookup under RLock.  An absent key returns ErrCacheIsNotFound.
GetLookup(p, k) ==
    /\ pc[p] = "idle" /\ cache[k] # NIL
    /\ Goto(p, "getRead")
    /\ reg' = [reg EXCEPT ![p] = [Idle EXCEPT !.ele = cache[k]]]
    /\ UNCHANGED <<lru, cache, ent, now, janitor, life, evicted>>

\* Get: the expiry is compared with the clock, unlocked.
GetRead(p) ==
    /\ pc[p] = "getRead"
    /\ IF now >= ent[reg[p].ele].expires
       THEN IF DeleteOnGet
            THEN Goto(p, "getDelete") /\ UNCHANGED reg
            ELSE Return(p)
       ELSE Goto(p, "getHit") /\ reg' = [reg EXCEPT ![p].now = now]
    /\ UNCHANGED <<lru, cache, ent, now, janitor, life, evicted>>

\* Get: the element found expired is deleted, and ErrCacheWasExpired returned.
GetDelete(p) ==
    /\ pc[p] = "getDelete"
    /\ delete(reg[p].ele)
    /\ Return(p)
    /\ UNCHANGED <<ent, now, janitor, life>>

\* Mutated: a hit does not move the element to the back.
GetHitStays(p) ==
    /\ pc[p] = "getHit"
    /\ ent' = IF RenewOnGet
              THEN [ent EXCEPT ![reg[p].ele].expires = reg[p].now + Expiration]
              ELSE ent
    /\ Return(p)
    /\ UNCHANGED <<lru, cache, now, janitor, life, evicted>>

\* Get: a hit moves the element to the back and may renew it.
GetHit(p) ==
    /\ pc[p] = "getHit"
    /\ lru' = MoveToBack(lru, reg[p].ele)
    /\ ent' = IF RenewOnGet
              THEN [ent EXCEPT ![reg[p].ele].expires = reg[p].now + Expiration]
              ELSE ent
    /\ Return(p)
    /\ UNCHANGED <<cache, now, janitor, life, evicted>>

\* Set: the lookup under RLock decides between update and insertion.
SetLookup(p, k, v) ==
    /\ pc[p] = "idle"
    /\ Goto(p, IF cache[k] # NIL THEN "setUpdate" ELSE "setInsert")
    /\ reg' = [reg EXCEPT ![p] = [Idle EXCEPT !.key = k, !.val = v, !.ele = cache[k]]]
    /\ UNCHANGED <<lru, cache, ent, now, janitor, life, evicted>>

SetUpdate(p) ==
    /\ pc[p] = "setUpdate"
    /\ ent' = [ent EXCEPT ![reg[p].ele].val = reg[p].val,
                          ![reg[p].ele].expires = now + Expiration]
    /\ lru' = MoveToBack(lru, reg[p].ele)
    /\ Return(p)
    /\ UNCHANGED <<cache, now, janitor, life, evicted>>

\* Set evicts when the list has as many elements as it may have.
FullLate == Len(lru) > MaxSize
Full == Len(lru) = MaxSize

\* Elements nothing refers to.
Fresh == {e \in Elem : /\ e \notin Range(lru) \cup todo \cup {jele}
                       /\ \A k \in Key : cache[k] # e
                       /\ \A q \in Proc : reg[q].ele # e}

\* Set: insertion, after the front has made room when the list is full.  The key
\* is not looked up again.
SetInsert(p, e) ==
    /\ pc[p] = "setInsert" /\ e \in Fresh
    /\ LET full == Full
           out == Head(lru)
           k == reg[p].key
           kept == IF full THEN [cache EXCEPT ![ent[out].key] = NIL] ELSE cache
       IN /\ cache' = [kept EXCEPT ![k] = e]
          /\ lru' = Append(IF full THEN Without(lru, out) ELSE lru, e)
          /\ ent' = [ent EXCEPT ![e] = [key |-> k, val |-> reg[p].val,
                                        expires |-> now + Expiration]]
          /\ evicted' = [x \in Elem |-> IF x = e THEN 0
                                        ELSE IF full /\ x = out THEN Once(evicted[x])
                                        ELSE evicted[x]]
    /\ Return(p)
    /\ UNCHANGED <<now, janitor, life>>

Delete(p, k) ==
    /\ pc[p] = "idle" /\ cache[k] # NIL
    /\ delete(cache[k])
    /\ UNCHANGED <<ent, now, callers, janitor, life>>
-----------------------------------------------------------------------------
\* cleanup: the elements of the map, collected under RLock.
CleanupCollect ==
    /\ "check" \in workers /\ jpc = "select"
    /\ jpc' = "now"
    /\ todo' = {cache[k] : k \in Key} \ {NIL}
    /\ UNCHANGED <<lru, cache, ent, now, callers, jele, jnow, life, evicted>>

CleanupNow ==
    /\ jpc = "now"
    /\ jpc' = "loop" /\ jnow' = now
    /\ UNCHANGED <<lru, cache, ent, now, callers, todo, jele, life, evicted>>

\* Mutated: an entry that expires right now is kept.
CleanupReadStrict(e) ==
    /\ jpc = "loop" /\ e \in todo
    /\ todo' = todo \ {e}
    /\ IF ent[e].expires < jnow THEN jpc' = "delete" /\ jele' = e
                                ELSE UNCHANGED <<jpc, jele>>
    /\ UNCHANGED <<lru, cache, ent, now, callers, jnow, life, evicted>>

\* cleanup: one collected element's expiry is read, unlocked (map order is random).
CleanupRead(e) ==
    /\ jpc = "loop" /\ e \in todo
    /\ todo' = todo \ {e}
    /\ IF ent[e].expires <= jnow THEN jpc' = "delete" /\ jele' = e
                                 ELSE UNCHANGED <<jpc, jele>>
    /\ UNCHANGED <<lru, cache, ent, now, callers, jnow, life, evicted>>

CleanupDelete ==
    /\ jpc = "delete"
    /\ delete(jele)
    /\ jpc' = "loop" /\ jele' = NIL
    /\ UNCHANGED <<ent, now, callers, todo, jnow, life>>

\* Mutated: cleanup starts over instead of returning to the select.
CleanupEndAgain ==
    /\ jpc = "loop" /\ todo = {}
    /\ jpc' = "now" /\ jnow' = 0
    /\ UNCHANGED <<lru, cache, ent, now, callers, todo, jele, life, evicted>>

CleanupEnd ==
    /\ jpc = "loop" /\ todo = {}
    /\ jpc' = "select" /\ jnow' = 0
    /\ UNCHANGED <<lru, cache, ent, now, callers, todo, jele, life, evicted>>

\* updateTick stores the time of day.
Tick ==
    /\ "updateTick" \in workers /\ now < MaxNow
    /\ now' = now + 1
    /\ UNCHANGED <<lru, cache, ent, callers, janitor, life, evicted>>

\* Stop closes doneCh; each background goroutine sees it in its select.
Stop ==
    /\ MayStop /\ ~done
    /\ done' = TRUE
    /\ UNCHANGED <<lru, cache, ent, now, callers, janitor, workers, evicted>>

WorkerExit(w) ==
    /\ done /\ w \in workers /\ (w = "check" => jpc = "select")
    /\ workers' = workers \ {w}
    /\ UNCHANGED <<lru, cache, ent, now, callers, janitor, done, evicted>>
-----------------------------------------------------------------------------
Caller(p) ==
    \/ \E k \in Key : GetLookup(p, k) \/ Delete(p, k)
    \/ \E k \in Key, v \in Value : SetLookup(p, k, v)
    \/ GetRead(p) \/ GetDelete(p) \/ GetHit(p) \/ SetUpdate(p)
    \/ \E e \in Elem : SetInsert(p, e)

Cleanup ==
    \/ CleanupCollect \/ CleanupNow \/ CleanupDelete \/ CleanupEnd
    \/ \E e \in Elem : CleanupRead(e)

Next ==
    \/ \E p \in Proc : Caller(p)
    \/ Cleanup
    \/ Tick
    \/ Stop
    \/ \E w \in workers : WorkerExit(w)

Spec == Init /\ [][Next]_vars

\* The background goroutines are scheduled.  check leaves its loop through a
\* select, which picks among its ready cases at random: it cannot prefer the
\* timer to a closed doneCh for ever, hence strong fairness there.
FairSpec ==
    /\ Spec
    /\ WF_vars(Cleanup)
    /\ WF_vars(WorkerExit("updateTick"))
    /\ SF_vars(WorkerExit("check"))

\* The same cache when calls do not overlap, neither each other nor a cleanup.
SerialNext ==
    \/ \E p \in Proc : Caller(p) /\ jpc = "select" /\ \A q \in Proc \ {p} : pc[q] = "idle"
    \/ Cleanup /\ \A p \in Proc : pc[p] = "idle"
    \/ Tick
    \/ Stop
    \/ \E w \in workers : WorkerExit(w)

SerialSpec == Init /\ [][SerialNext]_vars
-----------------------------------------------------------------------------
Register == [key : Key \cup {NIL}, val : Value \cup {NIL}, ele : Elem \cup {NIL}, now : Nat]
Entry == [key : Key \cup {NIL}, val : Value \cup {NIL}, expires : Nat]

DataOK ==
    /\ lru \in Seq(Elem)
    /\ cache \in [Key -> Elem \cup {NIL}]
    /\ ent \in [Elem -> Entry]
    /\ now \in Nat
    /\ evicted \in [Elem -> 0..2]

CallerOK ==
    /\ pc \in [Proc -> {"idle", "getRead", "getDelete", "getHit", "setUpdate", "setInsert"}]
    /\ reg \in [Proc -> Register]
    /\ \A p \in Proc : /\ pc[p] \notin {"idle", "setInsert"} => reg[p].ele \in Elem
                       /\ pc[p] = "setInsert" => reg[p].key \in Key

JanitorOK ==
    /\ jpc \in {"select", "now", "loop", "delete"}
    /\ todo \subseteq Elem /\ jele \in Elem \cup {NIL} /\ jnow \in Nat
    /\ jpc = "delete" => jele \in Elem
    /\ workers \subseteq {"updateTick", "check"} /\ done \in BOOLEAN

\* The types of the state; a caller or the janitor that is about to use an
\* element has one, and a caller about to insert has a key.
TypeOK == DataOK /\ CallerOK /\ JanitorOK

\* However Get, Set, Delete and cleanup interleave, an element the map leads to
\* is in the recency list under that very key: what Get finds can still be
\* evicted, and the map never leads to another key's value.
MapWithinList ==
    \A k \in Key : cache[k] # NIL => cache[k] \in Range(lru) /\ ent[cache[k]].key = k

\* The cache never holds more than maxSize elements, elements that lost their map
\* entry to a race included (Set makes room only when Len is EQUAL to maxSize, so
\* one step past the limit would never be undone).
SizeBound == IsInjective(lru) /\ Len(lru) <= MaxSize

\* An entry that has expired does not stay: check removes it from the map, unless
\* a caller renews it or the cache is stopped.
ExpiredCollected ==
    \A k \in Key :
        (cache[k] # NIL /\ ent[cache[k]].expires <= now)
            ~> (cache[k] = NIL \/ ent[cache[k]].expires > now \/ done)

\* After Stop both background goroutines return, even one inside cleanup.
StopEndsWorkers == done ~> workers = {}

\* When calls do not overlap, evictFn runs exactly once for each element that
\* leaves the list, and for no other.
EvictedOnce ==
    \A e \in Elem :
        evicted[e] = IF e \in Range(lru) \/ ent[e].key = NIL THEN 0 ELSE 1

\* The serial cache this state stands for.
Abs == INSTANCE SerialCache WITH
    c <- [ord |-> [i \in DOMAIN lru |-> ent[lru[i]].key],
          ent |-> [k \in Key |-> IF cache[k] = NIL THEN NIL
                                 ELSE [val |-> ent[cache[k]].val,
                                       exp |-> ent[cache[k]].expires]]]

\* When calls do not overlap, every call is one atomic step of the LRU cache its
\* callers expect: the same hits, expiries and victims, in the same order.
ImplementsSerialCache == Abs!Spec
=============================================================================
