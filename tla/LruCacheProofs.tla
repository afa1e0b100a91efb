---------------------------- MODULE LruCacheProofs ----------------------------
(***************************************************************************)
(* The concurrent safety of util/cache, for any keys, callers, sizes and    *)
(* clock.                                                                  *)
(***************************************************************************)
EXTENDS LruCache, ListsProofs

\* Zenon proves the leaves, unless they name another backend.
USE ZenonT(30)

\* The types, the map inside the list and the size bound support one another.
IInv == TypeOK /\ MapWithinList /\ SizeBound

LEMMA InitIInv == Init => IInv
<1> SUFFICES ASSUME Init PROVE IInv
  OBVIOUS
<1> USE CacheAssumption DEF Init
<1>1. TypeOK
  <2>1. DataOK
    BY SMT DEF DataOK, Entry
  <2>2. CallerOK
    BY DEF CallerOK, Register, Idle
  <2>3. JanitorOK
    BY DEF JanitorOK
  <2> QED
    BY <2>1, <2>2, <2>3 DEF TypeOK
<1>2. MapWithinList
  BY DEF MapWithinList
<1>3. SizeBound
  BY SMT DEF SizeBound, IsInjective
<1> QED
  BY <1>1, <1>2, <1>3 DEF IInv

\* delete(ele) of any element, in the list or not, newest for its key or not.
LEMMA DeleteKeeps ==
    ASSUME IInv, NEW e \in Elem, delete(e), UNCHANGED ent
    PROVE  /\ lru' \in Seq(Elem)
           /\ cache' \in [Key -> Elem \cup {NIL}]
           /\ evicted' \in [Elem -> 0..2]
           /\ MapWithinList'
           /\ SizeBound'
<1> USE CacheAssumption DEF IInv
<1>1. lru \in Seq(Elem) /\ IsInjective(lru)
  BY DEF TypeOK, DataOK, SizeBound
<1>2. /\ lru' \in Seq(Elem)
      /\ Len(lru') <= Len(lru)
      /\ Range(lru') = Range(lru) \ {e}
      /\ IsInjective(lru')
  BY <1>1, WithoutAny DEF delete
<1>3. cache' \in [Key -> Elem \cup {NIL}]
  BY DEF delete, TypeOK, DataOK
<1>4. evicted' \in [Elem -> 0..2]
  BY SMT DEF delete, TypeOK, DataOK, Once
<1>5. MapWithinList'
  <2> SUFFICES ASSUME NEW k \in Key, cache'[k] # NIL
               PROVE  cache'[k] \in Range(lru') /\ ent'[cache'[k]].key = k
    BY DEF MapWithinList
  <2>1. cache'[k] = cache[k] /\ k # ent[e].key
    BY DEF delete, TypeOK, DataOK
  <2>2. cache[k] \in Range(lru) /\ ent[cache[k]].key = k
    BY <2>1 DEF MapWithinList
  <2> QED
    BY <1>2, <2>1, <2>2
<1>6. SizeBound'
  BY <1>1, <1>2, SMT DEF SizeBound
<1> QED
  BY <1>2, <1>3, <1>4, <1>5, <1>6

\* Touching an element and rewriting its value or expiry, but not its key.
LEMMA TouchKeeps ==
    ASSUME IInv, NEW e, lru' = MoveToBack(lru, e), UNCHANGED cache,
           ent' \in [Elem -> Entry], \A x \in Elem : ent'[x].key = ent[x].key
    PROVE  lru' \in Seq(Elem) /\ MapWithinList' /\ SizeBound'
<1> USE CacheAssumption DEF IInv
<1>1. /\ lru' \in Seq(Elem)
      /\ Len(lru') = Len(lru)
      /\ Range(lru') = Range(lru)
      /\ IsInjective(lru')
  BY MoveToBackKeeps DEF TypeOK, DataOK, SizeBound
<1>2. MapWithinList'
  BY <1>1, SMT DEF MapWithinList, TypeOK, DataOK
<1>3. SizeBound'
  BY <1>1 DEF SizeBound
<1> QED
  BY <1>1, <1>2, <1>3

\* Insertion: the front makes room, whatever it is, and the newcomer is fresh.
LEMMA InsertKeeps ==
    ASSUME IInv, NEW p \in Proc, NEW e \in Elem, SetInsert(p, e)
    PROVE  /\ lru' \in Seq(Elem)
           /\ cache' \in [Key -> Elem \cup {NIL}]
           /\ ent' \in [Elem -> Entry]
           /\ evicted' \in [Elem -> 0..2]
           /\ MapWithinList'
           /\ SizeBound'
<1> USE CacheAssumption DEF IInv
<1> DEFINE full == Len(lru) = MaxSize
           out == Head(lru)
           k == reg[p].key
           kept == IF full THEN [cache EXCEPT ![ent[out].key] = NIL] ELSE cache
           rest == IF full THEN Without(lru, out) ELSE lru
<1>1. /\ lru \in Seq(Elem) /\ IsInjective(lru) /\ Len(lru) <= MaxSize /\ Len(lru) \in Nat
      /\ k \in Key /\ e \notin Range(lru)
  BY SMT DEF TypeOK, DataOK, CallerOK, SizeBound, SetInsert, Full, Fresh
<1>2. /\ cache' = [kept EXCEPT ![k] = e]
      /\ lru' = Append(rest, e)
      /\ ent' = [ent EXCEPT ![e] = [key |-> k, val |-> reg[p].val, expires |-> now + Expiration]]
  BY DEF SetInsert, Full
<1>3. /\ rest \in Seq(Elem) /\ IsInjective(rest)
      /\ Len(rest) < MaxSize /\ Len(rest) \in Nat
      /\ Range(rest) = IF full THEN Range(lru) \ {out} ELSE Range(lru)
  <2>1. CASE full
    <3>1. out \in Range(lru)
      BY <1>1, <2>1, HeadIsMember, SMT
    <3> QED
      BY <1>1, <2>1, <3>1, WithoutMember, SMT
  <2>2. CASE ~full
    BY <1>1, <2>2, SMT
  <2> QED
    BY <2>1, <2>2
<1>4. /\ kept \in [Key -> Elem \cup {NIL}]
      /\ \A j \in Key : kept[j] # NIL =>
            kept[j] = cache[j] /\ (full => ent[out].key # j)
  BY DEF TypeOK, DataOK
<1>5. ent' \in [Elem -> Entry]
  BY <1>1, <1>2, SMT DEF TypeOK, DataOK, CallerOK, Entry, Register
<1>6. evicted' \in [Elem -> 0..2]
  <2>1. \A x \in Elem : Once(evicted[x]) \in 0..2
    BY SMT DEF TypeOK, DataOK, Once
  <2> QED
    BY <2>1, SMT DEF SetInsert, Full, TypeOK, DataOK
<1> HIDE DEF full, out, k, kept, rest
<1>7. /\ lru' \in Seq(Elem) /\ IsInjective(lru') /\ Len(lru') = Len(rest) + 1
      /\ Range(lru') = Range(rest) \cup {e}
  <2>1. e \notin Range(rest)
    BY <1>1, <1>3
  <2> QED
    BY <1>2, <1>3, <2>1, AppendNew, SMT
<1>8. cache' \in [Key -> Elem \cup {NIL}]
  BY <1>2, <1>4
<1>9. SizeBound'
  BY <1>3, <1>7, SMT DEF SizeBound
<1>10. MapWithinList'
  <2> SUFFICES ASSUME NEW j \in Key, cache'[j] # NIL
               PROVE  cache'[j] \in Range(lru') /\ ent'[cache'[j]].key = j
    BY DEF MapWithinList
  <2>1. CASE j = k
    BY <1>1, <1>2, <1>4, <1>7, <2>1 DEF TypeOK, DataOK
  <2>2. CASE j # k
    <3>1. cache'[j] = kept[j]
      BY <1>2, <1>4, <2>2
    <3>2. /\ cache[j] = cache'[j] /\ (full => ent[out].key # j)
          /\ cache[j] \in Range(lru) /\ ent[cache[j]].key = j
      BY <1>4, <3>1 DEF MapWithinList
    <3>3. cache[j] \in Range(rest) /\ cache[j] # e
      BY <1>1, <1>3, <3>2
    <3>4. cache[j] \in Elem
      BY <3>2 DEF TypeOK, DataOK
    <3> QED
      BY <1>2, <1>7, <3>2, <3>3, <3>4 DEF TypeOK, DataOK
  <2> QED
    BY <2>1, <2>2
<1> QED
  BY <1>5, <1>6, <1>7, <1>8, <1>9, <1>10

\* A caller that returns, or that leaves its locals alone, keeps its types.
LEMMA ReturnKeeps ==
    ASSUME CallerOK, NEW p \in Proc, Return(p)
    PROVE  CallerOK'
<1>1. Idle \in Register
  BY CacheAssumption DEF Idle, Register
<1> QED
  BY <1>1 DEF CallerOK, Return

LEMMA NextIInv == IInv /\ [Next]_vars => IInv'
<1> SUFFICES ASSUME IInv, [Next]_vars PROVE IInv'
  OBVIOUS
<1> USE CacheAssumption DEF IInv, TypeOK
<1>a. ASSUME UNCHANGED <<lru, cache, ent, now, evicted>>
      PROVE  DataOK' /\ MapWithinList' /\ SizeBound'
  <2>1. DataOK'
    BY <1>a DEF DataOK
  <2>2. MapWithinList'
    BY <1>a DEF MapWithinList
  <2>3. SizeBound'
    BY <1>a DEF SizeBound
  <2> QED
    BY <2>1, <2>2, <2>3
<1>b. ASSUME UNCHANGED callers PROVE CallerOK'
  BY <1>b DEF CallerOK, callers
<1>c. ASSUME UNCHANGED <<janitor, life>> PROVE JanitorOK'
  BY <1>c DEF JanitorOK, janitor, life
<1>1. ASSUME NEW p \in Proc, NEW k \in Key, GetLookup(p, k) PROVE IInv'
  <2>1. CallerOK'
    BY <1>1 DEF GetLookup, Goto, CallerOK, Register, Idle, DataOK
  <2> QED
    BY <1>1, <1>a, <1>c, <2>1 DEF GetLookup
<1>2. ASSUME NEW p \in Proc, GetRead(p) PROVE IInv'
  <2>1. CASE Return(p)
    BY <1>2, <1>a, <1>c, <2>1, ReturnKeeps DEF GetRead
  <2>2. CASE Goto(p, "getDelete") /\ UNCHANGED reg
    <3>1. CallerOK'
      BY <1>2, <2>2 DEF GetRead, Goto, CallerOK
    <3> QED
      BY <1>2, <1>a, <1>c, <3>1 DEF GetRead
  <2>3. CASE Goto(p, "getHit") /\ reg' = [reg EXCEPT ![p].now = now]
    <3>1. reg' \in [Proc -> Register] /\ \A q \in Proc : reg'[q].ele = reg[q].ele /\ reg'[q].key = reg[q].key
      <4>1. reg[p] \in Register /\ now \in Nat
        BY DEF CallerOK, DataOK
      <4>2. [reg[p] EXCEPT !.now = now] \in Register
        BY <4>1 DEF Register
      <4>3. reg' = [q \in Proc |-> IF q = p THEN [reg[p] EXCEPT !.now = now] ELSE reg[q]]
        BY <2>3 DEF CallerOK
      <4> QED
        BY <4>1, <4>2, <4>3 DEF CallerOK, Register
    <3>2. CallerOK'
      BY <1>2, <2>3, <3>1 DEF GetRead, Goto, CallerOK
    <3> QED
      BY <1>2, <1>a, <1>c, <3>2 DEF GetRead
  <2> QED
    BY <1>2, <2>1, <2>2, <2>3 DEF GetRead
<1>3. ASSUME NEW p \in Proc, GetDelete(p) PROVE IInv'
  <2>1. reg[p].ele \in Elem
    BY <1>3 DEF GetDelete, CallerOK
  <2>2. /\ lru' \in Seq(Elem) /\ cache' \in [Key -> Elem \cup {NIL}]
        /\ evicted' \in [Elem -> 0..2] /\ MapWithinList' /\ SizeBound'
    BY <1>3, <2>1, DeleteKeeps DEF GetDelete
  <2>3. DataOK'
    BY <1>3, <2>2 DEF GetDelete, DataOK
  <2> QED
    BY <1>3, <1>c, <2>2, <2>3, ReturnKeeps DEF GetDelete
<1>4. ASSUME NEW p \in Proc, GetHit(p) PROVE IInv'
  <2>1. ent' \in [Elem -> Entry] /\ \A x \in Elem : ent'[x].key = ent[x].key
    <3>1. reg[p].now + Expiration \in Nat /\ ent \in [Elem -> Entry]
      BY SMT DEF CallerOK, Register, DataOK
    <3>2. CASE ent' = ent
      BY <3>1, <3>2
    <3>3. CASE ent' = [ent EXCEPT ![reg[p].ele].expires = reg[p].now + Expiration]
      BY <3>1, <3>3 DEF Entry
    <3> QED
      BY <1>4, <3>2, <3>3 DEF GetHit
  <2>2. lru' \in Seq(Elem) /\ MapWithinList' /\ SizeBound'
    BY <1>4, <2>1, TouchKeeps DEF GetHit
  <2>3. DataOK'
    BY <1>4, <2>1, <2>2 DEF GetHit, DataOK
  <2> QED
    BY <1>4, <1>c, <2>2, <2>3, ReturnKeeps DEF GetHit
<1>5. ASSUME NEW p \in Proc, NEW k \in Key, NEW v \in Value, SetLookup(p, k, v) PROVE IInv'
  <2>1. cache[k] \in Elem \cup {NIL}
    BY DEF DataOK
  <2>2. reg' \in [Proc -> Register] /\ reg'[p].key = k /\ reg'[p].ele = cache[k]
        /\ \A q \in Proc : q # p => reg'[q] = reg[q]
    BY <1>5, <2>1 DEF SetLookup, CallerOK, Register, Idle
  <2>3. CallerOK'
    BY <1>5, <2>1, <2>2 DEF SetLookup, Goto, CallerOK
  <2> QED
    BY <1>5, <1>a, <1>c, <2>3 DEF SetLookup
<1>6. ASSUME NEW p \in Proc, SetUpdate(p) PROVE IInv'
  <2>1. ent' \in [Elem -> Entry] /\ \A x \in Elem : ent'[x].key = ent[x].key
    <3>1. now + Expiration \in Nat /\ ent \in [Elem -> Entry] /\ reg[p].val \in Value \cup {NIL}
      BY SMT DEF CallerOK, Register, DataOK
    <3>2. ent' = [x \in Elem |-> IF x = reg[p].ele
                                 THEN [ent[x] EXCEPT !.val = reg[p].val, !.expires = now + Expiration]
                                 ELSE ent[x]]
      BY <1>6, <3>1 DEF SetUpdate
    <3> QED
      BY <3>1, <3>2 DEF Entry
  <2>2. lru' \in Seq(Elem) /\ MapWithinList' /\ SizeBound'
    BY <1>6, <2>1, TouchKeeps DEF SetUpdate
  <2>3. DataOK'
    BY <1>6, <2>1, <2>2 DEF SetUpdate, DataOK
  <2> QED
    BY <1>6, <1>c, <2>2, <2>3, ReturnKeeps DEF SetUpdate
<1>7. ASSUME NEW p \in Proc, NEW e \in Elem, SetInsert(p, e) PROVE IInv'
  <2>1. /\ lru' \in Seq(Elem) /\ cache' \in [Key -> Elem \cup {NIL}]
        /\ ent' \in [Elem -> Entry] /\ evicted' \in [Elem -> 0..2]
        /\ MapWithinList' /\ SizeBound'
    BY <1>7, InsertKeeps
  <2>2. DataOK'
    BY <1>7, <2>1 DEF SetInsert, Full, DataOK
  <2> QED
    BY <1>7, <1>c, <2>1, <2>2, ReturnKeeps DEF SetInsert, Full
<1>8. ASSUME NEW p \in Proc, NEW k \in Key, Delete(p, k) PROVE IInv'
  <2>1. cache[k] \in Elem
    BY <1>8 DEF Delete, DataOK
  <2>2. /\ lru' \in Seq(Elem) /\ cache' \in [Key -> Elem \cup {NIL}]
        /\ evicted' \in [Elem -> 0..2] /\ MapWithinList' /\ SizeBound'
    BY <1>8, <2>1, DeleteKeeps DEF Delete
  <2>3. DataOK'
    BY <1>8, <2>2 DEF Delete, DataOK
  <2> QED
    BY <1>8, <1>b, <1>c, <2>2, <2>3 DEF Delete
<1>9. ASSUME CleanupCollect \/ CleanupNow \/ CleanupEnd \/ \E e \in Elem : CleanupRead(e)
      PROVE  IInv'
  <2>1. UNCHANGED <<lru, cache, ent, now, evicted>> /\ UNCHANGED callers
    BY <1>9 DEF CleanupCollect, CleanupNow, CleanupEnd, CleanupRead
  <2>2. JanitorOK'
    <3>1. CASE CleanupCollect
      BY <3>1, SMT DEF CleanupCollect, JanitorOK, DataOK, life
    <3>2. CASE CleanupNow
      BY <3>2 DEF CleanupNow, JanitorOK, DataOK, life
    <3>3. CASE CleanupEnd
      BY <3>3 DEF CleanupEnd, JanitorOK, life
    <3>4. CASE \E e \in Elem : CleanupRead(e)
      BY <3>4 DEF CleanupRead, JanitorOK, life
    <3> QED
      BY <1>9, <3>1, <3>2, <3>3, <3>4
  <2> QED
    BY <1>a, <1>b, <2>1, <2>2
<1>10. ASSUME CleanupDelete PROVE IInv'
  <2>1. jele \in Elem
    BY <1>10 DEF CleanupDelete, JanitorOK
  <2>2. /\ lru' \in Seq(Elem) /\ cache' \in [Key -> Elem \cup {NIL}]
        /\ evicted' \in [Elem -> 0..2] /\ MapWithinList' /\ SizeBound'
    BY <1>10, <2>1, DeleteKeeps DEF CleanupDelete
  <2>3. DataOK'
    BY <1>10, <2>2 DEF CleanupDelete, DataOK
  <2>4. JanitorOK'
    BY <1>10 DEF CleanupDelete, JanitorOK, life
  <2> QED
    BY <1>10, <1>b, <2>2, <2>3, <2>4 DEF CleanupDelete
<1>11. ASSUME Tick PROVE IInv'
  <2>1. DataOK'
    BY <1>11, SMT DEF Tick, DataOK
  <2>2. MapWithinList' /\ SizeBound'
    BY <1>11 DEF Tick, MapWithinList, SizeBound
  <2> QED
    BY <1>11, <1>b, <1>c, <2>1, <2>2 DEF Tick
<1>12. ASSUME Stop \/ \E w \in workers : WorkerExit(w) PROVE IInv'
  <2>1. UNCHANGED <<lru, cache, ent, now, evicted>> /\ UNCHANGED callers
    BY <1>12 DEF Stop, WorkerExit
  <2>2. JanitorOK'
    BY <1>12 DEF Stop, WorkerExit, JanitorOK, janitor
  <2> QED
    BY <1>a, <1>b, <2>1, <2>2
<1>13. CASE UNCHANGED vars
  BY <1>13, <1>a, <1>b, <1>c DEF vars
<1> QED
  BY <1>1, <1>2, <1>3, <1>4, <1>5, <1>6, <1>7, <1>8, <1>9, <1>10, <1>11, <1>12, <1>13
     DEF Next, Caller, Cleanup

\* The state keeps its types: no caller and no janitor is ever about to use an
\* element it does not have.
THEOREM TypeCorrect == Spec => []TypeOK
<1>1. IInv => TypeOK
  BY DEF IInv
<1> QED
  BY <1>1, InitIInv, NextIInv, PTL DEF Spec

\* Whatever the interleaving of Get, Set, Delete and cleanup, the map only leads
\* to elements of the recency list, under their own key.
THEOREM MapStaysWithinList == Spec => []MapWithinList
<1>1. IInv => MapWithinList
  BY DEF IInv
<1> QED
  BY <1>1, InitIInv, NextIInv, PTL DEF Spec

\* Whatever the interleaving, the recency list has no repetition and never grows
\* past maxSize.
THEOREM SizeStaysBounded == Spec => []SizeBound
<1>1. IInv => SizeBound
  BY DEF IInv
<1> QED
  BY <1>1, InitIInv, NextIInv, PTL DEF Spec
-----------------------------------------------------------------------------
(***************************************************************************)
(* Calls that do not overlap: SerialSpec.                                  *)
(***************************************************************************)

\* At most one caller is inside a call, and none during a cleanup.
OneAtATime ==
    /\ \A p, q \in Proc : pc[p] # "idle" /\ pc[q] # "idle" => p = q
    /\ jpc # "select" => \A p \in Proc : pc[p] = "idle"

\* The converse of MapWithinList, which overlapping calls break.
ListWithinMap ==
    \A e \in Range(lru) : ent[e].key \in Key /\ cache[ent[e].key] = e

\* What a caller learnt in its earlier steps is still so.
CallerKnows ==
    \A p \in Proc :
        /\ pc[p] \in {"getRead", "getDelete", "getHit", "setUpdate"} => reg[p].ele \in Range(lru)
        /\ pc[p] = "getDelete" => DeleteOnGet /\ ent[reg[p].ele].expires <= now
        /\ pc[p] = "getHit" => reg[p].now <= now /\ reg[p].now < ent[reg[p].ele].expires
        /\ pc[p] = "setUpdate" => reg[p].key = ent[reg[p].ele].key /\ reg[p].val \in Value
        /\ pc[p] = "setInsert" => cache[reg[p].key] = NIL /\ reg[p].val \in Value

\* What cleanup collected is still in the list, and a finished one forgot it.
JanitorKnows ==
    /\ todo \subseteq Range(lru)
    /\ jpc = "select" => todo = {}
    /\ jpc = "delete" => jele \in Range(lru) \ todo

SerialInv ==
    IInv /\ OneAtATime /\ ListWithinMap /\ CallerKnows /\ JanitorKnows /\ EvictedOnce

LEMMA InitSerialInv == Init => SerialInv
<1> SUFFICES ASSUME Init PROVE SerialInv
  OBVIOUS
<1>1. IInv
  BY InitIInv
<1>2. Range(lru) = {}
  BY SMT DEF Init, Range
<1>3. OneAtATime
  BY DEF Init, OneAtATime
<1>4. CallerKnows
  BY DEF Init, CallerKnows
<1>5. ListWithinMap /\ JanitorKnows
  BY <1>2 DEF Init, ListWithinMap, JanitorKnows
<1>6. EvictedOnce
  BY <1>2 DEF Init, EvictedOnce
<1> QED
  BY <1>1, <1>3, <1>4, <1>5, <1>6 DEF SerialInv

\* delete(ele) of an element of the list, when the map and the list agree.
LEMMA SerialDelete ==
    ASSUME SerialInv, NEW e \in Range(lru), delete(e), UNCHANGED ent
    PROVE  /\ Range(lru') = Range(lru) \ {e}
           /\ ListWithinMap'
           /\ EvictedOnce'
<1> USE CacheAssumption DEF SerialInv
<1>1. /\ lru \in Seq(Elem) /\ IsInjective(lru) /\ e \in Elem
      /\ cache \in [Key -> Elem \cup {NIL}] /\ evicted \in [Elem -> 0..2]
  BY SMT DEF IInv, TypeOK, DataOK, SizeBound, Range
<1>2. Range(lru') = Range(lru) \ {e}
  BY <1>1, WithoutMember DEF delete
<1>3. ent[e].key \in Key /\ cache[ent[e].key] = e
  BY DEF ListWithinMap
<1>4. ListWithinMap'
  <2> SUFFICES ASSUME NEW x \in Range(lru), x # e
               PROVE  ent[x].key \in Key /\ cache'[ent[x].key] = x
    BY <1>2 DEF ListWithinMap
  <2>1. ent[x].key \in Key /\ cache[ent[x].key] = x
    BY DEF ListWithinMap
  <2>2. ent[x].key # ent[e].key
    BY <1>3, <2>1
  <2> QED
    BY <1>1, <2>1, <2>2 DEF delete
<1>5. EvictedOnce'
  <2> SUFFICES ASSUME NEW x \in Elem
               PROVE  evicted'[x] = IF x \in Range(lru') \/ ent[x].key = NIL THEN 0 ELSE 1
    BY DEF EvictedOnce
  <2>1. CASE x = e
    <3>1. evicted[e] = 0
      BY <1>1 DEF EvictedOnce
    <3>2. evicted'[e] = 1
      BY <1>1, <3>1, SMT DEF delete, Once
    <3> QED
      BY <1>2, <1>3, <2>1, <3>2
  <2>2. CASE x # e
    <3>1. evicted'[x] = evicted[x]
      BY <1>1, <2>2 DEF delete
    <3> QED
      BY <1>2, <2>2, <3>1 DEF EvictedOnce
  <2> QED
    BY <2>1, <2>2
<1> QED
  BY <1>2, <1>4, <1>5

\* Moving an element to the back, its key and everybody's counter unchanged.
LEMMA SerialTouch ==
    ASSUME SerialInv, NEW e, lru' = MoveToBack(lru, e), UNCHANGED <<cache, evicted>>,
           \A x \in Elem : ent'[x].key = ent[x].key
    PROVE  /\ Range(lru') = Range(lru)
           /\ ListWithinMap'
           /\ EvictedOnce'
<1> USE DEF SerialInv
<1>1. lru \in Seq(Elem) /\ IsInjective(lru) /\ Range(lru) \subseteq Elem
  BY SMT DEF IInv, TypeOK, DataOK, SizeBound, Range
<1>2. Range(lru') = Range(lru)
  BY <1>1, MoveToBackKeeps
<1>3. ListWithinMap'
  BY <1>1, <1>2 DEF ListWithinMap
<1>4. EvictedOnce'
  BY <1>2 DEF EvictedOnce
<1> QED
  BY <1>2, <1>3, <1>4

\* Insertion of an absent key, when the map and the list agree.
LEMMA SerialInsert ==
    ASSUME SerialInv, NEW p \in Proc, NEW e \in Elem, SetInsert(p, e)
    PROVE  /\ ListWithinMap'
           /\ EvictedOnce'
<1> USE CacheAssumption DEF SerialInv
<1> DEFINE full == Len(lru) = MaxSize
           out == Head(lru)
           k == reg[p].key
           kept == IF full THEN [cache EXCEPT ![ent[out].key] = NIL] ELSE cache
           rest == IF full THEN Without(lru, out) ELSE lru
<1>1. /\ lru \in Seq(Elem) /\ IsInjective(lru) /\ Len(lru) \in Nat
      /\ cache \in [Key -> Elem \cup {NIL}] /\ ent \in [Elem -> Entry]
      /\ evicted \in [Elem -> 0..2]
      /\ k \in Key /\ cache[k] = NIL
      /\ e \notin Range(lru) /\ Range(lru) \subseteq Elem
  <2>1. /\ lru \in Seq(Elem) /\ IsInjective(lru) /\ Len(lru) \in Nat
        /\ cache \in [Key -> Elem \cup {NIL}] /\ ent \in [Elem -> Entry]
        /\ evicted \in [Elem -> 0..2]
    BY SMT DEF IInv, TypeOK, DataOK, SizeBound
  <2>2. k \in Key /\ cache[k] = NIL
    BY DEF IInv, TypeOK, CallerOK, SetInsert, CallerKnows
  <2>3. e \notin Range(lru)
    BY DEF SetInsert, Fresh
  <2> QED
    BY <2>1, <2>2, <2>3, MembersInSet
<1>2. /\ cache' = [kept EXCEPT ![k] = e]
      /\ lru' = Append(rest, e)
      /\ ent' = [ent EXCEPT ![e] = [key |-> k, val |-> reg[p].val, expires |-> now + Expiration]]
      /\ evicted' = [x \in Elem |-> IF x = e THEN 0
                                    ELSE IF full /\ x = out THEN Once(evicted[x])
                                    ELSE evicted[x]]
  BY DEF SetInsert, Full
<1>3. full => out \in Range(lru)
  BY <1>1, HeadIsMember, SMT
<1>4. /\ rest \in Seq(Elem) /\ IsInjective(rest)
      /\ Range(rest) = IF full THEN Range(lru) \ {out} ELSE Range(lru)
  BY <1>1, <1>3, WithoutMember
<1>5. kept \in [Key -> Elem \cup {NIL}]
  BY <1>1
<1>6. \A x \in Range(rest) : /\ ent[x].key \in Key /\ ent[x].key # k
                             /\ kept[ent[x].key] = x
  <2> SUFFICES ASSUME NEW x \in Range(rest)
               PROVE  ent[x].key \in Key /\ ent[x].key # k /\ kept[ent[x].key] = x
    OBVIOUS
  <2>1. x \in Range(lru) /\ x \in Elem /\ (full => x # out)
    BY <1>1, <1>4
  <2>2. ent[x].key \in Key /\ cache[ent[x].key] = x
    BY <2>1 DEF ListWithinMap
  <2>3. ent[x].key # k
    BY <1>1, <2>1, <2>2
  <2>4. full => ent[out].key # ent[x].key
    BY <1>3, <2>1, <2>2 DEF ListWithinMap
  <2> QED
    BY <1>1, <2>2, <2>3, <2>4
<1> HIDE DEF full, out, k, kept, rest
<1>7. Range(lru') = Range(rest) \cup {e}
  BY <1>1, <1>2, <1>4, AppendNew, SMT
<1>8. ListWithinMap'
  <2> SUFFICES ASSUME NEW x \in Range(rest) \cup {e}
               PROVE  ent'[x].key \in Key /\ cache'[ent'[x].key] = x
    BY <1>7 DEF ListWithinMap
  <2>1. CASE x = e
    BY <1>1, <1>2, <1>5, <2>1
  <2>2. CASE x # e
    <3>1. x \in Range(rest) /\ x \in Elem /\ ent'[x] = ent[x]
      BY <1>1, <1>2, <1>4, <2>2
    <3> QED
      BY <1>2, <1>5, <1>6, <3>1
  <2> QED
    BY <2>1, <2>2
<1>9. EvictedOnce'
  <2> SUFFICES ASSUME NEW x \in Elem
               PROVE  evicted'[x] = IF x \in Range(lru') \/ ent'[x].key = NIL THEN 0 ELSE 1
    BY DEF EvictedOnce
  <2>1. CASE x = e
    BY <1>2, <1>7, <2>1
  <2>2. CASE x # e /\ full /\ x = out
    <3>1. evicted[x] = 0 /\ ent[x].key # NIL
      BY <1>3, <2>2 DEF EvictedOnce, ListWithinMap
    <3>2. evicted'[x] = 1
      BY <1>2, <2>2, <3>1, SMT DEF Once
    <3>3. x \notin Range(lru') /\ ent'[x] = ent[x]
      BY <1>1, <1>2, <1>4, <1>7, <2>2
    <3> QED
      BY <3>1, <3>2, <3>3
  <2>3. CASE x # e /\ ~(full /\ x = out)
    <3>1. evicted'[x] = evicted[x] /\ ent'[x] = ent[x]
      BY <1>1, <1>2, <2>3
    <3>2. x \in Range(lru') <=> x \in Range(lru)
      BY <1>4, <1>7, <2>3
    <3> QED
      BY <3>1, <3>2 DEF EvictedOnce
  <2> QED
    BY <2>1, <2>2, <2>3
<1> QED
  BY <1>8, <1>9

\* Nobody but p is inside a call.
Alone(p) == jpc = "select" /\ \A q \in Proc \ {p} : pc[q] = "idle"

\* When the only call returns, nobody relies on anything.
LEMMA SerialReturn ==
    ASSUME SerialInv, NEW p \in Proc, Alone(p), Return(p) \/ (pc[p] = "idle" /\ UNCHANGED callers),
           UNCHANGED janitor
    PROVE  OneAtATime' /\ CallerKnows' /\ JanitorKnows'
<1>1. pc \in [Proc -> {"idle", "getRead", "getDelete", "getHit", "setUpdate", "setInsert"}]
  BY DEF SerialInv, IInv, TypeOK, CallerOK
<1>2. \A q \in Proc : pc'[q] = "idle"
  BY <1>1 DEF Alone, Return, callers
<1>3. jpc' = "select" /\ todo' = {}
  BY DEF Alone, janitor, SerialInv, JanitorKnows
<1>4. OneAtATime'
  BY <1>2 DEF OneAtATime
<1>5. CallerKnows'
  BY <1>2 DEF CallerKnows
<1>6. JanitorKnows'
  BY <1>3 DEF JanitorKnows
<1> QED
  BY <1>4, <1>5, <1>6

\* A step of the only call that leaves the cache alone.
LEMMA SerialLookup ==
    ASSUME SerialInv, NEW p \in Proc, Alone(p),
           (\E k \in Key : GetLookup(p, k)) \/ GetRead(p)
               \/ \E k \in Key, v \in Value : SetLookup(p, k, v)
    PROVE  OneAtATime' /\ CallerKnows' /\ JanitorKnows'
<1> USE CacheAssumption
<1>1. /\ pc \in [Proc -> {"idle", "getRead", "getDelete", "getHit", "setUpdate", "setInsert"}]
      /\ reg \in [Proc -> Register]
      /\ cache \in [Key -> Elem \cup {NIL}] /\ now \in Nat /\ ent \in [Elem -> Entry]
      /\ Range(lru) \subseteq Elem
  <2>1. lru \in Seq(Elem)
    BY DEF SerialInv, IInv, TypeOK, DataOK
  <2>2. Range(lru) \subseteq Elem
    BY <2>1, MembersInSet
  <2> QED
    BY <2>2 DEF SerialInv, IInv, TypeOK, CallerOK, DataOK
<1>2. /\ UNCHANGED <<lru, cache, ent, now, janitor>>
      /\ \A q \in Proc \ {p} : pc'[q] = "idle"
  BY <1>1 DEF GetLookup, GetRead, SetLookup, Goto, Return, Alone
<1>3. JanitorKnows'
  BY <1>2 DEF SerialInv, JanitorKnows, janitor
<1>4. OneAtATime'
  BY <1>2 DEF OneAtATime, Alone, janitor
<1>5. CallerKnows'
  <2>1. ASSUME NEW k \in Key, GetLookup(p, k) PROVE CallerKnows'
    <3>1. pc'[p] = "getRead" /\ reg'[p].ele = cache[k] /\ cache[k] # NIL
      BY <1>1, <2>1 DEF GetLookup, Goto, Idle
    <3>2. cache[k] \in Range(lru)
      BY <3>1 DEF SerialInv, IInv, MapWithinList
    <3> QED
      BY <1>2, <3>1, <3>2 DEF CallerKnows
  <2>2. ASSUME GetRead(p) PROVE CallerKnows'
    <3>1. reg[p].ele \in Range(lru) /\ reg[p].ele \in Elem
      BY <1>1, <2>2 DEF GetRead, SerialInv, CallerKnows
    <3>2. ent[reg[p].ele].expires \in Nat
      BY <1>1, <3>1 DEF Entry
    <3>3. CASE Return(p)
      <4>1. pc'[p] = "idle"
        BY <1>1, <3>3 DEF Return
      <4> QED
        BY <1>2, <4>1 DEF CallerKnows
    <3>4. CASE now >= ent[reg[p].ele].expires /\ DeleteOnGet
      <4>1. pc'[p] = "getDelete" /\ reg' = reg
        BY <1>1, <2>2, <3>4 DEF GetRead, Goto
      <4> QED
        BY <1>1, <1>2, <3>1, <3>2, <3>4, <4>1 DEF CallerKnows
    <3>5. CASE ~(now >= ent[reg[p].ele].expires)
      <4>1. pc'[p] = "getHit" /\ reg' = [reg EXCEPT ![p].now = now]
        BY <1>1, <2>2, <3>5 DEF GetRead, Goto
      <4>2. reg'[p].ele = reg[p].ele /\ reg'[p].now = now
        BY <1>1, <4>1, SMT DEF Register
      <4>3. now < ent[reg[p].ele].expires /\ now <= now
        BY <1>1, <3>2, <3>5, SMT
      <4> QED
        BY <1>2, <3>1, <4>1, <4>2, <4>3 DEF CallerKnows
    <3> QED
      BY <2>2, <3>3, <3>4, <3>5 DEF GetRead
  <2>3. ASSUME NEW k \in Key, NEW v \in Value, SetLookup(p, k, v) PROVE CallerKnows'
    <3>1. /\ pc'[p] = IF cache[k] # NIL THEN "setUpdate" ELSE "setInsert"
          /\ reg'[p].key = k /\ reg'[p].val = v /\ reg'[p].ele = cache[k]
      BY <1>1, <2>3 DEF SetLookup, Goto, Idle
    <3>2. cache[k] # NIL => cache[k] \in Range(lru) /\ ent[cache[k]].key = k
      BY DEF SerialInv, IInv, MapWithinList
    <3> QED
      BY <1>2, <3>1, <3>2 DEF CallerKnows
  <2> QED
    BY <2>1, <2>2, <2>3
<1> QED
  BY <1>3, <1>4, <1>5

LEMMA NextSerialInv == SerialInv /\ [SerialNext]_vars => SerialInv'
<1> SUFFICES ASSUME SerialInv, [SerialNext]_vars PROVE SerialInv'
  OBVIOUS
<1>1. IInv'
  BY NextIInv DEF SerialInv, SerialNext, Next
<1>a. ASSUME UNCHANGED <<lru, cache, ent, evicted>>
      PROVE  ListWithinMap' /\ EvictedOnce'
  BY <1>a DEF SerialInv, ListWithinMap, EvictedOnce
<1>2. ASSUME NEW p \in Proc, Caller(p), Alone(p) PROVE SerialInv'
  <2>1. CASE (\E k \in Key : GetLookup(p, k)) \/ GetRead(p)
                \/ \E k \in Key, v \in Value : SetLookup(p, k, v)
    <3>1. OneAtATime' /\ CallerKnows' /\ JanitorKnows'
      BY <1>2, <2>1, SerialLookup
    <3>2. UNCHANGED <<lru, cache, ent, evicted>>
      BY <2>1 DEF GetLookup, GetRead, SetLookup
    <3> QED
      BY <1>1, <1>a, <3>1, <3>2 DEF SerialInv
  <2>2. ASSUME NEW k \in Key, Delete(p, k) PROVE SerialInv'
    <3>1. cache[k] \in Range(lru)
      BY <2>2 DEF Delete, SerialInv, IInv, MapWithinList
    <3>2. ListWithinMap' /\ EvictedOnce'
      BY <2>2, <3>1, SerialDelete DEF Delete
    <3>3. OneAtATime' /\ CallerKnows' /\ JanitorKnows'
      BY <1>2, <2>2, SerialReturn DEF Delete
    <3> QED
      BY <1>1, <3>2, <3>3 DEF SerialInv
  <2>3. CASE GetDelete(p)
    <3>1. reg[p].ele \in Range(lru)
      BY <2>3 DEF GetDelete, SerialInv, CallerKnows
    <3>2. ListWithinMap' /\ EvictedOnce'
      BY <2>3, <3>1, SerialDelete DEF GetDelete
    <3>3. OneAtATime' /\ CallerKnows' /\ JanitorKnows'
      BY <1>2, <2>3, SerialReturn DEF GetDelete
    <3> QED
      BY <1>1, <3>2, <3>3 DEF SerialInv
  <2>4. CASE GetHit(p) \/ SetUpdate(p)
    <3>1. \A x \in Elem : ent'[x].key = ent[x].key
      <4>1. ent \in [Elem -> Entry]
        BY DEF SerialInv, IInv, TypeOK, DataOK
      <4> QED
        BY <2>4, <4>1, SMT DEF GetHit, SetUpdate, Entry
    <3>2. lru' = MoveToBack(lru, reg[p].ele) /\ UNCHANGED <<cache, evicted>>
      BY <2>4 DEF GetHit, SetUpdate
    <3>3. ListWithinMap' /\ EvictedOnce'
      BY <3>1, <3>2, SerialTouch
    <3>4. OneAtATime' /\ CallerKnows' /\ JanitorKnows'
      BY <1>2, <2>4, SerialReturn DEF GetHit, SetUpdate
    <3> QED
      BY <1>1, <3>3, <3>4 DEF SerialInv
  <2>5. ASSUME NEW e \in Elem, SetInsert(p, e) PROVE SerialInv'
    <3>1. ListWithinMap' /\ EvictedOnce'
      BY <2>5, SerialInsert
    <3>2. Return(p) /\ UNCHANGED janitor
      BY <2>5 DEF SetInsert
    <3>3. OneAtATime' /\ CallerKnows' /\ JanitorKnows'
      BY <1>2, <3>2, SerialReturn
    <3> QED
      BY <1>1, <3>1, <3>3 DEF SerialInv
  <2> QED
    BY <1>2, <2>1, <2>2, <2>3, <2>4, <2>5 DEF Caller
<1>3. ASSUME Cleanup, \A p \in Proc : pc[p] = "idle" PROVE SerialInv'
  <2>1. UNCHANGED callers
    BY <1>3 DEF Cleanup, CleanupCollect, CleanupNow, CleanupDelete, CleanupEnd, CleanupRead
  <2>2. OneAtATime' /\ CallerKnows'
    <3>1. \A p \in Proc : pc'[p] = "idle"
      BY <1>3, <2>1 DEF callers
    <3> QED
      BY <3>1 DEF OneAtATime, CallerKnows
  <2>3. CASE CleanupDelete
    <3>1. jele \in Range(lru) \ todo /\ todo \subseteq Range(lru)
      BY <2>3 DEF CleanupDelete, SerialInv, JanitorKnows
    <3>2. Range(lru') = Range(lru) \ {jele} /\ ListWithinMap' /\ EvictedOnce'
      BY <2>3, <3>1, SerialDelete DEF CleanupDelete
    <3>3. JanitorKnows'
      BY <2>3, <3>1, <3>2 DEF CleanupDelete, JanitorKnows
    <3> QED
      BY <1>1, <2>2, <3>2, <3>3 DEF SerialInv
  <2>4. CASE ~CleanupDelete
    <3>1. UNCHANGED <<lru, cache, ent, evicted>>
      BY <1>3, <2>4 DEF Cleanup, CleanupCollect, CleanupNow, CleanupEnd, CleanupRead
    <3>2. JanitorKnows'
      <4>1. CASE CleanupCollect
        <5>1. todo' \subseteq Range(lru)
          BY <4>1 DEF CleanupCollect, SerialInv, IInv, MapWithinList
        <5> QED
          BY <3>1, <4>1, <5>1 DEF CleanupCollect, JanitorKnows
      <4>2. CASE CleanupNow
        BY <3>1, <4>2 DEF CleanupNow, SerialInv, JanitorKnows
      <4>3. CASE CleanupEnd
        BY <3>1, <4>3 DEF CleanupEnd, SerialInv, JanitorKnows
      <4>4. ASSUME NEW e \in Elem, CleanupRead(e) PROVE JanitorKnows'
        BY <3>1, <4>4 DEF CleanupRead, SerialInv, JanitorKnows
      <4> QED
        BY <1>3, <2>4, <4>1, <4>2, <4>3, <4>4 DEF Cleanup
    <3> QED
      BY <1>1, <1>a, <2>2, <3>1, <3>2 DEF SerialInv
  <2> QED
    BY <2>3, <2>4
<1>4. ASSUME Tick PROVE SerialInv'
  <2>1. /\ UNCHANGED <<lru, cache, ent, evicted>>
        /\ UNCHANGED callers /\ UNCHANGED janitor /\ now' = now + 1
    BY <1>4 DEF Tick
  <2>2. OneAtATime' /\ JanitorKnows'
    BY <2>1 DEF SerialInv, OneAtATime, JanitorKnows, callers, janitor
  <2>3. CallerKnows'
    <3> SUFFICES ASSUME NEW p \in Proc
                 PROVE  /\ pc[p] = "getDelete" => ent[reg[p].ele].expires <= now + 1
                        /\ pc[p] = "getHit" => reg[p].now <= now + 1
      BY <2>1 DEF SerialInv, CallerKnows, callers
    <3>1. now \in Nat /\ reg \in [Proc -> Register] /\ ent \in [Elem -> Entry]
      BY DEF SerialInv, IInv, TypeOK, DataOK, CallerOK
    <3>2. reg[p].now \in Nat
      BY <3>1 DEF Register
    <3>3. pc[p] = "getDelete" => ent[reg[p].ele].expires \in Nat
      BY <3>1 DEF SerialInv, IInv, TypeOK, CallerOK, Entry
    <3> QED
      BY <3>1, <3>2, <3>3, SMT DEF SerialInv, CallerKnows
  <2> QED
    BY <1>1, <1>a, <2>1, <2>2, <2>3 DEF SerialInv
<1>5. ASSUME \/ Stop
             \/ \E w \in workers : WorkerExit(w)
             \/ UNCHANGED vars
      PROVE  SerialInv'
  <2>1. /\ UNCHANGED <<lru, cache, ent, evicted, now>>
        /\ UNCHANGED callers /\ UNCHANGED janitor
    BY <1>5 DEF Stop, WorkerExit, vars
  <2>2. OneAtATime' /\ JanitorKnows' /\ CallerKnows'
    BY <2>1 DEF SerialInv, OneAtATime, JanitorKnows, CallerKnows, callers, janitor
  <2> QED
    BY <1>1, <1>a, <2>1, <2>2 DEF SerialInv
<1> QED
  BY <1>2, <1>3, <1>4, <1>5 DEF SerialNext, Alone

\* When calls do not overlap, evictFn runs exactly once for each element that
\* leaves the list by eviction, expiry, Delete or cleanup, and for no other.
THEOREM EvictionsAreReportedOnce == SerialSpec => []EvictedOnce
<1>1. SerialInv => EvictedOnce
  BY DEF SerialInv
<1> QED
  BY <1>1, InitSerialInv, NextSerialInv, PTL DEF SerialSpec
-----------------------------------------------------------------------------
(***************************************************************************)
(* The serial cache a state stands for, and how each step changes it.       *)
(***************************************************************************)
KeyOf == [e \in Elem |-> ent[e].key]
Ord == [i \in DOMAIN lru |-> ent[lru[i]].key]
Slot(k) == IF cache[k] = NIL THEN NIL
           ELSE [val |-> ent[cache[k]].val, exp |-> ent[cache[k]].expires]
Slots == [k \in Key |-> Slot(k)]
View == [ord |-> Ord, ent |-> Slots]

LEMMA OrdIsMapped ==
    ASSUME lru \in Seq(Elem)
    PROVE  Ord = Mapped(KeyOf, lru)
<1>1. \A i \in DOMAIN lru : lru[i] \in Elem
  BY SMT
<1> QED
  BY <1>1 DEF Ord, Mapped, KeyOf

\* The list operations of SerialCache are those of Lists.
LEMMA SameLists ==
    /\ \A s, e : Abs!Without(s, e) = Without(s, e)
    /\ \A s, e : Abs!MoveToBack(s, e) = MoveToBack(s, e)
<1>1. \A s : Abs!Range(s) = Range(s)
  BY DEF Abs!Range, Range
<1>2. \A s, i : Abs!Cut(s, i) = Cut(s, i)
  BY DEF Abs!Cut, Cut
<1>3. \A s, e : Abs!Without(s, e) = Without(s, e)
  BY <1>1, <1>2, SMT DEF Abs!Without, Without
<1> QED
  BY <1>1, <1>3 DEF Abs!MoveToBack, MoveToBack

\* The facts about the data that the step lemmas start from.
LEMMA SerialData ==
    ASSUME SerialInv
    PROVE  /\ lru \in Seq(Elem) /\ IsInjective(lru) /\ Range(lru) \subseteq Elem
           /\ cache \in [Key -> Elem \cup {NIL}] /\ ent \in [Elem -> Entry] /\ now \in Nat
           /\ Separates(KeyOf, lru)
           /\ \A e \in Range(lru) : KeyOf[e] = ent[e].key
<1>1. /\ lru \in Seq(Elem) /\ IsInjective(lru) /\ Range(lru) \subseteq Elem
      /\ cache \in [Key -> Elem \cup {NIL}] /\ ent \in [Elem -> Entry] /\ now \in Nat
  BY SMT DEF SerialInv, IInv, TypeOK, DataOK, SizeBound, Range
<1>2. \A e \in Range(lru) : KeyOf[e] = ent[e].key
  BY <1>1 DEF KeyOf
<1>3. Separates(KeyOf, lru)
  <2> SUFFICES ASSUME NEW x \in Range(lru), NEW y \in Range(lru), KeyOf[x] = KeyOf[y]
               PROVE  x = y
    BY DEF Separates
  <2>1. cache[ent[x].key] = x /\ cache[ent[y].key] = y
    BY DEF SerialInv, ListWithinMap
  <2> QED
    BY <1>2, <2>1
<1> QED
  BY <1>1, <1>2, <1>3

\* A key is present in the abstract cache exactly when the map has it.
LEMMA HasIsMapped ==
    ASSUME SerialInv, NEW k \in Key
    PROVE  Slots[k] # NIL <=> cache[k] # NIL
<1>1. cache[k] # NIL => Slot(k) \in [val : Value \cup {NIL}, exp : Nat]
  BY SerialData DEF Slot, Entry
<1> QED
  BY <1>1, CacheAssumption DEF Slots, Slot

\* delete(ele) drops its key.
LEMMA DeleteDrops ==
    ASSUME SerialInv, NEW e \in Range(lru), delete(e), UNCHANGED ent
    PROVE  /\ ent[e].key \in Key /\ Slots[ent[e].key] # NIL
           /\ Ord' = Without(Ord, ent[e].key)
           /\ Slots' = [Slots EXCEPT ![ent[e].key] = NIL]
<1>1. ent[e].key \in Key /\ cache[ent[e].key] = e /\ e \in Elem
  BY SerialData DEF SerialInv, ListWithinMap
<1>2. Slots[ent[e].key] # NIL
  BY <1>1, HasIsMapped, CacheAssumption
<1>3. lru' = Without(lru, e) /\ lru' \in Seq(Elem) /\ KeyOf' = KeyOf
  BY SerialData, WithoutMember DEF delete, KeyOf
<1>4. Mapped(KeyOf, Without(lru, e)) = Without(Mapped(KeyOf, lru), KeyOf[e])
  BY SerialData, MappedWithout
<1>5. Ord = Mapped(KeyOf, lru) /\ KeyOf[e] = ent[e].key
  BY SerialData, OrdIsMapped
<1>6. Ord' = Mapped(KeyOf, lru')
  <2>1. \A i \in DOMAIN lru' : lru'[i] \in Elem
    BY <1>3, SMT
  <2> QED
    BY <1>3, <2>1 DEF Ord, Mapped, KeyOf
<1>7. Ord' = Without(Ord, ent[e].key)
  BY <1>3, <1>4, <1>5, <1>6
<1>8. Slots' = [Slots EXCEPT ![ent[e].key] = NIL]
  <2>1. ASSUME NEW k \in Key PROVE Slot(k)' = IF k = ent[e].key THEN NIL ELSE Slot(k)
    <3>1. cache'[k] = IF k = ent[e].key THEN NIL ELSE cache[k]
      BY SerialData DEF delete
    <3> QED
      BY <3>1 DEF Slot
  <2> QED
    BY <2>1 DEF Slots
<1> QED
  BY <1>1, <1>2, <1>7, <1>8

\* A touched element's key becomes the most recent one.
LEMMA TouchMoves ==
    ASSUME SerialInv, NEW e \in Range(lru), lru' = MoveToBack(lru, e),
           \A x \in Elem : ent'[x].key = ent[x].key
    PROVE  Ord' = MoveToBack(Ord, ent[e].key)
<1>1. lru' \in Seq(Elem) /\ KeyOf' = KeyOf
  BY SerialData, MoveToBackKeeps DEF KeyOf
<1>2. Mapped(KeyOf, MoveToBack(lru, e)) = MoveToBack(Mapped(KeyOf, lru), KeyOf[e])
  BY SerialData, MappedMoveToBack
<1>3. Ord = Mapped(KeyOf, lru) /\ KeyOf[e] = ent[e].key
  BY SerialData, OrdIsMapped
<1>4. Ord' = Mapped(KeyOf, lru')
  <2>1. \A i \in DOMAIN lru' : lru'[i] \in Elem
    BY <1>1, SMT
  <2> QED
    BY <1>1, <2>1 DEF Ord, Mapped, KeyOf
<1> QED
  BY <1>2, <1>3, <1>4

\* Rewriting an element's value and expiry rewrites its key's slot.
LEMMA RewriteStores ==
    ASSUME SerialInv, NEW e \in Range(lru), UNCHANGED cache, NEW v, NEW t,
           \A x \in Elem \ {e} : ent'[x] = ent[x],
           ent'[e].val = v, ent'[e].expires = t
    PROVE  Slots' = [Slots EXCEPT ![ent[e].key] = [val |-> v, exp |-> t]]
<1>1. cache[ent[e].key] = e /\ ent[e].key \in Key /\ e \in Elem /\ e # NIL
  BY SerialData, CacheAssumption DEF SerialInv, ListWithinMap
<1>2. ASSUME NEW k \in Key
      PROVE  Slot(k)' = IF k = ent[e].key THEN [val |-> v, exp |-> t] ELSE Slot(k)
  <2>1. CASE k = ent[e].key
    BY <1>1, <2>1 DEF Slot
  <2>2. CASE k # ent[e].key /\ cache[k] # NIL
    <3>1. cache[k] \in Elem /\ ent[cache[k]].key = k
      BY <2>2, SerialData DEF SerialInv, IInv, MapWithinList
    <3>2. cache[k] # e
      BY <2>2, <3>1
    <3> QED
      BY <2>2, <3>1, <3>2 DEF Slot
  <2>3. CASE k # ent[e].key /\ cache[k] = NIL
    BY <2>3 DEF Slot
  <2> QED
    BY <2>1, <2>2, <2>3
<1> QED
  BY <1>2 DEF Slots

\* The key an insertion pushes out is the least recent one of the order.
Room(o) == IF Len(o) = MaxSize THEN Without(o, Head(o)) ELSE o
RoomSlots(o, f) == IF Len(o) = MaxSize THEN [f EXCEPT ![Head(o)] = NIL] ELSE f

LEMMA InsertPuts ==
    ASSUME SerialInv, NEW p \in Proc, NEW e \in Elem, SetInsert(p, e)
    PROVE  /\ reg[p].key \in Key /\ reg[p].val \in Value /\ Slots[reg[p].key] = NIL
           /\ Ord' = Append(Room(Ord), reg[p].key)
           /\ Slots' = [RoomSlots(Ord, Slots) EXCEPT ![reg[p].key] =
                            [val |-> reg[p].val, exp |-> now + Expiration]]
<1> DEFINE full == Len(lru) = MaxSize
           out == Head(lru)
           k == reg[p].key
           kept == IF full THEN [cache EXCEPT ![ent[out].key] = NIL] ELSE cache
           rest == IF full THEN Without(lru, out) ELSE lru
           new == [key |-> k, val |-> reg[p].val, expires |-> now + Expiration]
<1>1. /\ k \in Key /\ reg[p].val \in Value /\ cache[k] = NIL /\ e \notin Range(lru)
      /\ \A j \in Key : cache[j] # e
  BY DEF SerialInv, IInv, TypeOK, CallerOK, SetInsert, Fresh, CallerKnows
<1>2. /\ cache' = [kept EXCEPT ![k] = e]
      /\ lru' = Append(rest, e)
      /\ ent' = [ent EXCEPT ![e] = new]
  BY DEF SetInsert, Full
<1>3. Slots[k] = NIL
  BY <1>1, HasIsMapped
<1>4. full => out \in Range(lru)
  BY SerialData, HeadIsMember, CacheAssumption, SMT
<1>5. /\ rest \in Seq(Elem)
      /\ Range(rest) = IF full THEN Range(lru) \ {out} ELSE Range(lru)
  BY <1>4, SerialData, WithoutMember
<1>6. Ord = Mapped(KeyOf, lru) /\ Len(Ord) = Len(lru)
  <2>1. lru \in Seq(Elem)
    BY SerialData
  <2>2. Len(Mapped(KeyOf, lru)) = Len(lru)
    BY <2>1, MappedShape
  <2> QED
    BY <2>1, <2>2, OrdIsMapped
<1>7. full => Head(Ord) = ent[out].key /\ ent[out].key \in Key /\ KeyOf[out] = ent[out].key
  <2> SUFFICES ASSUME full
               PROVE  Head(Ord) = ent[out].key /\ ent[out].key \in Key /\ KeyOf[out] = ent[out].key
    OBVIOUS
  <2>1. out \in Range(lru) /\ 1 \in DOMAIN lru /\ out = lru[1]
    BY <1>4, SerialData, CacheAssumption, SMT
  <2>2. Ord[1] = ent[out].key
    BY <2>1 DEF Ord
  <2>3. Ord \in Seq(Image(KeyOf, Elem)) /\ Len(Ord) > 0
    BY <1>6, SerialData, MappedShape, CacheAssumption, SMT
  <2>4. Head(Ord) = Ord[1]
    BY <2>3, SMT
  <2>5. ent[out].key \in Key
    BY <2>1 DEF SerialInv, ListWithinMap
  <2> QED
    BY <2>1, <2>2, <2>4, <2>5, SerialData
<1> HIDE DEF out, k, rest, kept
<1>8. Mapped(KeyOf, rest) = Room(Ord)
  <2>1. CASE full
    <3>1. Mapped(KeyOf, Without(lru, out)) = Without(Mapped(KeyOf, lru), KeyOf[out])
      BY <1>4, <2>1, SerialData, MappedWithout
    <3> QED
      BY <1>6, <1>7, <2>1, <3>1 DEF Room, rest
  <2>2. CASE ~full
    BY <1>6, <2>2 DEF Room, rest
  <2> QED
    BY <2>1, <2>2
<1>9. /\ \A x \in Elem : KeyOf'[x] = IF x = e THEN k ELSE KeyOf[x]
      /\ KeyOf'[e] = k
  BY <1>2, SerialData DEF KeyOf
<1>10. Mapped(KeyOf', rest) = Mapped(KeyOf, rest)
  <2>1. \A i \in DOMAIN rest : rest[i] \in Elem /\ rest[i] # e
    <3>1. \A i \in DOMAIN rest : rest[i] \in Elem
      BY <1>5, SMT
    <3>2. \A i \in DOMAIN rest : rest[i] \in Range(rest)
      BY DEF Range
    <3>3. e \notin Range(rest)
      BY <1>1, <1>5
    <3> QED
      BY <3>1, <3>2, <3>3
  <2>2. \A i \in DOMAIN rest : KeyOf'[rest[i]] = KeyOf[rest[i]]
    BY <1>9, <2>1
  <2> QED
    BY <2>2 DEF Mapped
<1>11. Mapped(KeyOf', Append(rest, e)) = Append(Mapped(KeyOf', rest), KeyOf'[e])
  BY <1>5, MappedAppend
<1>12. Ord' = Mapped(KeyOf', lru')
  <2>1. \A i \in DOMAIN lru' : lru'[i] \in Elem
    BY <1>2, <1>5, SMT
  <2> QED
    BY <2>1 DEF Ord, Mapped, KeyOf
<1>13. Ord' = Append(Room(Ord), k)
  BY <1>2, <1>8, <1>9, <1>10, <1>11, <1>12
<1>14. ASSUME NEW j \in Key
       PROVE  Slot(j)' = IF j = k THEN [val |-> reg[p].val, exp |-> now + Expiration]
                         ELSE IF full /\ j = ent[out].key THEN NIL ELSE Slot(j)
  <2>1. kept \in [Key -> Elem \cup {NIL}]
    BY SerialData DEF kept
  <2>2. CASE j = k
    <3>1. cache'[j] = e
      BY <1>2, <2>1, <2>2
    <3>2. ent'[e] = new /\ e # NIL
      BY <1>2, SerialData, CacheAssumption
    <3> QED
      BY <2>2, <3>1, <3>2, SMT DEF Slot
  <2>3. CASE j # k /\ full /\ j = ent[out].key
    <3>1. cache'[j] = NIL
      BY <1>2, <2>1, <2>3, SerialData DEF kept
    <3> QED
      BY <2>3, <3>1 DEF Slot
  <2>4. CASE j # k /\ ~(full /\ j = ent[out].key)
    <3>1. cache'[j] = cache[j]
      BY <1>2, <2>1, <2>4, SerialData DEF kept
    <3>2. cache[j] # NIL => ent'[cache[j]] = ent[cache[j]]
      BY <1>1, <1>2, SerialData
    <3> QED
      BY <2>4, <3>1, <3>2 DEF Slot
  <2> QED
    BY <2>2, <2>3, <2>4
<1>15. Slots' = [RoomSlots(Ord, Slots) EXCEPT ![k] =
                    [val |-> reg[p].val, exp |-> now + Expiration]]
  <2>1. RoomSlots(Ord, Slots) = [j \in Key |-> IF full /\ j = ent[out].key THEN NIL ELSE Slot(j)]
    <3>1. CASE full
      BY <1>6, <1>7, <3>1 DEF RoomSlots, Slots
    <3>2. CASE ~full
      BY <1>6, <3>2 DEF RoomSlots, Slots
    <3> QED
      BY <3>1, <3>2
  <2> QED
    BY <1>14, <2>1 DEF Slots
<1> QED
  BY <1>1, <1>3, <1>13, <1>15 DEF k

\* The actions of SerialCache, in terms of View.
LEMMA AbsActions ==
    ASSUME NEW k \in Key
    PROVE  /\ Slots[k] # NIL /\ View' = Abs!Drop(View, k) /\ UNCHANGED now => Abs!Delete(k)
           /\ /\ DeleteOnGet /\ Slots[k] # NIL /\ now >= Slots[k].exp
              /\ View' = Abs!Drop(View, k) /\ UNCHANGED now
              => Abs!GetExpired(k)
           /\ \A t \in 0..now :
                 /\ Slots[k] # NIL /\ ~(t >= Slots[k].exp)
                 /\ View' = IF RenewOnGet
                            THEN Abs!Update(View, k, Slots[k].val, t + Expiration)
                            ELSE Abs!Touch(View, k)
                 /\ UNCHANGED now
                 => Abs!GetHit(k)
           /\ \A v : View' = Abs!Put(View, k, v, now + Expiration, MaxSize) /\ UNCHANGED now
                    => Abs!Set(k, v)
<1>1. Slots[k] # NIL /\ View' = Abs!Drop(View, k) /\ UNCHANGED now => Abs!Delete(k)
  BY DEF Abs!Delete, Abs!Has, View, Ord, Slots, Slot
<1>2. /\ DeleteOnGet /\ Slots[k] # NIL /\ now >= Slots[k].exp
      /\ View' = Abs!Drop(View, k) /\ UNCHANGED now
      => Abs!GetExpired(k)
  BY DEF Abs!GetExpired, Abs!Has, Abs!Expired, View, Ord, Slots, Slot
<1>3. ASSUME NEW t \in 0..now, Slots[k] # NIL, ~(t >= Slots[k].exp), UNCHANGED now,
             View' = IF RenewOnGet THEN Abs!Update(View, k, Slots[k].val, t + Expiration)
                                   ELSE Abs!Touch(View, k)
      PROVE  Abs!GetHit(k)
  <2>1. View.ent[k] = Slots[k]
    BY DEF View
  <2>2. Abs!Has(View, k) /\ ~Abs!Expired(View, k, t)
    BY <1>3, <2>1 DEF Abs!Has, Abs!Expired
  <2> QED
    BY <1>3, <2>1, <2>2 DEF Abs!GetHit, View, Ord, Slots, Slot
<1>4. ASSUME NEW v, View' = Abs!Put(View, k, v, now + Expiration, MaxSize), UNCHANGED now
      PROVE  Abs!Set(k, v)
  BY <1>4 DEF Abs!Set, View, Ord, Slots, Slot
<1> QED
  BY <1>1, <1>2, <1>3, <1>4

LEMMA InitView == Init => Abs!Init
<1> SUFFICES ASSUME Init PROVE Abs!Init
  OBVIOUS
<1>1. [i \in DOMAIN lru |-> ent[lru[i]].key] = <<>>
  BY SMT DEF Init
<1> QED
  BY <1>1 DEF Init, Abs!Init, Abs!EmptyCache

\* Each step of a call or of cleanup is a step of SerialCache or leaves it alone.
LEMMA SerialStep == SerialInv /\ [SerialNext]_vars => [Abs!Next]_<<View, now>>
<1> SUFFICES ASSUME SerialInv, [SerialNext]_vars PROVE Abs!Next \/ UNCHANGED <<View, now>>
  OBVIOUS
<1>0. View.ord = Ord /\ View.ent = Slots
  BY DEF View
<1>a. ASSUME UNCHANGED <<lru, cache, ent, now>> PROVE UNCHANGED <<View, now>>
  BY <1>a DEF View, Ord, Slots, Slot
<1>b. ASSUME NEW e \in Range(lru), delete(e), UNCHANGED ent
      PROVE  /\ ent[e].key \in Key /\ Slots[ent[e].key] # NIL
             /\ View' = Abs!Drop(View, ent[e].key)
  <2>1. /\ ent[e].key \in Key /\ Slots[ent[e].key] # NIL
        /\ Ord' = Without(Ord, ent[e].key)
        /\ Slots' = [Slots EXCEPT ![ent[e].key] = NIL]
    BY <1>b, DeleteDrops
  <2> QED
    BY <1>0, <2>1, SameLists DEF View, Abs!Drop
<1>c. ASSUME NEW e \in Range(lru)
      PROVE  /\ ent[e].key \in Key /\ Slots[ent[e].key] # NIL
             /\ Slots[ent[e].key] = [val |-> ent[e].val, exp |-> ent[e].expires]
  <2>1. ent[e].key \in Key /\ cache[ent[e].key] = e /\ e # NIL
    BY SerialData, CacheAssumption DEF SerialInv, ListWithinMap
  <2> QED
    BY <2>1, HasIsMapped DEF Slots, Slot
<1>1. ASSUME NEW p \in Proc, Caller(p) PROVE Abs!Next \/ UNCHANGED <<View, now>>
  <2>1. CASE (\E k \in Key : GetLookup(p, k)) \/ GetRead(p)
                \/ \E k \in Key, v \in Value : SetLookup(p, k, v)
    BY <1>a, <2>1 DEF GetLookup, GetRead, SetLookup
  <2>2. ASSUME NEW k \in Key, Delete(p, k) PROVE Abs!Next
    <3>1. cache[k] \in Range(lru)
      BY <2>2 DEF Delete, SerialInv, IInv, MapWithinList
    <3>2. PICK j \in Key : j = ent[cache[k]].key
      BY <1>c, <3>1
    <3>3. Slots[j] # NIL /\ View' = Abs!Drop(View, j) /\ UNCHANGED now
      BY <1>b, <2>2, <3>1, <3>2 DEF Delete
    <3>4. Abs!Delete(j)
      BY <3>3, AbsActions
    <3> QED
      BY <3>4 DEF Abs!Next
  <2>3. CASE GetDelete(p)
    <3>1. PICK e \in Range(lru) : e = reg[p].ele
      BY <2>3 DEF GetDelete, SerialInv, CallerKnows
    <3>2. PICK j \in Key : j = ent[e].key
      BY <1>c
    <3>3. DeleteOnGet /\ ent[e].expires <= now /\ ent[e].expires \in Nat /\ now \in Nat
      BY <2>3, <3>1, SerialData DEF GetDelete, SerialInv, CallerKnows, Entry
    <3>4. Slots[j] # NIL /\ View' = Abs!Drop(View, j) /\ UNCHANGED now
      BY <1>b, <2>3, <3>1, <3>2 DEF GetDelete
    <3>5. Slots[j].exp = ent[e].expires
      <4>1. Slots[ent[e].key] = [val |-> ent[e].val, exp |-> ent[e].expires]
        BY <1>c
      <4>2. Slots[j] = [val |-> ent[e].val, exp |-> ent[e].expires]
        BY <3>2, <4>1
      <4> QED
        BY <4>2, SMT
    <3>6. now >= Slots[j].exp
      BY <3>3, <3>5
    <3>7. Abs!GetExpired(j)
      BY <3>3, <3>4, <3>6, AbsActions
    <3> QED
      BY <3>7 DEF Abs!Next
  <2>4. CASE GetHit(p)
    <3>0. PICK e \in Range(lru) : e = reg[p].ele
      BY <2>4 DEF GetHit, SerialInv, CallerKnows
    <3>a. PICK j \in Key : j = ent[e].key
      BY <1>c
    <3>b. PICK t \in 0..now : t = reg[p].now
      BY <2>4, SerialData, SMT DEF GetHit, SerialInv, CallerKnows, IInv, TypeOK, CallerOK, Register
    <3>1. /\ e \in Elem /\ now \in Nat /\ t < ent[e].expires /\ ent[e].expires \in Nat
      BY <2>4, <3>0, <3>b, SerialData DEF GetHit, SerialInv, CallerKnows, Entry
    <3>2. Slots[j] # NIL /\ Slots[j] = [val |-> ent[e].val, exp |-> ent[e].expires]
      BY <1>c, <3>a
    <3>3. ~(t >= Slots[j].exp)
      BY <3>1, <3>2, SMT
    <3>4. lru' = MoveToBack(lru, e) /\ UNCHANGED <<cache, now>>
      BY <2>4, <3>0 DEF GetHit
    <3>5. /\ \A x \in Elem : ent'[x].key = ent[x].key
          /\ \A x \in Elem \ {e} : ent'[x] = ent[x]
          /\ RenewOnGet => ent'[e].val = ent[e].val /\ ent'[e].expires = t + Expiration
          /\ ~RenewOnGet => ent' = ent
      BY <2>4, <3>0, <3>b, <3>1, SerialData DEF GetHit, Entry
    <3>6. Ord' = MoveToBack(Ord, j)
      BY <3>a, <3>4, <3>5, TouchMoves
    <3>7. CASE RenewOnGet
      <4>1. Slots' = [Slots EXCEPT ![j] = [val |-> Slots[j].val, exp |-> t + Expiration]]
        BY <3>a, <3>2, <3>4, <3>5, <3>7, RewriteStores, SMT
      <4>2. View' = Abs!Update(View, j, Slots[j].val, t + Expiration)
        BY <1>0, <3>6, <4>1, SameLists DEF View, Abs!Update, Abs!Touch, Abs!Store
      <4>3. Abs!GetHit(j)
        BY <3>2, <3>3, <3>4, <3>7, <4>2, AbsActions
      <4> QED
        BY <4>3 DEF Abs!Next
    <3>8. CASE ~RenewOnGet
      <4>1. Slots' = Slots
        BY <3>4, <3>5, <3>8 DEF Slots, Slot
      <4>2. View' = Abs!Touch(View, j)
        BY <1>0, <3>6, <4>1, SameLists DEF View, Abs!Touch
      <4>3. Abs!GetHit(j)
        BY <3>2, <3>3, <3>4, <3>8, <4>2, AbsActions
      <4> QED
        BY <4>3 DEF Abs!Next
    <3> QED
      BY <3>7, <3>8
  <2>5. CASE SetUpdate(p)
    <3>0. PICK e \in Range(lru) : e = reg[p].ele
      BY <2>5 DEF SetUpdate, SerialInv, CallerKnows
    <3>a. PICK j \in Key : j = ent[e].key
      BY <1>c
    <3>b. PICK v \in Value : v = reg[p].val
      BY <2>5 DEF SetUpdate, SerialInv, CallerKnows
    <3>1. e \in Elem
      BY SerialData
    <3>2. Slots[j] # NIL
      BY <1>c, <3>a
    <3>3. lru' = MoveToBack(lru, e) /\ UNCHANGED <<cache, now>>
      BY <2>5, <3>0 DEF SetUpdate
    <3>4. /\ \A x \in Elem : ent'[x].key = ent[x].key
          /\ \A x \in Elem \ {e} : ent'[x] = ent[x]
          /\ ent'[e].val = v /\ ent'[e].expires = now + Expiration
      <4>1. ent' = [ent EXCEPT ![e].val = v, ![e].expires = now + Expiration]
        BY <2>5, <3>0, <3>b DEF SetUpdate
      <4>2. ent \in [Elem -> Entry]
        BY SerialData
      <4> QED
        BY <3>1, <4>1, <4>2 DEF Entry
    <3>5. Ord' = MoveToBack(Ord, j)
      BY <3>a, <3>3, <3>4, TouchMoves
    <3>6. Slots' = [Slots EXCEPT ![j] = [val |-> v, exp |-> now + Expiration]]
      BY <3>a, <3>3, <3>4, RewriteStores, SMT
    <3>7. View' = Abs!Update(View, j, v, now + Expiration)
      BY <1>0, <3>5, <3>6, SameLists DEF View, Abs!Update, Abs!Touch, Abs!Store
    <3>8. View' = Abs!Put(View, j, v, now + Expiration, MaxSize)
      BY <1>0, <3>2, <3>7 DEF Abs!Put, Abs!Has
    <3>9. Abs!Set(j, v)
      BY <3>3, <3>8, AbsActions
    <3> QED
      BY <3>9 DEF Abs!Next
  <2>6. ASSUME NEW e \in Elem, SetInsert(p, e) PROVE Abs!Next
    <3>0. PICK k \in Key, v \in Value : k = reg[p].key /\ v = reg[p].val
      BY <2>6, InsertPuts
    <3>1. /\ Slots[k] = NIL
          /\ Ord' = Append(Room(Ord), k)
          /\ Slots' = [RoomSlots(Ord, Slots) EXCEPT ![k] = [val |-> v, exp |-> now + Expiration]]
      BY <2>6, <3>0, InsertPuts
    <3>2. UNCHANGED now
      BY <2>6 DEF SetInsert
    <3>3. View' = Abs!Insert(View, k, v, now + Expiration, MaxSize)
      <4> DEFINE room == IF Len(View.ord) = MaxSize THEN Abs!Drop(View, Head(View.ord)) ELSE View
      <4>1. room.ord = Room(Ord) /\ room.ent = RoomSlots(Ord, Slots)
        BY <1>0, SameLists DEF Abs!Drop, Room, RoomSlots
      <4>2. Abs!Insert(View, k, v, now + Expiration, MaxSize) =
               [ord |-> Append(room.ord, k),
                ent |-> [room.ent EXCEPT ![k] = [val |-> v, exp |-> now + Expiration]]]
        BY DEF Abs!Insert, Abs!Store
      <4> HIDE DEF room
      <4> QED
        BY <3>1, <4>1, <4>2 DEF View
    <3>4. View' = Abs!Put(View, k, v, now + Expiration, MaxSize)
      BY <1>0, <3>1, <3>3 DEF Abs!Put, Abs!Has
    <3>5. Abs!Set(k, v)
      BY <3>2, <3>4, AbsActions
    <3> QED
      BY <3>5 DEF Abs!Next
  <2> QED
    BY <1>1, <2>1, <2>2, <2>3, <2>4, <2>5, <2>6 DEF Caller
<1>2. CASE CleanupDelete
  <2>1. jele \in Range(lru) /\ UNCHANGED now
    BY <1>2 DEF CleanupDelete, SerialInv, JanitorKnows
  <2>2. PICK j \in Key : j = ent[jele].key
    BY <1>c, <2>1
  <2>3. Slots[j] # NIL /\ View' = Abs!Drop(View, j)
    BY <1>2, <1>b, <2>1, <2>2 DEF CleanupDelete
  <2>4. Abs!Delete(j)
    BY <2>1, <2>3, AbsActions
  <2> QED
    BY <2>4 DEF Abs!Next
<1>3. CASE Tick
  <2>1. UNCHANGED View /\ now < MaxNow /\ now' = now + 1
    BY <1>3 DEF Tick, View, Ord, Slots, Slot
  <2>2. Abs!Tick
    BY <2>1 DEF Abs!Tick, View, Ord, Slots, Slot
  <2> QED
    BY <2>2 DEF Abs!Next
<1>4. CASE \/ CleanupCollect \/ CleanupNow \/ CleanupEnd \/ Stop \/ UNCHANGED vars
           \/ \E e \in Elem : CleanupRead(e)
           \/ \E w \in workers : WorkerExit(w)
  <2>1. UNCHANGED <<lru, cache, ent, now>>
    BY <1>4 DEF CleanupCollect, CleanupNow, CleanupEnd, CleanupRead, Stop, WorkerExit, vars
  <2> QED
    BY <1>a, <2>1
<1> QED
  BY <1>1, <1>2, <1>3, <1>4 DEF SerialNext, Cleanup

\* When calls do not overlap, Get, Set, Delete and cleanup implement the atomic
\* LRU cache: each call is one step of SerialCache, with the same hits, expiries
\* and victims.
THEOREM SerialCallsAreAtomic == SerialSpec => ImplementsSerialCache
<1>1. SerialInv /\ [SerialNext]_vars =>
        [Abs!Next]_<<[ord |-> [i \in DOMAIN lru |-> ent[lru[i]].key],
                      ent |-> [k \in Key |-> IF cache[k] = NIL THEN NIL
                                             ELSE [val |-> ent[cache[k]].val,
                                                   exp |-> ent[cache[k]].expires]]], now>>
  BY SerialStep DEF View, Ord, Slots, Slot
<1> QED
  BY <1>1, InitView, InitSerialInv, NextSerialInv, PTL DEF SerialSpec, ImplementsSerialCache, Abs!Spec
=============================================================================
