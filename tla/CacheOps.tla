------------------------------- MODULE CacheOps -------------------------------
(***************************************************************************)
(* What util/cache promises a caller whose calls do not overlap others:     *)
(* operations on a value  c = [ord |-> keys, least recent first,            *)
(*                             ent |-> [key -> [val, exp] or NIL]].         *)
(***************************************************************************)
EXTENDS Lists

CONSTANT NIL

EmptyCache(K) == [ord |-> <<>>, ent |-> [k \in K |-> NIL]]

Has(c, k) == c.ent[k] # NIL
Expired(c, k, t) == t >= c.ent[k].exp

\* The key a Set of an absent key pushes out: the least recently used one.
Victims(c, max) == IF Len(c.ord) = max THEN {Head(c.ord)} ELSE {}

Drop(c, k) == [ord |-> Without(c.ord, k), ent |-> [c.ent EXCEPT ![k] = NIL]]

\* A hit makes the key the most recently used one.
Touch(c, k) == [ord |-> MoveToBack(c.ord, k), ent |-> c.ent]

Store(c, k, v, exp) ==
    [ord |-> c.ord, ent |-> [c.ent EXCEPT ![k] = [val |-> v, exp |-> exp]]]

\* Mutated: the old value and expiry stay.
UpdateKeepsOld(c, k, v, exp) == Touch(c, k)

\* Set on a present key, and on an absent one once there is room for it.
Update(c, k, v, exp) == Touch(Store(c, k, v, exp), k)
\* Mutated: the most recent key is pushed out.
InsertDropsNewest(c, k, v, exp, max) ==
    LET room == IF Len(c.ord) = max THEN Drop(c, c.ord[max]) ELSE c
    IN [ord |-> Append(room.ord, k), ent |-> Store(room, k, v, exp).ent]

Insert(c, k, v, exp, max) ==
    LET room == IF Len(c.ord) = max THEN Drop(c, Head(c.ord)) ELSE c
    IN [ord |-> Append(room.ord, k), ent |-> Store(room, k, v, exp).ent]
Put(c, k, v, exp, max) ==
    IF Has(c, k) THEN Update(c, k, v, exp) ELSE Insert(c, k, v, exp, max)
=============================================================================
