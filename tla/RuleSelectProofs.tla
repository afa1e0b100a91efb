-------------------------- MODULE RuleSelectProofs --------------------------
(***************************************************************************)
(* For any rules, nodes, targets and number of connections: which rule a   *)
(* target meets and what becomes of the connection.                        *)
(*                                                                         *)
(* First the trie.  Insertion keeps TrieOK, the relation between a trie    *)
(* and the patterns put into it; from it follows what search finds at a    *)
(* node, from the labels left of the name, none at first: the item of the  *)
(* best pattern below the node that fits.  Then the order of the rules: a  *)
(* matcher finds the first of its items that cover the target as resolved  *)
(* so far.  Last the handlers: the invariant RInv says what each of them   *)
(* knows of its own target, and of the fields it shares with the others.   *)
(***************************************************************************)
EXTENDS RuleSelect, ListsProofs

\* Zenon proves the leaves, unless they name another backend.
USE ZenonT(30)

\* A pattern without "+" and the item that has it.
Entry == [pat : Seq(Label), item : Nat \ {NoData}]

\* The trie after the patterns of the set E: it has the path of each of them, and at its
\* end the last item that has it; and no other data.
TrieOK(t, E) ==
    /\ DOMAIN t \subseteq Seq(Label) /\ <<>> \in DOMAIN t
    /\ \A p \in DOMAIN t : t[p] \in Nat
    /\ \A x \in E : \A n \in 0 .. Len(x.pat) : SubSeq(Path(x.pat), 1, n) \in DOMAIN t
    /\ \A p \in DOMAIN t : t[p] # NoData => \E x \in E : Path(x.pat) = p /\ x.item = t[p]
    /\ \A x \in E : Path(x.pat) \in DOMAIN t /\ t[Path(x.pat)] >= x.item

\* The path of a pattern is the pattern from its end.
LEMMA PathOf ==
    ASSUME NEW S, NEW s \in Seq(S)
    PROVE  /\ Path(s) \in Seq(S) /\ Len(Path(s)) = Len(s)
           /\ \A k \in 1 .. Len(s) : Path(s)[k] = FromEnd(s, k) /\ FromEnd(s, k) \in S
BY SMT DEF Path, FromEnd

\* The nodes on a path.
LEMMA Initials ==
    ASSUME NEW S, NEW s \in Seq(S), NEW n \in 0 .. Len(s)
    PROVE  /\ SubSeq(s, 1, n) \in Seq(S) /\ Len(SubSeq(s, 1, n)) = n
           /\ \A k \in 1 .. n : SubSeq(s, 1, n)[k] = s[k]
           /\ n = Len(s) => SubSeq(s, 1, n) = s
           /\ n = 0 => SubSeq(s, 1, n) = <<>>
BY SMT

\* What an entry is.
LEMMA Entries ==
    ASSUME NEW x \in Entry
    PROVE  x.pat \in Seq(Label) /\ Len(x.pat) \in Nat /\ x.item \in Nat /\ x.item # NoData
BY SMT DEF Entry

\* "*" and the empty label are different.
LEMMA Wildcards == wildcard # dotWildcard
BY DEF wildcard, dotWildcard

\* Sequences of one label.
LEMMA OneLabel ==
    ASSUME NEW S, NEW l \in S
    PROVE  /\ <<l>> \in Seq(S) /\ Len(<<l>>) = 1 /\ <<l>>[1] = l
           /\ \A s \in Seq(S) : s = <<l>> <=> Len(s) = 1 /\ s[1] = l
BY SMT

\* A sequence whose first element is replaced.
LEMMA FirstReplaced ==
    ASSUME NEW S, NEW l \in S, NEW q \in Seq(S), Len(q) >= 1
    PROVE  Len(<<l>> \o Tail(q)) = Len(q) /\ \A k \in 2 .. Len(q) : (<<l>> \o Tail(q))[k] = q[k]
<1> DEFINE u == Tail(q)
           r == <<l>> \o u
<1>1. Len(q) \in Nat /\ u \in Seq(S) /\ Len(u) = Len(q) - 1 /\ \A k \in 1 .. Len(q) - 1 : u[k] = q[k + 1]
  BY SMT
<1> HIDE DEF u
<1>2. Len(r) = 1 + Len(u) /\ \A k \in 1 .. Len(u) : r[1 + k] = u[k]
  BY <1>1, SMT
<1> HIDE DEF r
<1>3. ASSUME NEW k \in 2 .. Len(q) PROVE r[k] = q[k]
  <2>1. k - 1 \in 1 .. Len(u) /\ k - 1 \in 1 .. Len(q) - 1 /\ 1 + (k - 1) = k /\ (k - 1) + 1 = k
    BY <1>1, SMT
  <2>2. r[1 + (k - 1)] = u[k - 1] /\ u[k - 1] = q[(k - 1) + 1]
    BY <1>1, <1>2, <2>1
  <2> QED
    BY <2>1, <2>2
<1> QED
  BY <1>1, <1>2, <1>3, SMT DEF r, u

\* Two sequences joined.
LEMMA Joined ==
    ASSUME NEW S, NEW s \in Seq(S), NEW u \in Seq(S)
    PROVE  s \o u \in Seq(S) /\ Len(s \o u) = Len(s) + Len(u)
BY SMT

\* The trie's insert adds one pattern; an item that is at least as late as all others
\* replaces theirs.
LEMMA insertAdds ==
    ASSUME NEW E \in SUBSET Entry, NEW t, TrieOK(t, E),
           NEW parts \in Seq(Label), NEW j \in Nat \ {NoData}, \A x \in E : x.item <= j
    PROVE  TrieOK(insert(t, parts, j), E \cup {[pat |-> parts, item |-> j]})
<1> DEFINE path == Path(parts)
           new == { SubSeq(path, 1, n) : n \in 0 .. Len(path) }
           e == [pat |-> parts, item |-> j]
           u == insert(t, parts, j)
<1>1. path \in Seq(Label) /\ Len(path) = Len(parts)
  BY PathOf
<1> HIDE DEF path
<1>2. new \subseteq Seq(Label) /\ path \in new
  BY <1>1, Initials, SMT
<1>3. DOMAIN u = DOMAIN t \cup new
  BY DEF insert, path
<1>4. \A p \in DOMAIN t \cup new :
         u[p] = IF p = path THEN j ELSE IF p \in DOMAIN t THEN t[p] ELSE NoData
  BY DEF insert, path
<1> HIDE DEF u, new
<1>0. Path(e.pat) = path /\ e.item = j /\ Len(e.pat) = Len(parts)
  BY DEF path
<1> HIDE DEF e
<1>5. DOMAIN u \subseteq Seq(Label) /\ <<>> \in DOMAIN u
  BY <1>2, <1>3 DEF TrieOK
<1>6. \A p \in DOMAIN u : u[p] \in Nat
  BY <1>3, <1>4, SMT DEF TrieOK, NoData
<1>7. \A x \in E : \A n \in 0 .. Len(x.pat) : SubSeq(Path(x.pat), 1, n) \in DOMAIN u
  BY <1>3 DEF TrieOK
<1>8. \A n \in 0 .. Len(parts) : SubSeq(path, 1, n) \in DOMAIN u
  BY <1>1, <1>3 DEF new
<1>9. \A p \in DOMAIN u : u[p] # NoData =>
         \E x \in E \cup {e} : Path(x.pat) = p /\ x.item = u[p]
  <2> TAKE p \in DOMAIN u
  <2>1. CASE p = path
    BY <2>1, <1>0, <1>3, <1>4
  <2>2. CASE p # path
    BY <2>2, <1>3, <1>4 DEF TrieOK
  <2> QED
    BY <2>1, <2>2
<1>10. \A x \in E : Path(x.pat) \in DOMAIN u /\ u[Path(x.pat)] >= x.item
  <2> TAKE x \in E
  <2>1. Path(x.pat) \in DOMAIN t /\ t[Path(x.pat)] >= x.item /\ x.item <= j
    BY DEF TrieOK
  <2> QED
    BY <2>1, <1>3, <1>4
<1>11. path \in DOMAIN u /\ u[path] >= j
  BY <1>2, <1>3, <1>4, SMT
<1> QED
  BY <1>5, <1>6, <1>7, <1>8, <1>9, <1>10, <1>11, <1>0, SMT DEF TrieOK, u, e

\* What a pattern adds to the entries.
Added(parts, j) == IF Proper(parts) THEN { [pat |-> p, item |-> j] : p \in Plain(parts) } ELSE {}

\* Insert adds the plain patterns a pattern stands for, if it is a proper one.
LEMMA InsertAdds ==
    ASSUME NEW E \in SUBSET Entry, NEW t, TrieOK(t, E),
           NEW parts \in Seq(Label) \ {<<>>}, NEW j \in Nat \ {NoData}, \A x \in E : x.item <= j
    PROVE  TrieOK(Insert(t, parts, j), E \cup Added(parts, j)) /\ Added(parts, j) \subseteq Entry
<1>1. ValidAndSplitDomain(parts) <=> Proper(parts)
  <2>1. parts = <<dotWildcard>> <=> Len(parts) = 1 /\ parts[1] = dotWildcard
    <3>1. dotWildcard \in Label
      BY RuleAssumption
    <3> QED
      BY <3>1, OneLabel
  <2>2. \A k \in 1 .. Len(parts) : parts[k] \in Label
    BY SMT
  <2> QED
    BY <2>1, <2>2 DEF ValidAndSplitDomain, Proper
<1>2. CASE ~Proper(parts)
  BY <1>1, <1>2 DEF Insert, Added
<1>3. CASE Proper(parts) /\ parts[1] # complexWildcard
  <2>1. Added(parts, j) = {[pat |-> parts, item |-> j]}
    BY <1>3 DEF Added, Plain
  <2>2. Insert(t, parts, j) = insert(t, parts, j)
    BY <1>1, <1>3 DEF Insert
  <2> QED
    BY <2>1, <2>2, insertAdds, SMT DEF Entry
<1>4. CASE Proper(parts) /\ parts[1] = complexWildcard
  <2> DEFINE a == Tail(parts)
             b == <<dotWildcard>> \o Tail(parts)
             ea == [pat |-> a, item |-> j]
             eb == [pat |-> b, item |-> j]
             u == insert(t, a, j)
  <2>1. a \in Seq(Label) /\ b \in Seq(Label)
    <3>1. Tail(parts) \in Seq(Label)
      BY SMT
    <3>2. <<dotWildcard>> \in Seq(Label)
      BY RuleAssumption, OneLabel
    <3> QED
      BY <3>1, <3>2, Joined
  <2>2. Added(parts, j) = {ea, eb}
    BY <1>4 DEF Added, Plain
  <2>3. Insert(t, parts, j) = insert(u, b, j)
    BY <1>1, <1>4 DEF Insert
  <2>4. ea \in Entry /\ eb \in Entry
    BY <2>1 DEF Entry
  <2> HIDE DEF a, b
  <2>5. TrieOK(u, E \cup {ea})
    BY <2>1, insertAdds
  <2>6. \A x \in E \cup {ea} : x.item <= j
    BY SMT
  <2> HIDE DEF u
  <2>7. TrieOK(insert(u, b, j), (E \cup {ea}) \cup {eb})
    BY <2>1, <2>4, <2>5, <2>6, insertAdds
  <2>8. (E \cup {ea}) \cup {eb} = E \cup {ea, eb}
    OBVIOUS
  <2> QED
    BY <2>2, <2>3, <2>4, <2>7, <2>8
<1> QED
  BY <1>2, <1>3, <1>4

\* The patterns of the first n values of an item.
ItemPatterns(item, j, prefix, n) == UNION { Added(prefix \o item.value[m], j) : m \in 1 .. n }

\* f[n] is the trie after the first n values of the item, the last one InsertAll's result.
Grows(f, t, item, j, prefix) ==
    /\ DOMAIN f = 0 .. Len(item.value) /\ f[0] = t
    /\ \A n \in 1 .. Len(item.value) : f[n] = Insert(f[n - 1], prefix \o item.value[n], j)
    /\ InsertAll(t, item, j, prefix) = f[Len(item.value)]

\* The recursive function of InsertAll exists: it can be filled in from 0 on.
LEMMA InsertAllGrows ==
    ASSUME NEW t, NEW item, NEW j, NEW prefix, Len(item.value) \in Nat
    PROVE  \E f : Grows(f, t, item, j, prefix)
<1> DEFINE N == Len(item.value)
           Step(u, n) == Insert(u, prefix \o item.value[n], j)
           Ok(f, n) == f = [m \in 0 .. n |-> IF m = 0 THEN t ELSE Step(f[m - 1], m)]
           S == { n \in 0 .. N : \E f : Ok(f, n) }
           grown == CHOOSE f : Ok(f, N)
<1>1. InsertAll(t, item, j, prefix) = grown[N]
  BY DEF InsertAll
<1> HIDE DEF Step, grown
<1>2. 0 \in S
  <2> DEFINE f == [m \in 0 .. 0 |-> t]
  <2>1. Ok(f, 0)
    BY SMT
  <2> HIDE DEF f, Ok
  <2> QED
    BY <2>1, SMT
<1>3. ASSUME NEW n \in 0 .. N - 1, n \in S PROVE n + 1 \in S
  <2>1. PICK f : Ok(f, n)
    BY <1>3
  <2> DEFINE g == [m \in 0 .. n + 1 |-> IF m <= n THEN f[m] ELSE Step(f[n], n + 1)]
  <2>2. ASSUME NEW m \in 0 .. n + 1 PROVE g[m] = IF m = 0 THEN t ELSE Step(g[m - 1], m)
    BY <2>1, SMT
  <2>3. Ok(g, n + 1)
    BY <2>2
  <2> HIDE DEF g, Ok
  <2> QED
    BY <2>3, SMT
<1>4. \E f : Ok(f, N)
  <2>1. N \in Nat /\ \A n \in 0 .. N - 1 : n \in S => n + 1 \in S
    BY <1>3
  <2> HIDE DEF S, N, Ok
  <2>2. \A n \in 0 .. N : n \in S
    BY <1>2, <2>1, CountUp
  <2>3. N \in 0 .. N
    BY <2>1, SMT
  <2> QED
    BY <2>2, <2>3 DEF S
<1>5. Ok(grown, N)
  BY <1>4 DEF grown
<1> HIDE DEF N
<1>6. DOMAIN grown = 0 .. N
  BY <1>5
<1>7. \A n \in 0 .. N : grown[n] = IF n = 0 THEN t ELSE Step(grown[n - 1], n)
  BY <1>5, Zenon
<1>8. N \in Nat
  BY DEF N
<1>9. grown[0] = t /\ \A n \in 1 .. N : grown[n] = Step(grown[n - 1], n)
  BY <1>7, <1>8, SMT
<1>10. Grows(grown, t, item, j, prefix)
  BY <1>1, <1>6, <1>9 DEF Grows, Step, N
<1> QED
  BY <1>10

\* InsertAll adds the patterns of all values of an item.
LEMMA InsertAllAdds ==
    ASSUME NEW E \in SUBSET Entry, NEW t, TrieOK(t, E),
           NEW item, item.value \in Seq(Seq(Label) \ {<<>>}), NEW prefix \in Seq(Label),
           NEW j \in Nat \ {NoData}, \A x \in E : x.item <= j
    PROVE  /\ TrieOK(InsertAll(t, item, j, prefix),
                     E \cup ItemPatterns(item, j, prefix, Len(item.value)))
           /\ ItemPatterns(item, j, prefix, Len(item.value)) \subseteq Entry
<1> DEFINE N == Len(item.value)
           Pat(n) == prefix \o item.value[n]
           First(n) == ItemPatterns(item, j, prefix, n)
<1>1. N \in Nat /\ \A n \in 1 .. N : Pat(n) \in Seq(Label) \ {<<>>}
  <2>1. \A n \in 1 .. N : item.value[n] \in Seq(Label) /\ item.value[n] # <<>>
    BY SMT
  <2>2. \A n \in 1 .. N : Pat(n) \in Seq(Label) /\ Len(Pat(n)) = Len(prefix) + Len(item.value[n])
    BY <2>1, Joined
  <2> QED
    BY <2>1, <2>2, SMT
<1>f. PICK f : Grows(f, t, item, j, prefix)
  BY <1>1, InsertAllGrows
<1>2. /\ DOMAIN f = 0 .. N /\ f[0] = t
      /\ \A n \in 1 .. N : f[n] = Insert(f[n - 1], Pat(n), j)
      /\ InsertAll(t, item, j, prefix) = f[N]
  BY <1>f DEF Grows
<1>3. First(0) = {} /\ \A n \in 0 .. N - 1 : First(n + 1) = First(n) \cup Added(Pat(n + 1), j)
  <2>1. \A n \in 0 .. N - 1 : 1 .. n + 1 = (1 .. n) \cup {n + 1}
    BY SMT
  <2>2. \A n \in 0 .. N : \A x : x \in First(n) <=> \E m \in 1 .. n : x \in Added(Pat(m), j)
    BY DEF ItemPatterns
  <2> HIDE DEF First, Pat, N
  <2>3. First(0) = {}
    BY <1>1, <2>2, SMT
  <2>4. ASSUME NEW n \in 0 .. N - 1 PROVE First(n + 1) = First(n) \cup Added(Pat(n + 1), j)
    <3>1. n \in 0 .. N /\ n + 1 \in 0 .. N
      BY <1>1, SMT
    <3>2. \A x : x \in First(n + 1) <=> x \in First(n) \/ x \in Added(Pat(n + 1), j)
      BY <2>1, <2>2, <3>1, SMT
    <3> QED
      BY <3>2
  <2> QED
    BY <2>3, <2>4
<1>4. \A n \in 0 .. N : \A x \in First(n) : x.item = j
  BY SMT DEF ItemPatterns, Added
<1> HIDE DEF N, Pat, First
<1> DEFINE S == { n \in 0 .. N : TrieOK(f[n], E \cup First(n)) /\ First(n) \subseteq Entry }
<1>5. 0 \in S
  <2>1. E \cup First(0) = E
    BY <1>3
  <2>2. TrieOK(f[0], E \cup First(0)) /\ First(0) \subseteq Entry
    BY <1>2, <1>3, <2>1
  <2>3. 0 \in 0 .. N
    BY <1>1, SMT
  <2> QED
    BY <2>2, <2>3
<1>6. ASSUME NEW n \in 0 .. N - 1, n \in S PROVE n + 1 \in S
  <2> DEFINE F == E \cup First(n)
  <2>1. F \in SUBSET Entry /\ TrieOK(f[n], F)
    BY <1>6
  <2>2. \A x \in F : x.item <= j
    BY <1>4, <1>1, SMT
  <2>3. n + 1 \in 1 .. N /\ f[n + 1] = Insert(f[n], Pat(n + 1), j) /\ Pat(n + 1) \in Seq(Label) \ {<<>>}
    BY <1>1, <1>2, SMT
  <2>4. E \cup First(n + 1) = F \cup Added(Pat(n + 1), j)
    BY <1>3
  <2> HIDE DEF F
  <2>5. TrieOK(f[n + 1], F \cup Added(Pat(n + 1), j)) /\ Added(Pat(n + 1), j) \subseteq Entry
    <3> DEFINE u == f[n]
               p == Pat(n + 1)
    <3>1. TrieOK(u, F) /\ p \in Seq(Label) \ {<<>>} /\ f[n + 1] = Insert(u, p, j)
      BY <2>1, <2>3
    <3> HIDE DEF u, p
    <3>2. TrieOK(Insert(u, p, j), F \cup Added(p, j)) /\ Added(p, j) \subseteq Entry
      BY <2>1, <2>2, <3>1, InsertAdds
    <3> QED
      BY <3>1, <3>2 DEF p
  <2>6. First(n + 1) \subseteq Entry
    BY <1>3, <1>6, <2>5
  <2>7. n + 1 \in 0 .. N
    BY <1>1, SMT
  <2> QED
    BY <2>4, <2>5, <2>6, <2>7
<1>7. N \in S
  <2>1. \A n \in 0 .. N - 1 : n \in S => n + 1 \in S
    BY <1>6
  <2> HIDE DEF S
  <2>2. \A n \in 0 .. N : n \in S
    BY <1>1, <1>5, <2>1, CountUp
  <2> QED
    BY <1>1, <2>2, SMT
<1> QED
  BY <1>2, <1>7 DEF N, First

\* The recursive function of TrieOf exists as well.
LEMMA TrieOfGrows ==
    ASSUME NEW items, NEW prefix, Len(items) \in Nat
    PROVE  \E f : /\ DOMAIN f = 0 .. Len(items) /\ f[0] = New
                  /\ \A j \in 1 .. Len(items) : f[j] = InsertAll(f[j - 1], items[j], j, prefix)
                  /\ TrieOf(items, prefix) = f[Len(items)]
<1> DEFINE N == Len(items)
           Step(u, n) == InsertAll(u, items[n], n, prefix)
           Ok(f, n) == f = [m \in 0 .. n |-> IF m = 0 THEN New ELSE Step(f[m - 1], m)]
           S == { n \in 0 .. N : \E f : Ok(f, n) }
           grown == CHOOSE f : Ok(f, N)
<1>1. TrieOf(items, prefix) = grown[N]
  BY DEF TrieOf
<1> HIDE DEF Step, grown
<1>2. 0 \in S
  <2> DEFINE f == [m \in 0 .. 0 |-> New]
  <2>1. Ok(f, 0)
    BY SMT
  <2> HIDE DEF f, Ok
  <2> QED
    BY <2>1, SMT
<1>3. ASSUME NEW n \in 0 .. N - 1, n \in S PROVE n + 1 \in S
  <2>1. PICK f : Ok(f, n)
    BY <1>3
  <2> DEFINE g == [m \in 0 .. n + 1 |-> IF m <= n THEN f[m] ELSE Step(f[n], n + 1)]
  <2>2. ASSUME NEW m \in 0 .. n + 1 PROVE g[m] = IF m = 0 THEN New ELSE Step(g[m - 1], m)
    BY <2>1, SMT
  <2>3. Ok(g, n + 1)
    BY <2>2
  <2> HIDE DEF g, Ok
  <2> QED
    BY <2>3, SMT
<1>4. \E f : Ok(f, N)
  <2>1. N \in Nat /\ \A n \in 0 .. N - 1 : n \in S => n + 1 \in S
    BY <1>3
  <2> HIDE DEF S, N, Ok
  <2>2. \A n \in 0 .. N : n \in S
    BY <1>2, <2>1, CountUp
  <2> QED
    BY <2>1, <2>2, SMT DEF S
<1>5. Ok(grown, N)
  BY <1>4 DEF grown
<1> HIDE DEF N
<1>6. DOMAIN grown = 0 .. N
  BY <1>5
<1>7. \A n \in 0 .. N : grown[n] = IF n = 0 THEN New ELSE Step(grown[n - 1], n)
  BY <1>5, Zenon
<1>8. N \in Nat
  BY DEF N
<1>9. grown[0] = New /\ \A n \in 1 .. N : grown[n] = Step(grown[n - 1], n)
  BY <1>7, <1>8, SMT
<1> QED
  BY <1>1, <1>6, <1>9 DEF Step, N

\* The patterns of the first n items.
AllPatterns(items, prefix, n) ==
    UNION { ItemPatterns(items[j], j, prefix, Len(items[j].value)) : j \in 1 .. n }

\* TrieOf makes the trie of the patterns of all items.
LEMMA TrieOfHolds ==
    ASSUME NEW items, Len(items) \in Nat, NEW prefix \in Seq(Label),
           \A j \in 1 .. Len(items) : items[j].value \in Seq(Seq(Label) \ {<<>>})
    PROVE  LET all == AllPatterns(items, prefix, Len(items))
           IN TrieOK(TrieOf(items, prefix), all) /\ all \subseteq Entry
<1> DEFINE N == Len(items)
           Of(j) == ItemPatterns(items[j], j, prefix, Len(items[j].value))
           First(n) == AllPatterns(items, prefix, n)
<1>1. PICK f : /\ DOMAIN f = 0 .. N /\ f[0] = New
               /\ \A j \in 1 .. N : f[j] = InsertAll(f[j - 1], items[j], j, prefix)
               /\ TrieOf(items, prefix) = f[N]
  BY TrieOfGrows
<1>2. First(0) = {} /\ \A n \in 0 .. N - 1 : First(n + 1) = First(n) \cup Of(n + 1)
  <2>1. \A n \in 0 .. N : \A x : x \in First(n) <=> \E j \in 1 .. n : x \in Of(j)
    BY DEF AllPatterns
  <2> HIDE DEF First, Of, N
  <2>2. N \in Nat
    BY DEF N
  <2>3. First(0) = {}
    BY <2>1, <2>2, SMT
  <2>4. ASSUME NEW n \in 0 .. N - 1 PROVE First(n + 1) = First(n) \cup Of(n + 1)
    <3>1. n \in 0 .. N /\ n + 1 \in 0 .. N /\ 1 .. n + 1 = (1 .. n) \cup {n + 1}
      BY <2>2, SMT
    <3>2. \A x : x \in First(n + 1) <=> x \in First(n) \/ x \in Of(n + 1)
      BY <2>1, <3>1
    <3> QED
      BY <3>2
  <2> QED
    BY <2>3, <2>4
<1>3. \A n \in 0 .. N : \A x \in First(n) : x.item \in 1 .. n
  BY SMT DEF AllPatterns, ItemPatterns, Added
<1> DEFINE S == { n \in 0 .. N : TrieOK(f[n], First(n)) /\ First(n) \subseteq Entry }
<1>4. N \in Nat
  OBVIOUS
<1>5. TrieOK(New, {})
  BY SMT DEF TrieOK, New, NoData
<1> HIDE DEF N, Of, First
<1>6. 0 \in S
  BY <1>1, <1>2, <1>4, <1>5, SMT
<1>7. ASSUME NEW n \in 0 .. N - 1, n \in S PROVE n + 1 \in S
  <2> DEFINE E == First(n)
             j == n + 1
  <2>1. E \in SUBSET Entry /\ TrieOK(f[n], E)
    BY <1>7
  <2>2. n \in 0 .. N /\ j \in 0 .. N /\ j \in 1 .. N /\ j \in Nat \ {NoData} /\ j - 1 = n
    BY <1>4, SMT DEF NoData
  <2>3. \A x \in E : x.item <= j
    BY <1>3, <2>2, SMT
  <2>4. f[j] = InsertAll(f[n], items[j], j, prefix) /\ First(j) = E \cup Of(j)
    BY <1>1, <1>2, <2>2
  <2>5. items[j].value \in Seq(Seq(Label) \ {<<>>})
    BY <2>2 DEF N
  <2> HIDE DEF E, j
  <2>6. TrieOK(f[j], E \cup Of(j)) /\ Of(j) \subseteq Entry
    <3> DEFINE item == items[j]
               t == f[n]
    <3>1. TrieOK(t, E) /\ item.value \in Seq(Seq(Label) \ {<<>>})
      BY <2>1, <2>5
    <3> HIDE DEF item, t
    <3>2. /\ TrieOK(InsertAll(t, item, j, prefix),
                    E \cup ItemPatterns(item, j, prefix, Len(item.value)))
          /\ ItemPatterns(item, j, prefix, Len(item.value)) \subseteq Entry
      BY <2>1, <2>2, <2>3, <3>1, InsertAllAdds
    <3> QED
      BY <2>4, <3>2 DEF Of, item, t
  <2>7. j \in S
    BY <2>1, <2>2, <2>4, <2>6
  <2> QED
    BY <2>7 DEF j
<1>8. N \in S
  <2>1. \A n \in 0 .. N - 1 : n \in S => n + 1 \in S
    BY <1>7
  <2> HIDE DEF S
  <2>2. \A n \in 0 .. N : n \in S
    BY <1>4, <1>6, <2>1, CountUp
  <2> QED
    BY <1>4, <2>2, SMT
<1> QED
  BY <1>1, <1>8 DEF N, First

\* The six matchers.
LEMMA Matchers ==
    /\ DOMAIN Type = 1 .. 6 /\ DOMAIN MS = 1 .. 6
    /\ \A i \in 1 .. 6 : /\ MS[i] \in Seq(Range(MS[i])) /\ DOMAIN MS[i] = 1 .. Len(MS[i])
                         /\ Len(MS[i]) \in Nat
                         /\ \A j \in DOMAIN MS[i] : MS[i][j] \in Range(MS[i]) /\ IsItem(MS[i][j])
<1>1. DOMAIN Type = 1 .. 6
  BY SMT DEF Type
<1>2. DOMAIN MS = 1 .. 6
  BY <1>1, RuleAssumption
<1>3. ASSUME NEW i \in 1 .. 6
      PROVE  /\ MS[i] \in Seq(Range(MS[i])) /\ DOMAIN MS[i] = 1 .. Len(MS[i]) /\ Len(MS[i]) \in Nat
             /\ \A j \in DOMAIN MS[i] : MS[i][j] \in Range(MS[i]) /\ IsItem(MS[i][j])
  <2>1. MS[i] \in Seq(Range(MS[i])) /\ \A item \in Range(MS[i]) : IsItem(item)
    BY <1>2, RuleAssumption
  <2>2. \A j \in DOMAIN MS[i] : MS[i][j] \in Range(MS[i])
    BY DEF Range
  <2> QED
    BY <2>1, <2>2, SMT
<1> QED
  BY <1>1, <1>2, <1>3

\* ... and their indices alone.
LEMMA Indices ==
    /\ DOMAIN MS = 1 .. 6
    /\ \A i \in 1 .. 6 : DOMAIN MS[i] = 1 .. Len(MS[i]) /\ Len(MS[i]) \in Nat
BY Matchers

\* A trie of domain rules, whose patterns are those the rules state.
LEMMA TrieOfPatterns ==
    ASSUME NEW i \in {1, 3}
    PROVE  TrieOK(TrieOf(MS[i], Prefix(i)), Patterns(i)) /\ Patterns(i) \subseteq Entry
<1>1. i \in DOMAIN MS /\ MS[i] \in Seq(Range(MS[i]))
  BY Matchers, SMT
<1>2. Len(MS[i]) \in Nat /\ DOMAIN MS[i] = 1 .. Len(MS[i])
  BY <1>1, SMT
<1>3. \A j \in 1 .. Len(MS[i]) : MS[i][j].value \in Seq(Seq(Label) \ {<<>>})
  <2>1. \A j \in DOMAIN MS[i] : MS[i][j] \in Range(MS[i])
    BY DEF Range
  <2> QED
    BY <1>2, <2>1, RuleAssumption
<1>4. Prefix(i) \in Seq(Label)
  <2>1. <<complexWildcard>> \in Seq(Label)
    BY OneLabel, RuleAssumption
  <2> QED
    BY <2>1, SMT DEF Prefix
<1>5. Patterns(i) = AllPatterns(MS[i], Prefix(i), Len(MS[i]))
  <2>1. ASSUME NEW j \in 1 .. Len(MS[i])
        PROVE  \A q : q \in Stated(i, j) <=>
                        \E m \in 1 .. Len(MS[i][j].value) : q = Prefix(i) \o MS[i][j].value[m] /\ Proper(q)
    <3>1. DOMAIN MS[i][j].value = 1 .. Len(MS[i][j].value)
      BY <1>3, SMT
    <3> QED
      BY <3>1 DEF Stated, Range
  <2>2. ASSUME NEW j \in 1 .. Len(MS[i])
        PROVE  { [pat |-> p, item |-> j] : p \in UNION { Plain(q) : q \in Stated(i, j) } }
                  = ItemPatterns(MS[i][j], j, Prefix(i), Len(MS[i][j].value))
    <3> DEFINE V(m) == Prefix(i) \o MS[i][j].value[m]
               N == Len(MS[i][j].value)
    <3>1. \A q : q \in Stated(i, j) <=> \E m \in 1 .. N : q = V(m) /\ Proper(q)
      BY <2>1
    <3>2. \A x : x \in ItemPatterns(MS[i][j], j, Prefix(i), N) <=>
                    \E m \in 1 .. N : x \in Added(V(m), j)
      BY DEF ItemPatterns
    <3> HIDE DEF V, N
    <3>3. \A x : x \in ItemPatterns(MS[i][j], j, Prefix(i), N) <=>
                    \E q \in Stated(i, j) : \E p \in Plain(q) : x = [pat |-> p, item |-> j]
      BY <3>1, <3>2 DEF Added
    <3> QED
      BY <3>3 DEF N
  <2> QED
    BY <1>2, <2>2, SMT DEF Patterns, AllPatterns
<1> QED
  BY <1>2, <1>3, <1>4, <1>5, TrieOfHolds

-----------------------------------------------------------------------------
\* What search finds at node p, if f is what it finds at the nodes below.
Child(t, f, p, l) == IF Append(p, l) \in DOMAIN t THEN f[Append(p, l)] ELSE NoData
Visit(t, parts, f, p) ==
    LET label == parts[Len(parts) - Len(p)]
    IN IF Len(p) >= Len(parts) THEN t[p]
       ELSE IF Child(t, f, p, label) # NoData THEN Child(t, f, p, label)
       ELSE IF Child(t, f, p, wildcard) # NoData THEN Child(t, f, p, wildcard)
       ELSE Data(t, Append(p, dotWildcard))

\* search visits every node as its recursion says: a visit only needs nodes nearer to the
\* last label, so that one can fill in the nodes level by level.
LEMMA SearchVisits ==
    ASSUME NEW t, DOMAIN t \subseteq Seq(Label), NEW S, NEW parts \in Seq(S)
    PROVE  \A p \in DOMAIN t : search(t, parts)[p] = Visit(t, parts, search(t, parts), p)
<1> DEFINE N == Len(parts)
           D == DOMAIN t
           Ok(f) == f = [p \in D |-> Visit(t, parts, f, p)]
           Filled(f, k) == /\ f = [p \in D |-> f[p]]
                           /\ \A p \in D : Len(p) + k >= N => f[p] = Visit(t, parts, f, p)
           L == { k \in 0 .. N : \E f : Filled(f, k) }
           find == CHOOSE f : Ok(f)
<1>1. search(t, parts) = find
  BY DEF search, Visit, Child
<1>2. \A p \in D : Len(p) \in Nat /\ \A l : Append(p, l) \in D => Len(Append(p, l)) = Len(p) + 1
  <2> TAKE p \in D
  <2>1. p \in Seq(Label)
    OBVIOUS
  <2>2. \A l : Append(p, l) \in Seq(Label) => Len(Append(p, l)) = Len(p) + 1
    BY <2>1, SMT
  <2> QED
    BY <2>1, <2>2, SMT
<1>3. N \in Nat
  BY SMT
<1>4. ASSUME NEW f, NEW g, NEW p \in D,
             \A q \in D : Len(q) = Len(p) + 1 => f[q] = g[q]
      PROVE  Visit(t, parts, f, p) = Visit(t, parts, g, p)
  <2>1. \A l : Child(t, f, p, l) = Child(t, g, p, l)
    BY <1>2, <1>4 DEF Child
  <2> QED
    BY <2>1 DEF Visit
<1> HIDE DEF find, D
<1>5. 0 \in L
  <2> DEFINE f == [p \in D |-> t[p]]
  <2>1. \A p \in D : Len(p) + 0 >= N => f[p] = Visit(t, parts, f, p)
    BY <1>2, <1>3, SMT DEF Visit
  <2>2. Filled(f, 0)
    BY <2>1
  <2> HIDE DEF f, Filled
  <2> QED
    BY <1>3, <2>2, SMT
<1>6. ASSUME NEW k \in 0 .. N - 1, k \in L PROVE k + 1 \in L
  <2>1. PICK f : Filled(f, k)
    BY <1>6
  <2> DEFINE g == [p \in D |-> IF Len(p) + k >= N THEN f[p] ELSE Visit(t, parts, f, p)]
  <2>2. ASSUME NEW p \in D, Len(p) + (k + 1) >= N
        PROVE  g[p] = Visit(t, parts, g, p)
    <3>1. \A q \in D : Len(q) = Len(p) + 1 => f[q] = g[q]
      BY <1>2, <1>3, <2>2, SMT
    <3>2. Visit(t, parts, f, p) = Visit(t, parts, g, p)
      BY <1>4, <3>1
    <3>3. g[p] = Visit(t, parts, f, p)
      BY <2>1
    <3> QED
      BY <3>2, <3>3
  <2>3. Filled(g, k + 1)
    BY <2>2
  <2>4. k + 1 \in 0 .. N
    BY <1>3, SMT
  <2> HIDE DEF g, Filled
  <2> QED
    BY <2>3, <2>4
<1>7. \E f : Filled(f, N)
  <2>1. \A k \in 0 .. N - 1 : k \in L => k + 1 \in L
    BY <1>6
  <2> HIDE DEF L, N, Filled
  <2>2. \A k \in 0 .. N : k \in L
    BY <1>3, <1>5, <2>1, CountUp
  <2> QED
    BY <1>3, <2>2, SMT DEF L
<1>8. PICK f : Filled(f, N)
  BY <1>7
<1>9. Ok(f)
  <2>1. \A p \in D : f[p] = Visit(t, parts, f, p)
    BY <1>2, <1>3, <1>8, SMT
  <2> QED
    BY <1>8, <2>1
<1>10. Ok(find)
  BY <1>9 DEF find
<1>11. \A p \in D : find[p] = Visit(t, parts, find, p)
  BY <1>10, Zenon
<1> QED
  BY <1>1, <1>11 DEF D

\* Of two entries for one pattern the later one counts.
LEMMA BetterAlike ==
    ASSUME NEW x \in Entry, NEW z \in Entry, Len(x.pat) = Len(z.pat),
           \A k \in 1 .. Len(x.pat) : FromEnd(x.pat, k) = FromEnd(z.pat, k), x.item >= z.item
    PROVE  Better(x, z)
<1>1. \A k \in 1 .. Len(x.pat) : Worth(x.pat, k) = Worth(z.pat, k)
  BY SMT DEF Worth
<1> QED
  BY <1>1 DEF Better

\* The first label from the end that differs decides.
LEMMA BetterAt ==
    ASSUME NEW x \in Entry, NEW z \in Entry, NEW m \in 1 .. Len(x.pat), m <= Len(z.pat),
           \A k \in 1 .. m - 1 : FromEnd(x.pat, k) = FromEnd(z.pat, k),
           Worth(x.pat, m) > Worth(z.pat, m), Worth(z.pat, m) \in Nat, Worth(x.pat, m) \in Nat
    PROVE  Better(x, z)
<1> DEFINE differ == { k \in 1 .. Len(x.pat) : Worth(x.pat, k) # Worth(z.pat, k) }
<1>1. x.pat \in Seq(Label) /\ z.pat \in Seq(Label) /\ Len(x.pat) \in Nat /\ Len(z.pat) \in Nat
  BY SMT DEF Entry
<1>2. ASSUME NEW k \in 1 .. m - 1 PROVE Worth(x.pat, k) = Worth(z.pat, k)
  <2>1. ~(k > Len(x.pat)) /\ ~(k > Len(z.pat)) /\ FromEnd(x.pat, k) = FromEnd(z.pat, k)
    BY <1>1, SMT
  <2> QED
    BY <2>1, SMT DEF Worth
<1>3. m \in differ /\ \A k \in differ : m <= k
  BY <1>1, <1>2, SMT
<1>4. differ # {} /\ differ \subseteq Nat
  BY <1>3, SMT
<1>5. Better(x, z) <=> IF differ = {} THEN x.item >= z.item
                       ELSE Worth(x.pat, Min(differ)) > Worth(z.pat, Min(differ))
  BY DEF Better
<1> HIDE DEF differ
<1>6. Min(differ) = m
  <2>1. Min(differ) \in differ /\ \A k \in differ : Min(differ) <= k
    BY <1>3 DEF Min
  <2> DEFINE least == Min(differ)
  <2> HIDE DEF least
  <2>2. least \in Nat /\ m \in Nat /\ least <= m /\ m <= least
    BY <1>1, <1>3, <1>4, <2>1 DEF least
  <2>3. least = m
    BY <2>2, SMT
  <2> QED
    BY <2>3 DEF least
<1> QED
  BY <1>4, <1>5, <1>6

\* The entries that lie at or below node p.
Under(x, p) == Len(p) <= Len(x.pat) /\ \A k \in 1 .. Len(p) : FromEnd(x.pat, k) = p[k]

\* The way to an entry below p goes over a child of p.
LEMMA OnTheWay ==
    ASSUME NEW E \in SUBSET Entry, NEW t, TrieOK(t, E), NEW x \in E, NEW p \in DOMAIN t,
           Under(x, p), Len(x.pat) > Len(p)
    PROVE  LET q == Append(p, FromEnd(x.pat, Len(p) + 1)) IN q \in DOMAIN t /\ Under(x, q)
<1> DEFINE m == Len(p) + 1
           l == FromEnd(x.pat, m)
           path == Path(x.pat)
           q == SubSeq(path, 1, m)
<1>1. x.pat \in Seq(Label) /\ Len(x.pat) \in Nat /\ p \in Seq(Label) /\ Len(p) \in Nat
  BY SMT DEF Entry, TrieOK
<1>2. m \in 1 .. Len(x.pat)
  BY <1>1, SMT
<1>3. path \in Seq(Label) /\ Len(path) = Len(x.pat) /\ l \in Label
      /\ \A k \in 1 .. Len(x.pat) : path[k] = FromEnd(x.pat, k)
  BY <1>1, <1>2, PathOf
<1>4. q \in DOMAIN t
  BY <1>1, <1>2, SMT DEF TrieOK
<1> HIDE DEF path, l
<1>5. q \in Seq(Label) /\ Len(q) = m /\ \A k \in 1 .. m : q[k] = path[k]
  BY <1>1, <1>2, <1>3, Initials, SMT
<1>6. /\ Append(p, l) \in Seq(Label) /\ Len(Append(p, l)) = m /\ Append(p, l)[m] = l
      /\ \A k \in 1 .. Len(p) : Append(p, l)[k] = p[k]
  BY <1>1, <1>3, SMT
<1>7. \A k \in 1 .. m : Append(p, l)[k] = FromEnd(x.pat, k)
  BY <1>1, <1>6, SMT DEF Under, l
<1>8. Append(p, l) = q
  <2>1. \A k \in 1 .. m : Append(p, l)[k] = q[k]
    BY <1>1, <1>2, <1>3, <1>5, <1>7, SMT
  <2> HIDE DEF q
  <2> QED
    BY <1>5, <1>6, <2>1, SeqEqual
<1>9. Under(x, Append(p, l))
  BY <1>2, <1>6, <1>7, SMT DEF Under
<1> QED
  BY <1>4, <1>8, <1>9 DEF l

\* An entry lies exactly at the end of its path.
LEMMA AtItsEnd ==
    ASSUME NEW x \in Entry, NEW p \in Seq(Label)
    PROVE  Path(x.pat) = p <=> Len(x.pat) = Len(p) /\ Under(x, p)
<1>1. x.pat \in Seq(Label) /\ Len(x.pat) \in Nat /\ Len(p) \in Nat
  BY SMT DEF Entry
<1>2. Path(x.pat) \in Seq(Label) /\ Len(Path(x.pat)) = Len(x.pat)
      /\ \A k \in 1 .. Len(x.pat) : Path(x.pat)[k] = FromEnd(x.pat, k)
  BY <1>1, PathOf
<1> DEFINE path == Path(x.pat)
<1> HIDE DEF path
<1>3. ASSUME path = p PROVE Len(x.pat) = Len(p) /\ Under(x, p)
  BY <1>1, <1>2, <1>3, SMT DEF Under, path
<1>4. ASSUME Len(x.pat) = Len(p), Under(x, p) PROVE path = p
  BY <1>1, <1>2, <1>4, SeqEqual, SMT DEF Under, path
<1> QED
  BY <1>3, <1>4 DEF path

\* Plain patterns have no empty label but at the front, and a name has none at all.
Tidy(E) == E \in SUBSET Entry /\ \A x \in E : \A k \in 2 .. Len(x.pat) : x.pat[k] # dotWildcard
Whole(n) == Len(n) > 0 /\ \A k \in 1 .. Len(n) : n[k] # dotWildcard

\* d is the item of the best of the entries below p that fit the name n.
Fitting(E, n, p) == { x \in E : Fits(x.pat, n) /\ Under(x, p) }
Right(E, n, p, d) ==
    IF d = NoData THEN Fitting(E, n, p) = {}
    ELSE \E x \in Fitting(E, n, p) : x.item = d /\ \A z \in Fitting(E, n, p) : Better(x, z)

\* The nodes search goes to.
OnName(n, p) == Len(p) <= Len(n) /\ \A k \in 1 .. Len(p) : p[k] \in {FromEnd(n, k), wildcard}

\* Where only entries of the node itself fit, its data is right.
LEMMA DataIsRight ==
    ASSUME NEW E, Tidy(E), NEW t, TrieOK(t, E), NEW n, NEW p \in DOMAIN t,
           \A x \in E : x \in Fitting(E, n, p) <=> Path(x.pat) = p
    PROVE  Right(E, n, p, t[p])
<1>1. p \in Seq(Label) /\ t[p] \in Nat
  BY DEF TrieOK
<1>2. \A x \in E : x \in Entry /\ x.item \in Nat /\ x.item # NoData
  BY DEF Tidy, Entry
<1>3. \A z \in Fitting(E, n, p) : z \in E /\ Path(z.pat) = p
  BY DEF Fitting
<1>4. \A z \in Fitting(E, n, p) : t[p] >= z.item
  BY <1>3 DEF TrieOK
<1>5. CASE t[p] = NoData
  BY <1>1, <1>2, <1>3, <1>4, <1>5, SMT DEF Right, NoData
<1>6. CASE t[p] # NoData
  <2>1. PICK x \in E : Path(x.pat) = p /\ x.item = t[p]
    BY <1>6 DEF TrieOK
  <2>2. x \in Fitting(E, n, p)
    BY <2>1
  <2>3. ASSUME NEW z \in Fitting(E, n, p) PROVE Better(x, z)
    <3>1. z \in Entry /\ x \in Entry /\ x.item >= z.item
      BY <1>2, <1>3, <1>4, <2>1
    <3>2. Len(x.pat) = Len(p) /\ Under(x, p) /\ Len(z.pat) = Len(p) /\ Under(z, p)
      BY <1>1, <1>3, <2>1, <3>1, AtItsEnd
    <3>3. \A k \in 1 .. Len(x.pat) : FromEnd(x.pat, k) = FromEnd(z.pat, k)
      BY <3>2 DEF Under
    <3> QED
      BY <3>1, <3>2, <3>3, BetterAlike
  <2> QED
    BY <1>6, <2>1, <2>2, <2>3 DEF Right
<1> QED
  BY <1>5, <1>6

\* No labels are left.
LEMMA RightAtTheEnd ==
    ASSUME NEW E, Tidy(E), NEW t, TrieOK(t, E), NEW S, NEW n \in Seq(S), Whole(n),
           NEW p \in DOMAIN t, OnName(n, p), Len(p) = Len(n)
    PROVE  Right(E, n, p, t[p])
<1>1. p \in Seq(Label) /\ Len(p) \in Nat
  BY SMT DEF TrieOK
<1>0. Len(n) \in Nat /\ Len(n) > 0
  BY SMT DEF Whole
<1>2. ASSUME NEW x \in E PROVE x \in Fitting(E, n, p) <=> Path(x.pat) = p
  <2>0. x \in Entry
    BY DEF Tidy
  <2>1. x \in Entry /\ x.pat \in Seq(Label) /\ Len(x.pat) \in Nat /\ Len(n) \in Nat /\ Len(p) \in Nat
    BY <1>0, <1>1, <2>0, Entries
  <2>2. Path(x.pat) = p <=> Len(x.pat) = Len(p) /\ Under(x, p)
    BY <1>1, <2>1, AtItsEnd
  <2>3. ASSUME x \in Fitting(E, n, p) PROVE Len(x.pat) = Len(p)
    BY <2>1, <2>3, SMT DEF Fitting, Fits, Under
  <2>4. ASSUME Len(x.pat) = Len(p), Under(x, p) PROVE Fits(x.pat, n)
    <3>1. x.pat # <<>> /\ \A k \in 1 .. Len(n) : n[k] # dotWildcard
      BY <2>1, <2>4, SMT DEF Whole
    <3>2. \A k \in 1 .. Len(x.pat) : FromEnd(x.pat, k) \in {FromEnd(n, k), wildcard, dotWildcard}
      BY <2>1, <2>4 DEF Under, OnName
    <3>3. x.pat[1] = FromEnd(x.pat, Len(p)) /\ FromEnd(n, Len(p)) = n[1]
      BY <2>1, <2>4, SMT DEF FromEnd
    <3>4. Len(p) \in 1 .. Len(p) /\ 1 \in 1 .. Len(n)
      BY <2>1, SMT DEF Whole
    <3>5. x.pat[1] = p[Len(p)] /\ p[Len(p)] \in {n[1], wildcard}
      BY <2>4, <3>3, <3>4 DEF Under, OnName
    <3>6. x.pat[1] # dotWildcard
      BY <3>1, <3>4, <3>5, Wildcards
    <3> QED
      BY <2>4, <3>1, <3>2, <3>6 DEF Fits
  <2> QED
    BY <2>2, <2>3, <2>4 DEF Fitting
<1> QED
  BY <1>2, DataIsRight

\* The child for any number of labels.
LEMMA RightAtDots ==
    ASSUME NEW E, Tidy(E), NEW t, TrieOK(t, E), NEW S, NEW n \in Seq(S), Whole(n),
           NEW p \in DOMAIN t, OnName(n, p), Len(p) < Len(n)
    PROVE  Right(E, n, Append(p, dotWildcard), Data(t, Append(p, dotWildcard)))
<1> DEFINE q == Append(p, dotWildcard)
<1>1. p \in Seq(Label) /\ Len(p) \in Nat
  BY SMT DEF TrieOK
<1>0. Len(n) \in Nat /\ Len(n) > 0
  BY SMT DEF Whole
<1>6. dotWildcard \in Label
  BY RuleAssumption
<1>2. q \in Seq(Label) /\ Len(q) = Len(p) + 1 /\ q[Len(p) + 1] = dotWildcard
      /\ \A k \in 1 .. Len(p) : q[k] = p[k]
  BY <1>1, <1>6, SMT
<1> HIDE DEF q
<1>3. ASSUME NEW x \in E, Under(x, q)
      PROVE  Len(x.pat) = Len(p) + 1 /\ Under(x, p) /\ FromEnd(x.pat, Len(p) + 1) = dotWildcard
  <2>1. x.pat \in Seq(Label) /\ Len(x.pat) \in Nat /\ Len(x.pat) >= Len(p) + 1
    BY <1>1, <1>2, <1>3, SMT DEF Tidy, Entry, Under
  <2>2. FromEnd(x.pat, Len(p) + 1) = dotWildcard
    BY <1>1, <1>2, <1>3, SMT DEF Under
  <2>3. x.pat[Len(x.pat) - Len(p)] = dotWildcard /\ Len(x.pat) - Len(p) \in 1 .. Len(x.pat)
    BY <1>1, <2>1, <2>2, SMT DEF FromEnd
  <2>4. Len(x.pat) - Len(p) \notin 2 .. Len(x.pat)
    BY <2>3 DEF Tidy
  <2>5. Under(x, p)
    BY <1>1, <1>2, <1>3, <2>1, SMT DEF Under
  <2> QED
    BY <1>1, <2>1, <2>2, <2>3, <2>4, <2>5, SMT
<1>4. CASE q \in DOMAIN t
  <2>1. ASSUME NEW x \in E PROVE x \in Fitting(E, n, q) <=> Path(x.pat) = q
    <3>1. x \in Entry /\ x.pat \in Seq(Label) /\ Len(x.pat) \in Nat /\ Len(n) \in Nat
      BY SMT DEF Tidy, Entry
    <3>2. Path(x.pat) = q <=> Len(x.pat) = Len(q) /\ Under(x, q)
      BY <1>2, <3>1, AtItsEnd
    <3>3. Under(x, q) => Len(x.pat) = Len(q)
      BY <1>2, <1>3
    <3>4. ASSUME Under(x, q) PROVE Fits(x.pat, n)
      <4>1. Len(x.pat) = Len(p) + 1 /\ FromEnd(x.pat, Len(p) + 1) = dotWildcard
        BY <1>3, <3>4
      <4>2. x.pat # <<>> /\ x.pat[1] = dotWildcard
        BY <1>1, <3>1, <4>1, SMT DEF FromEnd
      <4>3. \A k \in 1 .. Len(x.pat) : FromEnd(x.pat, k) = q[k]
        BY <1>2, <3>4, <4>1 DEF Under
      <4>4. \A k \in 1 .. Len(x.pat) : FromEnd(x.pat, k) \in {FromEnd(n, k), wildcard, dotWildcard}
        BY <1>1, <1>2, <4>1, <4>3, SMT DEF OnName
      <4>5. Len(n) >= Len(x.pat)
        BY <1>1, <3>1, <4>1, SMT
      <4> QED
        BY <4>2, <4>4, <4>5 DEF Fits, Whole
    <3> QED
      BY <3>2, <3>3, <3>4 DEF Fitting
  <2> QED
    BY <1>4, <2>1, DataIsRight DEF Data, q
<1>5. CASE q \notin DOMAIN t
  <2>1. ASSUME NEW x \in E, Under(x, q) PROVE FALSE
    <3>1. Under(x, p) /\ Len(x.pat) > Len(p) /\ FromEnd(x.pat, Len(p) + 1) = dotWildcard
      BY <1>1, <1>3, <2>1, SMT
    <3>2. Append(p, FromEnd(x.pat, Len(p) + 1)) \in DOMAIN t
      BY <3>1, OnTheWay DEF Tidy
    <3> QED
      BY <1>5, <3>1, <3>2 DEF q
  <2> QED
    BY <1>5, <2>1 DEF Data, q, Right, Fitting
<1> QED
  BY <1>4, <1>5 DEF q

\* A fitting entry below one child is better than one below another that search tries
\* later.
LEMMA BetterChild ==
    ASSUME NEW E, Tidy(E), NEW p \in Seq(Label), NEW x \in E, NEW z \in E,
           NEW k \in Label, NEW l \in Label, Under(x, Append(p, k)), Under(z, Append(p, l)),
           \/ l = wildcard /\ k \notin {wildcard, dotWildcard}
           \/ l = dotWildcard /\ k # dotWildcard
    PROVE  Better(x, z)
<1> DEFINE m == Len(p) + 1
<1>1. x \in Entry /\ z \in Entry
  BY DEF Tidy
<1>2. x.pat \in Seq(Label) /\ Len(x.pat) \in Nat /\ z.pat \in Seq(Label) /\ Len(z.pat) \in Nat
  BY <1>1, Entries
<1>3. ASSUME NEW a \in Label
      PROVE  /\ Len(Append(p, a)) = m /\ Append(p, a)[m] = a
             /\ \A i \in 1 .. m - 1 : Append(p, a)[i] = p[i]
  BY SMT
<1>4. m \in Nat /\ m \in 1 .. m /\ m \in 1 .. Len(x.pat) /\ m <= Len(x.pat) /\ m <= Len(z.pat)
  BY <1>2, <1>3, SMT DEF Under
<1>5. FromEnd(x.pat, m) = k /\ FromEnd(z.pat, m) = l
  BY <1>3, <1>4 DEF Under
<1>6. \A i \in 1 .. m - 1 : FromEnd(x.pat, i) = FromEnd(z.pat, i)
  BY <1>3, <1>4, SMT DEF Under
<1> HIDE DEF m
<1>7. Worth(x.pat, m) = (IF k = dotWildcard THEN 1 ELSE IF k = wildcard THEN 2 ELSE 3)
  BY <1>2, <1>4, <1>5, Wildcards, SMT DEF Worth
<1>8. Worth(z.pat, m) = (IF l = dotWildcard THEN 1 ELSE IF l = wildcard THEN 2 ELSE 3)
  BY <1>2, <1>4, <1>5, Wildcards, SMT DEF Worth
<1>9. Worth(x.pat, m) > Worth(z.pat, m) /\ Worth(x.pat, m) \in Nat /\ Worth(z.pat, m) \in Nat
  BY <1>7, <1>8, Wildcards, SMT
<1> QED
  BY <1>1, <1>4, <1>6, <1>9, BetterAt

\* What fits below a node fits below one of the children search tries.
LEMMA FittingChildren ==
    ASSUME NEW E, Tidy(E), NEW S, NEW n \in Seq(S), Whole(n), NEW p \in Seq(Label),
           OnName(n, p), Len(p) < Len(n), NEW x \in Fitting(E, n, p)
    PROVE  \E l \in Label \cap {FromEnd(n, Len(p) + 1), wildcard, dotWildcard} :
              /\ l = FromEnd(x.pat, Len(p) + 1) /\ Len(x.pat) > Len(p)
              /\ x \in Fitting(E, n, Append(p, l))
<1> DEFINE m == Len(p) + 1
           l == FromEnd(x.pat, m)
<1>1. x \in E /\ x \in Entry /\ Fits(x.pat, n) /\ Under(x, p)
  BY DEF Fitting, Tidy
<1>2. x.pat \in Seq(Label) /\ Len(x.pat) \in Nat /\ Len(p) \in Nat /\ Len(n) \in Nat
  BY <1>1, Entries, SMT
<1>3. Len(x.pat) > Len(p)
  <2> SUFFICES ASSUME Len(x.pat) = Len(p) PROVE FALSE
    BY <1>1, <1>2, SMT DEF Under
  <2>1. x.pat # <<>> /\ x.pat[1] = dotWildcard
    BY <1>1, <1>2, SMT DEF Fits
  <2>2. Len(p) \in 1 .. Len(p) /\ FromEnd(x.pat, Len(p)) = x.pat[1]
    BY <1>2, <2>1, SMT DEF FromEnd
  <2>3. p[Len(p)] = dotWildcard
    BY <1>1, <2>1, <2>2 DEF Under
  <2>4. FromEnd(n, Len(p)) = n[Len(n) - Len(p) + 1] /\ Len(n) - Len(p) + 1 \in 1 .. Len(n)
    BY <1>2, <2>2, SMT DEF FromEnd
  <2>5. FromEnd(n, Len(p)) # dotWildcard
    BY <2>4 DEF Whole
  <2> QED
    BY <2>2, <2>3, <2>5, Wildcards DEF OnName
<1>4. m \in 1 .. Len(x.pat)
  BY <1>2, <1>3, SMT
<1>5. l \in Label /\ l \in {FromEnd(n, m), wildcard, dotWildcard}
  BY <1>1, <1>2, <1>4, PathOf DEF Fits
<1> HIDE DEF l
<1>6. /\ Len(Append(p, l)) = m /\ Append(p, l)[m] = l
      /\ \A i \in 1 .. Len(p) : Append(p, l)[i] = p[i]
  BY <1>5, SMT
<1>7. Under(x, Append(p, l))
  <2>1. \A i \in 1 .. m : FromEnd(x.pat, i) = Append(p, l)[i]
    BY <1>1, <1>2, <1>6, SMT DEF Under, l
  <2> QED
    BY <1>4, <1>6, <2>1, SMT DEF Under
<1> QED
  BY <1>1, <1>3, <1>5, <1>7 DEF Fitting, l

\* A node and its child.
LEMMA Appended ==
    ASSUME NEW S, NEW p \in Seq(S), NEW l
    PROVE  /\ Len(p) \in Nat /\ Len(Append(p, l)) = Len(p) + 1 /\ Append(p, l)[Len(p) + 1] = l
           /\ \A k \in 1 .. Len(p) : Append(p, l)[k] = p[k]
<1>1. p \in Seq(S \cup {l})
  BY SMT
<1> QED
  BY <1>1, SMT

\* The first of the children that leads to data has the best of the fitting entries.
LEMMA FirstChildIsBest ==
    ASSUME NEW E, Tidy(E), NEW S, NEW n \in Seq(S), Whole(n), NEW p \in Seq(Label),
           OnName(n, p), Len(p) < Len(n), NEW label, label = FromEnd(n, Len(p) + 1),
           NEW a, Right(E, n, Append(p, label), a),
           NEW b, Right(E, n, Append(p, wildcard), b),
           NEW c, Right(E, n, Append(p, dotWildcard), c)
    PROVE  Right(E, n, p, IF a # NoData THEN a ELSE IF b # NoData THEN b ELSE c)
<1> DEFINE Fit(l) == Fitting(E, n, Append(p, l))
           All == Fitting(E, n, p)
<1>1. ASSUME NEW l, NEW x \in Fit(l)
      PROVE  x \in All /\ x \in E /\ Under(x, Append(p, l)) /\ l \in Label
  <2>1. x \in E /\ Fits(x.pat, n) /\ Under(x, Append(p, l)) /\ x \in Entry
    BY <1>1 DEF Fitting, Tidy
  <2>2. x.pat \in Seq(Label) /\ Len(x.pat) \in Nat
    BY <2>1, Entries
  <2>3. Under(x, p) /\ Len(p) + 1 \in 1 .. Len(x.pat) /\ FromEnd(x.pat, Len(p) + 1) = l
    BY <2>1, <2>2, Appended, SMT DEF Under
  <2>4. l \in Label
    BY <2>2, <2>3, PathOf
  <2> QED
    BY <2>1, <2>3, <2>4 DEF Fitting
<1>2. ASSUME NEW z \in All PROVE \E l \in Label \cap {label, wildcard, dotWildcard} : z \in Fit(l)
  BY FittingChildren
<1>3. label # dotWildcard
  <2>1. Len(n) \in Nat /\ Len(p) \in Nat
    BY SMT
  <2>2. label = n[Len(n) - Len(p)] /\ Len(n) - Len(p) \in 1 .. Len(n)
    BY <2>1, SMT DEF FromEnd
  <2> QED
    BY <2>2 DEF Whole
<1>4. a = NoData => Fit(label) = {}
  BY DEF Right
<1>5. b = NoData => Fit(wildcard) = {}
  BY DEF Right
<1>6. c = NoData => Fit(dotWildcard) = {}
  BY DEF Right
<1>7. CASE a # NoData
  <2>1. PICK x \in Fit(label) : x.item = a /\ \A z \in Fit(label) : Better(x, z)
    BY <1>7 DEF Right
  <2>2. x \in All /\ x \in E /\ Under(x, Append(p, label)) /\ label \in Label
    BY <1>1
  <2>3. ASSUME NEW z \in All PROVE Better(x, z)
    <3>1. PICK l \in Label \cap {label, wildcard, dotWildcard} : z \in Fit(l)
      BY <1>2
    <3>2. z \in E /\ Under(z, Append(p, l))
      BY <1>1, <3>1
    <3>3. CASE l = label
      BY <2>1, <3>1, <3>3
    <3>4. CASE l # label
      BY <1>3, <2>2, <3>1, <3>2, <3>4, BetterChild
    <3> QED
      BY <3>3, <3>4
  <2> QED
    BY <1>7, <2>1, <2>2, <2>3 DEF Right
<1>8. CASE a = NoData /\ b # NoData
  <2>1. PICK x \in Fit(wildcard) : x.item = b /\ \A z \in Fit(wildcard) : Better(x, z)
    BY <1>8 DEF Right
  <2>2. x \in All /\ x \in E /\ Under(x, Append(p, wildcard)) /\ wildcard \in Label
    BY <1>1
  <2>3. ASSUME NEW z \in All PROVE Better(x, z)
    <3>1. PICK l \in Label \cap {label, wildcard, dotWildcard} : z \in Fit(l)
      BY <1>2
    <3>2. z \in E /\ Under(z, Append(p, l))
      BY <1>1, <3>1
    <3>3. CASE l = wildcard
      BY <2>1, <3>1, <3>3
    <3>4. CASE l # wildcard
      BY <1>4, <1>8, <2>2, <3>1, <3>2, <3>4, BetterChild
    <3> QED
      BY <3>3, <3>4
  <2> QED
    BY <1>8, <2>1, <2>2, <2>3 DEF Right
<1>9. CASE a = NoData /\ b = NoData
  <2>1. \A z \in All : z \in Fit(dotWildcard)
    BY <1>2, <1>4, <1>5, <1>9
  <2>2. \A z \in Fit(dotWildcard) : z \in All
    BY <1>1
  <2>3. All = Fit(dotWildcard)
    BY <2>1, <2>2
  <2> QED
    BY <1>9, <2>3 DEF Right
<1> QED
  BY <1>7, <1>8, <1>9

\* search finds the item of the best pattern that fits, and nothing when none does.
LEMMA SearchIsRight ==
    ASSUME NEW E, Tidy(E), NEW t, TrieOK(t, E), NEW S, NEW n \in Seq(S), Whole(n)
    PROVE  Right(E, n, <<>>, search(t, n)[<<>>])
<1> DEFINE N == Len(n)
           find == search(t, n)
           L == { k \in 0 .. N : \A p \in DOMAIN t : OnName(n, p) /\ Len(p) + k = N =>
                                     Right(E, n, p, find[p]) }
<1>1. \A p \in DOMAIN t : find[p] = Visit(t, n, find, p)
  BY SearchVisits, SMT DEF TrieOK
<1>2. N \in Nat /\ \A p \in DOMAIN t : p \in Seq(Label) /\ Len(p) \in Nat
  BY SMT DEF TrieOK
<1> HIDE DEF find
<1>3. 0 \in L
  <2>1. ASSUME NEW p \in DOMAIN t, OnName(n, p), Len(p) + 0 = N PROVE Right(E, n, p, find[p])
    <3>1. Len(p) = Len(n)
      BY <1>2, <2>1, SMT
    <3>2. find[p] = t[p]
      BY <1>1, <1>2, <3>1, SMT DEF Visit
    <3> QED
      BY <2>1, <3>1, <3>2, RightAtTheEnd
  <2> QED
    BY <1>2, <2>1, SMT
<1>4. ASSUME NEW k \in 0 .. N - 1, k \in L PROVE k + 1 \in L
  <2>1. ASSUME NEW p \in DOMAIN t, OnName(n, p), Len(p) + (k + 1) = N PROVE Right(E, n, p, find[p])
    <3> DEFINE label == FromEnd(n, Len(p) + 1)
    <3>1. p \in Seq(Label) /\ Len(p) < Len(n) /\ label = n[Len(n) - Len(p)]
      BY <1>2, <2>1, SMT DEF FromEnd
    <3> HIDE DEF label
    <3>2. ASSUME NEW l \in {label, wildcard}
          PROVE  Right(E, n, Append(p, l), Child(t, find, p, l))
      <4> DEFINE q == Append(p, l)
      <4>1. Len(q) = Len(p) + 1 /\ q[Len(p) + 1] = l /\ \A i \in 1 .. Len(p) : q[i] = p[i]
        BY <3>1, Appended, SMT
      <4> HIDE DEF q
      <4>2. CASE q \in DOMAIN t
        <5>1. \A i \in 1 .. Len(q) : q[i] \in {FromEnd(n, i), wildcard}
          BY <1>2, <2>1, <4>1, SMT DEF OnName, label
        <5>2. OnName(n, q) /\ Len(q) + k = N
          BY <1>2, <2>1, <4>1, <5>1, SMT DEF OnName
        <5>3. Right(E, n, q, find[q])
          BY <1>4, <4>2, <5>2
        <5> QED
          BY <4>2, <5>3 DEF Child, q
      <4>3. CASE q \notin DOMAIN t
        <5>1. ASSUME NEW x \in E, Under(x, q) PROVE FALSE
          <6>1. x \in Entry /\ Len(x.pat) \in Nat
            BY Entries DEF Tidy
          <6>2. Under(x, p) /\ Len(x.pat) > Len(p) /\ FromEnd(x.pat, Len(p) + 1) = l
            BY <1>2, <4>1, <5>1, <6>1, SMT DEF Under
          <6> QED
            BY <4>3, <6>2, OnTheWay DEF q, Tidy
        <5> QED
          BY <4>3, <5>1 DEF Child, q, Right, Fitting
      <4> QED
        BY <4>2, <4>3 DEF q
    <3>3. Right(E, n, Append(p, dotWildcard), Data(t, Append(p, dotWildcard)))
      BY <2>1, <3>1, RightAtDots
    <3> DEFINE a == Child(t, find, p, label)
               b == Child(t, find, p, wildcard)
               c == Data(t, Append(p, dotWildcard))
    <3>4. find[p] = IF a # NoData THEN a ELSE IF b # NoData THEN b ELSE c
      BY <1>1, <1>2, <3>1, SMT DEF Visit
    <3>5. Right(E, n, Append(p, label), a) /\ Right(E, n, Append(p, wildcard), b)
      BY <3>2
    <3> HIDE DEF a, b, c
    <3>6. Right(E, n, p, IF a # NoData THEN a ELSE IF b # NoData THEN b ELSE c)
      BY <2>1, <3>1, <3>3, <3>5, FirstChildIsBest DEF c, label
    <3> QED
      BY <3>4, <3>6
  <2> QED
    BY <1>2, <2>1, SMT
<1>5. N \in L
  <2>1. \A k \in 0 .. N - 1 : k \in L => k + 1 \in L
    BY <1>4
  <2> HIDE DEF L, N
  <2>2. \A k \in 0 .. N : k \in L
    BY <1>2, <1>3, <2>1, CountUp
  <2> QED
    BY <1>2, <2>2, SMT
<1>6. <<>> \in DOMAIN t /\ OnName(n, <<>>) /\ Len(<<>>) + N = N
  BY <1>2, SMT DEF TrieOK, OnName
<1> QED
  BY <1>5, <1>6 DEF find

\* Two patterns that fit one name differ at a label both have, or not at all.
LEMMA DifferWithin ==
    ASSUME NEW E, Tidy(E), NEW S, NEW n \in Seq(S), NEW x \in E, NEW y \in E,
           Fits(x.pat, n), Fits(y.pat, n), Len(y.pat) < Len(x.pat)
    PROVE  Worth(x.pat, Len(y.pat)) # Worth(y.pat, Len(y.pat)) /\ Len(y.pat) \in 1 .. Len(x.pat)
<1> DEFINE m == Len(y.pat)
<1>1. x \in Entry /\ y \in Entry
  BY DEF Tidy
<1>2. x.pat \in Seq(Label) /\ Len(x.pat) \in Nat /\ y.pat \in Seq(Label) /\ m \in Nat /\ Len(n) \in Nat
  BY <1>1, Entries, SMT
<1>3. y.pat # <<>> /\ y.pat[1] = dotWildcard
  BY <1>2, SMT DEF Fits
<1>4. m \in 1 .. Len(x.pat) /\ FromEnd(y.pat, m) = y.pat[1]
  BY <1>2, <1>3, SMT DEF FromEnd
<1>5. FromEnd(x.pat, m) = x.pat[Len(x.pat) - m + 1] /\ Len(x.pat) - m + 1 \in 2 .. Len(x.pat)
  <2>1. m >= 1 /\ m < Len(x.pat)
    BY <1>2, <1>4, SMT
  <2> HIDE DEF m
  <2>2. Len(x.pat) - m + 1 \in 2 .. Len(x.pat)
    BY <1>2, <2>1, SMT
  <2> QED
    BY <2>2 DEF FromEnd
<1>6. FromEnd(x.pat, m) # dotWildcard
  BY <1>5 DEF Tidy
<1> HIDE DEF m
<1>7. Worth(y.pat, m) = 1
  BY <1>2, <1>3, <1>4, Wildcards, SMT DEF Worth, m
<1>8. Worth(x.pat, m) # 1
  BY <1>2, <1>4, <1>6, Wildcards, SMT DEF Worth
<1> QED
  BY <1>4, <1>7, <1>8 DEF m

\* Of two patterns that fit one name and differ only one is better.
LEMMA OneIsBetter ==
    ASSUME NEW E, Tidy(E), NEW S, NEW n \in Seq(S), NEW x \in E, NEW y \in E,
           Fits(x.pat, n), Fits(y.pat, n), Better(x, y), Better(y, x)
    PROVE  \A k \in 1 .. Len(x.pat) : Worth(x.pat, k) = Worth(y.pat, k)
<1> DEFINE D == { k \in 1 .. Len(x.pat) : Worth(x.pat, k) # Worth(y.pat, k) }
           C == { k \in 1 .. Len(y.pat) : Worth(y.pat, k) # Worth(x.pat, k) }
<1>1. Len(x.pat) \in Nat /\ Len(y.pat) \in Nat
  BY Entries DEF Tidy
<1>2. \A p, k : k \in Nat => Worth(p, k) \in Nat
  BY DEF Worth
<1> SUFFICES ASSUME D # {} PROVE FALSE
  OBVIOUS
<1>3. D \in SUBSET Nat /\ C \in SUBSET Nat
  BY <1>1, SMT
<1>4. /\ Better(x, y) = (IF D = {} THEN x.item >= y.item
                         ELSE Worth(x.pat, Min(D)) > Worth(y.pat, Min(D)))
      /\ Better(y, x) = (IF C = {} THEN y.item >= x.item
                         ELSE Worth(y.pat, Min(C)) > Worth(x.pat, Min(C)))
  BY DEF Better
<1>5. Len(y.pat) < Len(x.pat) => Len(y.pat) \in D
  BY DifferWithin
<1> DEFINE m == Min(D)
<1>6. m \in D /\ \A k \in D : m <= k
  <2> HIDE DEF D
  <2>1. PICK a \in D : \A k \in D : a <= k
    BY <1>3, LeastNumber
  <2> QED
    BY <2>1 DEF Min
<1> HIDE DEF m
<1>7. m \in Nat /\ m <= Len(y.pat) /\ m \in C /\ \A k \in C : m <= k
  <2>1. m \in Nat /\ m >= 1 /\ m <= Len(x.pat)
    BY <1>1, <1>6, SMT
  <2>2. m <= Len(y.pat)
    BY <1>1, <1>5, <1>6, <2>1, SMT
  <2>3. m \in C
    BY <1>1, <1>6, <2>1, <2>2, SMT
  <2>4. ASSUME NEW k \in C PROVE m <= k
    <3>1. CASE k \in D
      BY <1>6, <3>1
    <3>2. CASE k \notin D
      BY <1>1, <2>1, <3>2, SMT
    <3> QED
      BY <3>1, <3>2
  <2> QED
    BY <2>1, <2>2, <2>3, <2>4
<1>8. Min(C) = m
  <2> HIDE DEF C
  <2>1. Min(C) \in C /\ \A k \in C : Min(C) <= k
    BY <1>7 DEF Min
  <2> DEFINE a == Min(C)
  <2> HIDE DEF a
  <2>2. a \in Nat /\ a <= m /\ m <= a
    BY <1>3, <1>7, <2>1 DEF a
  <2>3. a = m
    BY <1>7, <2>2, SMT
  <2> QED
    BY <2>3 DEF a
<1>9. Worth(x.pat, m) > Worth(y.pat, m) /\ Worth(y.pat, m) > Worth(x.pat, m)
  BY <1>4, <1>7, <1>8 DEF m
<1> QED
  BY <1>2, <1>7, <1>9, SMT

\* Two patterns that fit one name and are as good as each other are of one item.
LEMMA TieOfOne ==
    ASSUME NEW E, Tidy(E), NEW S, NEW n \in Seq(S), NEW x \in E, NEW y \in E,
           Fits(x.pat, n), Fits(y.pat, n), Better(x, y), Better(y, x)
    PROVE  x.item = y.item
<1>1. x.item \in Nat /\ y.item \in Nat
  BY Entries DEF Tidy
<1>2. \A k \in 1 .. Len(x.pat) : Worth(x.pat, k) = Worth(y.pat, k)
  BY OneIsBetter
<1>3. \A k \in 1 .. Len(y.pat) : Worth(y.pat, k) = Worth(x.pat, k)
  BY OneIsBetter
<1>4. x.item >= y.item
  BY <1>2 DEF Better
<1>5. y.item >= x.item
  BY <1>3 DEF Better
<1> QED
  BY <1>1, <1>4, <1>5, SMT

----------------------------------------------------------------------------
\* The patterns of the rules have no empty label but at the front.
LEMMA TidyPatterns ==
    ASSUME NEW i \in {1, 3}
    PROVE  Tidy(Patterns(i)) /\ \A x \in Patterns(i) : x.item \in DOMAIN MS[i]
<1>1. Patterns(i) \in SUBSET Entry
  BY TrieOfPatterns
<1>2. ASSUME NEW x \in Patterns(i)
      PROVE  x.item \in DOMAIN MS[i] /\ \A k \in 2 .. Len(x.pat) : x.pat[k] # dotWildcard
  <2>1. PICK j \in DOMAIN MS[i] : \E q \in Stated(i, j) : \E p \in Plain(q) : x = [pat |-> p, item |-> j]
    BY DEF Patterns
  <2>2. PICK q \in Stated(i, j) : \E p \in Plain(q) : x = [pat |-> p, item |-> j]
    BY <2>1
  <2>3. PICK p \in Plain(q) : x = [pat |-> p, item |-> j]
    BY <2>2
  <2>4. x.item = j /\ x.pat = p
    BY <2>3
  <2>5. PICK v \in Range(MS[i][j].value) : q = Prefix(i) \o v /\ Proper(q)
    BY DEF Stated
  <2>6. v \in Seq(Label) /\ v # <<>>
    <3>1. MS[i][j].value \in Seq(Seq(Label) \ {<<>>})
      <4>1. MS[i][j] \in Range(MS[i])
        BY DEF Range
      <4> QED
        BY <4>1, RuleAssumption
    <3>2. Range(MS[i][j].value) \subseteq Seq(Label) \ {<<>>}
      BY <3>1, MembersInSet
    <3> QED
      BY <3>2
  <2>7. Prefix(i) \in Seq(Label)
    <3>1. <<complexWildcard>> \in Seq(Label)
      BY OneLabel, RuleAssumption
    <3> QED
      BY <3>1, SMT DEF Prefix
  <2>8. q \in Seq(Label) /\ Len(q) \in Nat /\ Len(q) >= 1
    BY <2>5, <2>6, <2>7, SMT
  <2>9. Tail(q) \in Seq(Label) /\ Len(Tail(q)) = Len(q) - 1
        /\ \A k \in 1 .. Len(q) - 1 : Tail(q)[k] = q[k + 1]
    BY <2>8, SMT
  <2>10. \A k \in 2 .. Len(q) : q[k] # dotWildcard
    BY <2>5 DEF Proper
  <2> DEFINE d == <<dotWildcard>>
  <2>11. dotWildcard \in Label
    BY RuleAssumption
  <2> HIDE DEF d
  <2>12. Len(d \o Tail(q)) = Len(q) /\ \A k \in 2 .. Len(q) : (d \o Tail(q))[k] = q[k]
    BY <2>8, <2>11, FirstReplaced, SMT DEF d
  <2>13. p = q \/ p = Tail(q) \/ p = d \o Tail(q)
    BY DEF Plain, d
  <2>14. \A k \in 2 .. Len(p) : p[k] # dotWildcard
    <3>1. CASE p = q
      BY <2>10, <3>1
    <3>2. CASE p = Tail(q)
      BY <2>8, <2>9, <2>10, <3>2, SMT
    <3>3. CASE p = d \o Tail(q)
      BY <2>10, <2>12, <3>3
    <3> QED
      BY <2>13, <3>1, <3>2, <3>3
  <2> QED
    BY <2>4, <2>14
<1> QED
  BY <1>1, <1>2 DEF Tidy

\* What the trie is asked for is a sequence of at least one part.
LEMMA PartsOf ==
    ASSUME NEW t \in Target
    PROVE  Parts(t) \in Seq(Label \cup IP) /\ Len(Parts(t)) \in Nat /\ Len(Parts(t)) >= 1
<1>1. CASE t \in IP
  BY <1>1, SMT DEF Parts
<1>2. CASE t \notin IP
  <2>1. t \in Seq(Label) /\ t # <<>> /\ Parts(t) = t
    BY <1>2, RuleAssumption DEF Target, Parts
  <2>2. t \in Seq(Label \cup IP) /\ Len(t) \in Nat /\ Len(t) >= 1
    BY <2>1, SMT
  <2> QED
    BY <2>1, <2>2
<1> QED
  BY <1>1, <1>2

\* The tries of the two matchers that have one.
LEMMA TrieOfType ==
    ASSUME NEW i \in {1, 3}
    PROVE  Type[i] \in {"domain", "suffix"} /\ Trie[Type[i]] = TrieOf(MS[i], Prefix(i))
<1>1. CASE i = 1
  BY <1>1 DEF Type, Trie, Prefix
<1>2. CASE i = 3
  BY <1>2 DEF Type, Trie, Prefix
<1> QED
  BY <1>1, <1>2

\* The trie of a matcher finds the item of the best pattern that fits.
LEMMA TrieFinds ==
    ASSUME NEW i \in {1, 3}, NEW t \in Target
    PROVE  /\ Found(i, t) = 0 => Best(i, t) = {}
           /\ Found(i, t) # 0 => Best(i, t) = {Found(i, t)} /\ Found(i, t) \in DOMAIN MS[i]
<1> DEFINE E == Patterns(i)
           tr == TrieOf(MS[i], Prefix(i))
           n == Parts(t)
           F == { x \in E : Fits(x.pat, n) }
           d == Found(i, t)
<1>1. Tidy(E) /\ TrieOK(tr, E) /\ \A x \in E : x.item \in DOMAIN MS[i]
  BY TidyPatterns, TrieOfPatterns
<1>2. n \in Seq(Label \cup IP) /\ Len(n) \in Nat /\ Len(n) >= 1
  BY PartsOf
<1>3. d = Search(tr, n)
  BY TrieOfType DEF Found
<1>4. Best(i, t) = { x.item : x \in { y \in F : \A z \in F : Better(y, z) } }
  BY DEF Best
<1> HIDE DEF E, tr, n, d
<1>5. Whole(n) <=> ValidAndSplitDomain(n) /\ n[1] # dotWildcard
  <2>1. 1 .. Len(n) = {1} \cup (2 .. Len(n))
    BY <1>2, SMT
  <2> QED
    BY <1>2, <2>1, SMT DEF Whole, ValidAndSplitDomain
<1>6. CASE ~Whole(n)
  <2>1. d = 0
    BY <1>3, <1>5, <1>6 DEF Search, NoData
  <2>2. F = {}
    BY <1>2, <1>6, SMT DEF Whole, Fits
  <2> QED
    BY <1>4, <2>1, <2>2 DEF d
<1>7. CASE Whole(n)
  <2>1. d = search(tr, n)[<<>>]
    BY <1>3, <1>5, <1>7 DEF Search
  <2>2. Right(E, n, <<>>, d)
    BY <1>1, <1>2, <1>7, <2>1, SearchIsRight
  <2>3. Fitting(E, n, <<>>) = F
    <3>1. \A x \in E : Under(x, <<>>)
      BY <1>1, Entries, SMT DEF Tidy, Under
    <3> QED
      BY <3>1 DEF Fitting
  <2>4. CASE d = 0
    BY <1>4, <2>2, <2>3, <2>4 DEF Right, NoData, d
  <2>5. CASE d # 0
    <3>1. PICK x \in F : x.item = d /\ \A z \in F : Better(x, z)
      BY <2>2, <2>3, <2>5 DEF Right, NoData
    <3>2. ASSUME NEW y \in F, \A z \in F : Better(y, z) PROVE y.item = d
      BY <1>1, <1>2, <3>1, <3>2, TieOfOne, SMT
    <3>3. Best(i, t) = {d}
      BY <1>4, <3>1, <3>2
    <3> QED
      BY <1>1, <2>5, <3>1, <3>3 DEF d
  <2> QED
    BY <2>4, <2>5
<1> QED
  BY <1>6, <1>7

----------------------------------------------------------------------------
\* *target as the matchers before i leave it.
Before(i, t) == Sees(<<i, 0>>, t)

\* The types of the matchers.
LEMMA Types ==
    /\ Type[1] = "domain" /\ Type[2] = "keyword" /\ Type[3] = "suffix"
    /\ Type[4] = "geoip" /\ Type[5] = "ipcidr" /\ Type[6] = "others"
BY DEF Type

\* A place is a matcher and an item of it.
LEMMA Places ==
    /\ \A q \in Place : /\ q[1] \in 1 .. 6 /\ q[2] \in DOMAIN MS[q[1]] /\ q[2] \in Nat /\ q[2] >= 1
                        /\ q = <<q[1], q[2]>>
    /\ \A i \in 1 .. 6 : \A j \in DOMAIN MS[i] : <<i, j>> \in Place
<1>1. ASSUME NEW q \in Place
      PROVE  /\ q[1] \in 1 .. 6 /\ q[2] \in DOMAIN MS[q[1]] /\ q[2] \in Nat /\ q[2] >= 1
             /\ q = <<q[1], q[2]>>
  <2>1. PICK i \in 1 .. 6 : q \in {i} \X DOMAIN MS[i]
    BY Matchers DEF Place
  <2>2. q[1] = i /\ q[2] \in DOMAIN MS[i] /\ q = <<q[1], q[2]>>
    BY <2>1, SMT
  <2>3. MS[i] \in Seq(Range(MS[i]))
    BY Matchers
  <2>4. \A j \in DOMAIN MS[i] : j \in Nat /\ j >= 1
    BY <2>3, SMT
  <2> QED
    BY <2>2, <2>4
<1>2. ASSUME NEW i \in 1 .. 6, NEW j \in DOMAIN MS[i] PROVE <<i, j>> \in Place
  BY Matchers, SMT DEF Place
<1> QED
  BY <1>1, <1>2

\* The places of the items that resolve t.
Resolving(t) == { q \in Place : Type[q[1]] \in {"geoip", "ipcidr"} /\ Resolved(ItemAt(q), t) # t }

\* Only geoip and ipcidr items resolve a target, and only a name.
LEMMA ResolvingPlaces ==
    ASSUME NEW t \in Target
    PROVE  /\ \A q \in Resolving(t) : q \in Place /\ q[1] \in {4, 5}
           /\ Resolving(t) # {} => t \in Name /\ Lookup[t] \in IP
           /\ \A p : Sees(p, t) = IF \E q \in Resolving(t) : Upto(q, p) THEN Lookup[t] ELSE t
           /\ \A p : Sees(p, t) \in Target
<1>1. \A q \in Resolving(t) : q \in Place /\ q[1] \in {4, 5}
  <2> SUFFICES ASSUME NEW q \in Resolving(t) PROVE q \in Place /\ q[1] \in {4, 5}
    OBVIOUS
  <2>1. q \in Place /\ q[1] \in 1 .. 6 /\ Type[q[1]] \in {"geoip", "ipcidr"}
    BY Places DEF Resolving
  <2> QED
    BY <2>1, Types, SMT
<1>2. Resolving(t) # {} => t \in Name /\ Lookup[t] \in IP
  <2>1. \A item : Resolved(item, t) # t => t \in Name /\ Lookup[t] # NIL
    BY DEF Resolved
  <2>2. t \in Name => Lookup[t] \in IP \cup {NIL}
    BY RuleAssumption
  <2> QED
    BY <2>1, <2>2 DEF Resolving
<1>3. \A p : Sees(p, t) = IF \E q \in Resolving(t) : Upto(q, p) THEN Lookup[t] ELSE t
  BY DEF Sees, Resolving
<1> QED
  BY <1>1, <1>2, <1>3 DEF Target

\* A matcher sees the target as given unless an item of an earlier one resolved it.
LEMMA BeforeIs ==
    ASSUME NEW t \in Target, NEW i \in 1 .. 7
    PROVE  /\ Before(i, t) = IF \E q \in Resolving(t) : q[1] < i THEN Lookup[t] ELSE t
           /\ Before(i, t) \in Target
           /\ i <= 4 => Before(i, t) = t
<1>1. ASSUME NEW q \in Resolving(t) PROVE Upto(q, <<i, 0>>) <=> q[1] < i
  <2>1. q[1] \in 1 .. 6 /\ q[2] \in Nat /\ q[2] >= 1
    BY ResolvingPlaces, Places
  <2> QED
    BY <2>1, SMT DEF Upto
<1>2. Before(i, t) = (IF \E q \in Resolving(t) : q[1] < i THEN Lookup[t] ELSE t)
  BY <1>1, ResolvingPlaces DEF Before
<1>3. i <= 4 => ~ \E q \in Resolving(t) : q[1] < i
  BY ResolvingPlaces, SMT
<1> QED
  BY <1>2, <1>3, ResolvingPlaces DEF Before

\* An address is not resolved again.
LEMMA AddressStays ==
    ASSUME NEW a \in IP, NEW items, NEW j
    PROVE  SeenBy(items, j, a) = a
<1>1. a \notin Name
  BY RuleAssumption
<1>2. \A item : Resolved(item, a) = a
  BY <1>1 DEF Resolved
<1> QED
  BY <1>2 DEF SeenBy

\* What an item sees, from what its matcher was given.
LEMMA SeenBySees ==
    ASSUME NEW t \in Target, NEW i \in {4, 5}, NEW j \in 0 .. Len(MS[i])
    PROVE  SeenBy(MS[i], j, Before(i, t)) = Sees(<<i, j>>, t)
<1> DEFINE R == Resolving(t)
<1>0. Len(MS[i]) \in Nat /\ DOMAIN MS[i] = 1 .. Len(MS[i])
  BY Matchers, SMT
<1>1. Sees(<<i, j>>, t) = IF \E q \in R : Upto(q, <<i, j>>) THEN Lookup[t] ELSE t
  BY ResolvingPlaces
<1>2. Before(i, t) = IF \E q \in R : q[1] < i THEN Lookup[t] ELSE t
  BY BeforeIs, SMT
<1>3. CASE \E q \in R : q[1] < i
  <2>1. Before(i, t) = Lookup[t] /\ Lookup[t] \in IP
    BY <1>2, <1>3, ResolvingPlaces
  <2>2. Sees(<<i, j>>, t) = Lookup[t]
    BY <1>1, <1>3 DEF Upto
  <2> QED
    BY <2>1, <2>2, AddressStays
<1>4. CASE ~ \E q \in R : q[1] < i
  <2>1. Before(i, t) = t
    BY <1>2, <1>4
  <2>2. ASSUME NEW k \in 1 .. j, Resolved(MS[i][k], t) # t PROVE \E q \in R : Upto(q, <<i, j>>)
    <3>1. k \in DOMAIN MS[i] /\ <<i, k>> \in Place
      BY <1>0, Places, SMT
    <3>2. <<i, k>> \in R
      BY <2>2, <3>1, Types DEF Resolving, ItemAt
    <3>3. Upto(<<i, k>>, <<i, j>>)
      BY SMT DEF Upto
    <3> QED
      BY <3>2, <3>3
  <2>3. ASSUME NEW q \in R, Upto(q, <<i, j>>) PROVE \E k \in 1 .. j : Resolved(MS[i][k], t) # t
    <3>1. q[1] \in 1 .. 6 /\ q[2] \in Nat /\ q[2] >= 1
      BY ResolvingPlaces, Places
    <3>2. q[1] = i /\ q[2] \in 1 .. j
      BY <1>4, <2>3, <3>1, SMT DEF Upto
    <3>3. Resolved(MS[i][q[2]], t) # t
      BY <3>2 DEF Resolving, ItemAt
    <3> QED
      BY <3>2, <3>3
  <2>4. SeenBy(MS[i], j, t) = IF \E k \in 1 .. j : Resolved(MS[i][k], t) # t THEN Lookup[t] ELSE t
    BY DEF SeenBy
  <2> QED
    BY <1>1, <2>1, <2>2, <2>3, <2>4
<1> QED
  BY <1>3, <1>4

\* A matcher that misses leaves *target as the next one is to see it.
LEMMA RewrittenBefore ==
    ASSUME NEW t \in Target, NEW i \in 1 .. 6
    PROVE  Rewritten(i, Len(MS[i]), Before(i, t)) = Before(i + 1, t)
<1>0. Len(MS[i]) \in Nat /\ DOMAIN MS[i] = 1 .. Len(MS[i]) /\ i + 1 \in 1 .. 7
  <2>1. DOMAIN MS[i] = 1 .. Len(MS[i]) /\ Len(MS[i]) \in Nat
    BY Indices
  <2>2. i + 1 \in 1 .. 7
    BY SMT
  <2> QED
    BY <2>1, <2>2
<1>1. CASE i \in {4, 5}
  <2>1. Rewritten(i, Len(MS[i]), Before(i, t)) = Sees(<<i, Len(MS[i])>>, t)
    BY <1>0, <1>1, SeenBySees, Types, SMT DEF Rewritten
  <2>2. ASSUME NEW q \in Resolving(t) PROVE Upto(q, <<i, Len(MS[i])>>) <=> q[1] < i + 1
    <3>1. q \in Place /\ q[1] \in 1 .. 6 /\ q[2] \in DOMAIN MS[q[1]]
      BY ResolvingPlaces, Places
    <3>2. q[1] = i => q[2] <= Len(MS[i])
      BY <1>0, <3>1, SMT
    <3> QED
      BY <3>1, <3>2, SMT DEF Upto
  <2> QED
    BY <1>0, <2>1, <2>2, BeforeIs, ResolvingPlaces
<1>2. CASE i \notin {4, 5}
  <2>1. Rewritten(i, Len(MS[i]), Before(i, t)) = Before(i, t)
    BY <1>2, Types, SMT DEF Rewritten
  <2>2. ASSUME NEW q \in Resolving(t) PROVE q[1] < i <=> q[1] < i + 1
    BY <1>2, ResolvingPlaces, SMT
  <2> QED
    BY <1>0, <2>1, <2>2, BeforeIs, SMT
<1> QED
  BY <1>1, <1>2

\* The items of a matcher that cover the target.
CoveringIn(i, t) == { j \in DOMAIN MS[i] : <<i, j>> \in Covering[t] }

\* The places that cover a target, matcher by matcher.
LEMMA CoveringIs ==
    ASSUME NEW t \in Target, NEW i \in 1 .. 6
    PROVE  /\ CoveringIn(i, t) = { j \in DOMAIN MS[i] : Covers(<<i, j>>, t) }
           /\ \A p \in Covering[t] : p \in Place
<1>1. Covering[t] = { p \in Place : Covers(p, t) }
  BY DEF Covering
<1> QED
  BY <1>1, Places DEF CoveringIn

\* The hits of a matcher without a trie are its items that cover the target.
LEMMA HitsCover ==
    ASSUME NEW t \in Target, NEW i \in {2, 4, 5, 6}
    PROVE  Hits(i, Before(i, t)) = CoveringIn(i, t)
<1> DEFINE b == Before(i, t)
           items == MS[i]
<1>0. CoveringIn(i, t) = { j \in DOMAIN MS[i] : Covers(<<i, j>>, t) }
  BY CoveringIs, SMT
<1>1. CASE i = 2
  <2>1. b = t
    BY <1>1, BeforeIs, SMT
  <2>2. Hits(i, t) = { j \in DOMAIN items : Range(items[j].value) \cap Range(Parts(t)) # {} }
    BY <1>1, Types DEF Hits
  <2>3. \A j \in DOMAIN items : Covers(<<i, j>>, t) <=>
                                   \E l \in Range(items[j].value) : l \in Range(Parts(t))
    BY <1>1, Types DEF Covers, ItemAt
  <2> QED
    BY <1>0, <2>1, <2>2, <2>3
<1>2. CASE i \in {4, 5}
  <2>1. Hits(i, b) = { j \in DOMAIN items : SeenBy(items, j, b) \in items[j].value }
    BY <1>2, Types DEF Hits
  <2>2. \A j \in DOMAIN items : Covers(<<i, j>>, t) <=> Sees(<<i, j>>, t) \in items[j].value
    BY <1>2, Types DEF Covers, ItemAt
  <2>3. \A j \in DOMAIN items : j \in 0 .. Len(MS[i])
    BY <1>2, Matchers, SMT
  <2>4. \A j \in DOMAIN items : SeenBy(items, j, b) = Sees(<<i, j>>, t)
    BY <1>2, <2>3, SeenBySees
  <2> QED
    BY <1>0, <2>1, <2>2, <2>4
<1>3. CASE i = 6
  <2>1. Hits(i, b) = { j \in DOMAIN items : items[j].proxy # "" }
    BY <1>3, Types DEF Hits
  <2>2. \A j \in DOMAIN items : Covers(<<i, j>>, t) <=> items[j].proxy # ""
    BY <1>3, Types DEF Covers, ItemAt
  <2> QED
    BY <1>0, <2>1, <2>2
<1> QED
  BY <1>1, <1>2, <1>3

\* A matcher finds the first of its items that cover the target, if there is one.
LEMMA FoundFirst ==
    ASSUME NEW t \in Target, NEW i \in 1 .. 6
    PROVE  LET j == Found(i, Before(i, t))
           IN IF j = 0 THEN CoveringIn(i, t) = {}
              ELSE j \in CoveringIn(i, t) /\ \A k \in CoveringIn(i, t) : j <= k
<1> DEFINE b == Before(i, t)
           j == Found(i, b)
<1>1. CASE i \in {1, 3}
  <2>1. b = t
    BY <1>1, BeforeIs, SMT
  <2>2. ASSUME NEW k \in DOMAIN MS[i] PROVE Covers(<<i, k>>, t) <=> k \in Best(i, t)
    BY <1>1, Types DEF Covers
  <2>3. CoveringIn(i, t) = { k \in DOMAIN MS[i] : k \in Best(i, t) }
    BY <2>2, CoveringIs
  <2>4. /\ j = 0 => Best(i, t) = {}
        /\ j # 0 => Best(i, t) = {j} /\ j \in DOMAIN MS[i]
    BY <1>1, <2>1, TrieFinds
  <2>5. DOMAIN MS[i] \subseteq Nat
    <3>1. DOMAIN MS[i] = 1 .. Len(MS[i]) /\ Len(MS[i]) \in Nat
      BY <1>1, Indices
    <3> QED
      BY <3>1, SMT
  <2> HIDE DEF j
  <2>6. j # 0 => j \in Nat
    BY <2>4, <2>5
  <2> QED
    BY <2>3, <2>4, <2>6, SMT DEF j
<1>2. CASE i \in {2, 4, 5, 6}
  <2>1. Hits(i, b) = CoveringIn(i, t)
    BY <1>2, HitsCover
  <2>2. j = IF CoveringIn(i, t) = {} THEN 0 ELSE Min(CoveringIn(i, t))
    BY <1>2, <2>1, Types DEF Found
  <2>3. CoveringIn(i, t) \in SUBSET Nat /\ 0 \notin CoveringIn(i, t)
    <3>1. DOMAIN MS[i] = 1 .. Len(MS[i]) /\ Len(MS[i]) \in Nat
      BY Matchers
    <3> QED
      BY <3>1, SMT DEF CoveringIn
  <2>4. ASSUME CoveringIn(i, t) # {}
        PROVE  /\ Min(CoveringIn(i, t)) \in CoveringIn(i, t)
               /\ \A k \in CoveringIn(i, t) : Min(CoveringIn(i, t)) <= k
    <3>1. PICK a \in CoveringIn(i, t) : \A k \in CoveringIn(i, t) : a <= k
      BY <2>3, <2>4, LeastNumber
    <3> QED
      BY <3>1 DEF Min
  <2> HIDE DEF j
  <2> QED
    BY <2>2, <2>3, <2>4 DEF j
<1> QED
  BY <1>1, <1>2, SMT

\* The item found by the first matcher that has one is the first of all that cover the target.
LEMMA FoundIsFirst ==
    ASSUME NEW t \in Target, NEW i \in 1 .. 6, Found(i, Before(i, t)) # 0,
           \A p \in Covering[t] : ~(p[1] < i)
    PROVE  /\ Covering[t] # {} /\ Found(i, Before(i, t)) \in DOMAIN MS[i]
           /\ MS[i][Found(i, Before(i, t))] = FirstItem(t)
<1> DEFINE j == Found(i, Before(i, t))
           p0 == <<i, j>>
<1>1. j \in CoveringIn(i, t) /\ \A k \in CoveringIn(i, t) : j <= k
  BY FoundFirst
<1> HIDE DEF j
<1>2. p0 \in Covering[t] /\ j \in DOMAIN MS[i] /\ p0 \in Place
  BY <1>1, CoveringIs DEF CoveringIn
<1>3. j \in Nat
  <2>1. DOMAIN MS[i] = 1 .. Len(MS[i]) /\ Len(MS[i]) \in Nat
    BY Indices
  <2> QED
    BY <1>2, <2>1, SMT
<1>4. ASSUME NEW q \in Covering[t] PROVE Upto(p0, q) /\ (Upto(q, p0) => q = p0)
  <2>1. q \in Place
    BY CoveringIs
  <2>2. q[1] \in 1 .. 6 /\ q[2] \in DOMAIN MS[q[1]] /\ q[2] \in Nat /\ q = <<q[1], q[2]>>
    BY <2>1, Places
  <2>3. q[1] >= i
    BY <2>2, SMT
  <2>4. q[1] = i => j <= q[2]
    BY <1>1, <2>2 DEF CoveringIn
  <2>5. Upto(p0, q)
    BY <1>3, <2>2, <2>3, <2>4, SMT DEF Upto
  <2>6. Upto(q, p0) => q[1] = i /\ q[2] = j
    BY <1>3, <2>2, <2>3, <2>4, SMT DEF Upto
  <2> QED
    BY <2>2, <2>5, <2>6
<1>5. (CHOOSE p \in Covering[t] : \A q \in Covering[t] : Upto(p, q)) = p0
  BY <1>2, <1>4
<1>6. FirstItem(t) = MS[i][j]
  <2>1. ItemAt(p0) = MS[i][j]
    BY DEF ItemAt
  <2> HIDE DEF p0
  <2> QED
    BY <1>5, <2>1 DEF FirstItem
<1> QED
  BY <1>2, <1>6 DEF j

----------------------------------------------------------------------------
\* The state of the Ruler and of the handlers.
Items == UNION { Range(MS[i]) : i \in DOMAIN MS }
ByMode(m) == [mode |-> m, proxy |-> "auto-select", accept |-> TRUE]
Past == {"store", "store again"} \cup Reads

\* The fields and the handlers' own state.
TypeOK ==
    /\ ruleMode \in {"global", "direct", "match"}
    /\ matched \in {NIL} \cup (IF ruleMode = "match" THEN Items ELSE {ByMode(ruleMode)})
    /\ result \in [1 .. 6 -> Items \cup {NIL}]
    /\ pc \in [Conn -> {"idle", "match"} \cup Past]
    /\ req \in [Conn -> Target \cup {NIL}]
    /\ addr \in [Conn -> Target \cup {NIL}]
    /\ at \in [Conn -> 1 .. 7]
    /\ mixed \in SUBSET Conn

\* A handler in Match has passed only matchers that do not cover its target.
Trying(c) ==
    pc[c] = "match" /\ ruleMode = "match" =>
        /\ addr[c] = Before(at[c], req[c])
        /\ \A p \in Covering[req[c]] : ~(p[1] < at[c])

\* One that matched stands at a matcher that has a result; one that reads matched has one.
Hit(c) ==
    /\ pc[c] # "idle" => req[c] \in Target
    /\ pc[c] \in Past /\ ruleMode = "match" =>
           at[c] \in 1 .. 6 /\ Covering[req[c]] # {} /\ result[at[c]] # NIL
    /\ ruleMode # "match" => pc[c] \in {"idle", "match", "select"}
    /\ pc[c] \in Reads => matched # NIL

\* A handler that is alone finds its own rule in result and in matched.
Alone(c) == c \notin mixed /\ pc[c] # "idle" => \A d \in Conn \ {c} : pc[d] = "idle"
Own(c) ==
    c \notin mixed /\ ruleMode = "match" /\ pc[c] \in Past =>
        LET item == FirstItem(req[c])
            tested == {"select direct", "select named", "select return"}
        IN /\ result[at[c]] = item
           /\ pc[c] # "store" => matched = item
           /\ pc[c] \in {"store again", "select"} \cup tested => item.accept
           /\ pc[c] \in tested => item.proxy # "global"
           /\ pc[c] \in {"select named", "select return"} => item.proxy # "direct"
           /\ pc[c] = "select return" => item.proxy # ""

\* The inductive invariant.
RInv ==
    /\ TypeOK
    /\ \A c \in Conn : Trying(c) /\ Hit(c) /\ Alone(c) /\ Own(c)
    /\ RoutedWhenAlone /\ UncoveredDropped

\* What a step of one handler leaves alone.
Frame(c) ==
    /\ ruleMode' = ruleMode
    /\ \A d \in Conn \ {c} : pc'[d] = pc[d] /\ req'[d] = req[d] /\ addr'[d] = addr[d] /\ at'[d] = at[d]
    /\ \A i \in 1 .. 6 : result[i] # NIL => result'[i] # NIL
    /\ matched # NIL => matched' # NIL
    /\ \A d \in Conn \ {c} : pc[d] # "idle" => d \in mixed'

\* While one handler is at work the others are idle or not alone.
LEMMA OthersMixed ==
    ASSUME RInv, NEW c \in Conn, pc[c] # "idle"
    PROVE  \A d \in Conn \ {c} : pc[d] # "idle" => d \in mixed
BY DEF RInv, Alone

\* A step of one handler keeps the invariant of the others.
LEMMA OthersKept ==
    ASSUME RInv, NEW c \in Conn, Frame(c), NEW d \in Conn \ {c}
    PROVE  Trying(d)' /\ Hit(d)' /\ Alone(d)' /\ Own(d)'
<1>1. Trying(d) /\ Hit(d)
  BY DEF RInv
<1>2. ruleMode' = ruleMode /\ pc'[d] = pc[d] /\ req'[d] = req[d] /\ addr'[d] = addr[d] /\ at'[d] = at[d]
  BY DEF Frame
<1>3. Trying(d)'
  BY <1>1, <1>2 DEF Trying
<1>4. Hit(d)'
  BY <1>1, <1>2 DEF Hit, Frame
<1>5. pc'[d] # "idle" => d \in mixed'
  BY <1>2 DEF Frame
<1>6. Alone(d)'
  BY <1>5 DEF Alone
<1>7. Own(d)'
  BY <1>5 DEF Own, Past, Reads
<1> QED
  BY <1>3, <1>4, <1>6, <1>7

\* A handler that moves to another label of its code.
LEMMA Moved ==
    ASSUME RInv, NEW c \in Conn, pc[c] # "idle", last' = NIL, mixed' = mixed, TypeOK', Frame(c),
           Trying(c)', Hit(c)', Own(c)'
    PROVE  RInv'
<1>1. \A d \in Conn \ {c} : Trying(d)' /\ Hit(d)' /\ Alone(d)' /\ Own(d)'
  BY OthersKept
<1>2. Alone(c)'
  BY DEF RInv, Alone, Frame
<1>3. RoutedWhenAlone' /\ UncoveredDropped'
  BY DEF RoutedWhenAlone, UncoveredDropped
<1> QED
  BY <1>1, <1>2, <1>3 DEF RInv

\* A handler that ends sends its connection where the configuration says.
LEMMA Routed ==
    ASSUME RInv, NEW c \in Conn, pc[c] # "idle", NEW to, Route(c, to),
           UNCHANGED <<ruleMode, matched, result>>,
           c \notin mixed \/ ruleMode # "match" => to = Configured(req[c]),
           ruleMode = "match" /\ Covering[req[c]] = {} => to = "dropped"
    PROVE  RInv'
<1>1. TypeOK
  BY DEF RInv
<1>2. TypeOK' /\ pc'[c] = "idle"
  BY <1>1, SMTT(20) DEF TypeOK, Route
<1>3. Frame(c)
  BY <1>1, OthersMixed DEF TypeOK, Route, Frame
<1>4. \A d \in Conn \ {c} : Trying(d)' /\ Hit(d)' /\ Alone(d)' /\ Own(d)'
  BY <1>3, OthersKept
<1>5. Trying(c)' /\ Hit(c)' /\ Alone(c)' /\ Own(c)'
  BY <1>2 DEF Trying, Hit, Alone, Own, Past, Reads
<1>6. last' = [req |-> req[c], to |-> to, alone |-> c \notin mixed]
  BY DEF Route
<1>7. last'.req = req[c] /\ last'.to = to /\ last'.alone = (c \notin mixed)
  BY <1>6
<1>8. RoutedWhenAlone'
  <2>1. Configured(last.req)' = Configured(req[c])
    BY <1>7 DEF Configured
  <2> QED
    BY <1>7, <2>1 DEF RoutedWhenAlone
<1>9. UncoveredDropped'
  BY <1>7 DEF UncoveredDropped
<1> QED
  BY <1>2, <1>4, <1>5, <1>8, <1>9 DEF RInv

----------------------------------------------------------------------------
\* Items, and the rules of the modes global and direct, are not nil.
LEMMA ItemFacts ==
    /\ \A item \in Items : item # NIL /\ item.mode = "match" /\ item.accept \in BOOLEAN
    /\ \A i \in 1 .. 6 : \A j \in DOMAIN MS[i] : MS[i][j] \in Items
    /\ \A m \in {"global", "direct"} : ByMode(m) # NIL /\ ByMode(m).mode = m
<1>1. ASSUME NEW item \in Items PROVE item # NIL /\ item.mode = "match" /\ item.accept \in BOOLEAN
  <2>1. IsItem(item)
    BY RuleAssumption DEF Items
  <2> QED
    BY <2>1 DEF IsItem
<1>2. \A i \in 1 .. 6 : \A j \in DOMAIN MS[i] : MS[i][j] \in Items
  BY Matchers DEF Items
<1>3. ASSUME NEW m \in {"global", "direct"} PROVE ByMode(m) # NIL /\ ByMode(m).mode = m
  <2>1. ByMode(m) \in [mode : {"global", "direct"}, proxy : {"auto-select"}, accept : {TRUE}]
    BY DEF ByMode
  <2> QED
    BY <2>1, RuleAssumption DEF ByMode
<1> QED
  BY <1>1, <1>2, <1>3

\* *target stays a target.
LEMMA RewrittenIn ==
    ASSUME NEW t \in Target, NEW i \in 1 .. 6, NEW j \in DOMAIN MS[i]
    PROVE  Rewritten(i, j, Before(i, t)) \in Target
<1>1. Before(i, t) \in Target
  BY BeforeIs, SMT
<1>2. CASE i \in {4, 5}
  <2>1. j \in 0 .. Len(MS[i])
    <3>1. DOMAIN MS[i] = 1 .. Len(MS[i]) /\ Len(MS[i]) \in Nat
      BY Indices
    <3> QED
      BY <3>1, SMT
  <2>2. SeenBy(MS[i], j, Before(i, t)) = Sees(<<i, j>>, t)
    BY <1>2, <2>1, SeenBySees
  <2>3. Rewritten(i, j, Before(i, t)) = SeenBy(MS[i], j, Before(i, t))
    BY <1>2, Types DEF Rewritten
  <2> QED
    BY <2>2, <2>3, ResolvingPlaces, SMT
<1>3. CASE i \notin {4, 5}
  BY <1>1, <1>3, Types, SMT DEF Rewritten
<1> QED
  BY <1>2, <1>3

\* The invariant holds at the start.
LEMMA InitRInv == Init => RInv
<1> SUFFICES ASSUME Init PROVE RInv
  OBVIOUS
<1>1. result \in [1 .. 6 -> Items \cup {NIL}]
  <2>1. MS[6][1] \in Items
    <3>1. 1 \in DOMAIN MS[6]
      <4>1. Len(MS[6]) = 1
        BY RuleAssumption
      <4>2. DOMAIN MS[6] = 1 .. Len(MS[6])
        BY Matchers, SMT
      <4> QED
        BY <4>1, <4>2, SMT
    <3> QED
      BY <3>1, ItemFacts, SMT
  <2>2. \A i \in 1 .. 6 : Type[i] = "others" => i = 6
    BY Types, SMT
  <2> QED
    BY <2>1, <2>2, Matchers DEF Init
<1>2. TypeOK
  BY <1>1, SMT DEF Init, TypeOK
<1>3. ASSUME NEW c \in Conn PROVE Trying(c) /\ Hit(c) /\ Alone(c) /\ Own(c)
  BY DEF Init, Trying, Hit, Alone, Own, Past, Reads
<1> QED
  BY <1>2, <1>3 DEF Init, RInv, RoutedWhenAlone, UncoveredDropped

\* Begin: the handler is alone or mixed with all that are at work.
LEMMA BeginKeeps ==
    ASSUME RInv, NEW c \in Conn, NEW t \in Target, Begin(c, t)
    PROVE  RInv'
<1>1. TypeOK
  BY DEF RInv
<1>2. /\ pc'[c] = "match" /\ req'[c] = t /\ addr'[c] = t /\ at'[c] = 1
      /\ \A d \in Conn \ {c} : pc'[d] = pc[d] /\ req'[d] = req[d] /\ addr'[d] = addr[d] /\ at'[d] = at[d]
  BY <1>1 DEF TypeOK, Begin
<1>3. \A d \in Conn \ {c} : pc[d] # "idle" => d \in mixed' /\ c \in mixed'
  BY DEF Begin
<1>4. TypeOK'
  BY <1>1, SMT DEF TypeOK, Begin
<1>5. Frame(c)
  BY <1>2, <1>3 DEF Frame, Begin
<1>6. \A d \in Conn \ {c} : Trying(d)' /\ Hit(d)' /\ Alone(d)' /\ Own(d)'
  BY <1>5, OthersKept
<1>7. Trying(c)'
  <2>1. Before(1, t) = t
    BY BeforeIs, SMT
  <2>2. \A p \in Covering[t] : ~(p[1] < 1)
    BY CoveringIs, Places, SMT
  <2> QED
    BY <1>2, <2>1, <2>2 DEF Trying
<1>8. Hit(c)' /\ Alone(c)' /\ Own(c)'
  BY <1>2, <1>3 DEF Hit, Alone, Own, Past, Reads
<1>9. RoutedWhenAlone' /\ UncoveredDropped'
  BY DEF Begin, RoutedWhenAlone, UncoveredDropped
<1> QED
  BY <1>4, <1>6, <1>7, <1>8, <1>9 DEF RInv

\* The modes global and direct: the rule of the mode is stored.
LEMMA MatchByModeKeeps ==
    ASSUME RInv, NEW c \in Conn, MatchByMode(c)
    PROVE  RInv'
<1>1. TypeOK /\ Hit(c)
  BY DEF RInv
<1>2. /\ pc[c] = "match" /\ pc'[c] = "select" /\ ruleMode \in {"global", "direct"} /\ ruleMode' = ruleMode
      /\ req'[c] = req[c] /\ last' = NIL /\ mixed' = mixed /\ matched' = ByMode(ruleMode)
  BY <1>1 DEF TypeOK, MatchByMode, Goto, ByMode
<1>3. TypeOK'
  BY <1>1, <1>2 DEF TypeOK, MatchByMode, Goto, Past, Reads
<1>4. Frame(c)
  BY <1>1, <1>2, ItemFacts, OthersMixed DEF TypeOK, MatchByMode, Goto, Frame
<1>5. Trying(c)' /\ Hit(c)' /\ Own(c)'
  BY <1>1, <1>2, ItemFacts DEF Trying, Hit, Own
<1> QED
  BY <1>2, <1>3, <1>4, <1>5, Moved

\* A matcher that hits has found the first rule that covers the target.
LEMMA MatcherHitKeeps ==
    ASSUME RInv, NEW c \in Conn, MatcherHit(c)
    PROVE  RInv'
<1> DEFINE i == at[c]
           t == req[c]
           j == Found(i, addr[c])
<1>1. TypeOK /\ Trying(c) /\ Hit(c)
  BY DEF RInv
<1>2. /\ pc[c] = "match" /\ ruleMode = "match" /\ ruleMode' = ruleMode /\ i \in 1 .. 6 /\ t \in Target
      /\ addr[c] = Before(i, t) /\ \A p \in Covering[t] : ~(p[1] < i)
  BY <1>1, Matchers DEF MatcherHit, Trying, Hit
<1>3. j # 0
  BY DEF MatcherHit
<1>4. Covering[t] # {} /\ j \in DOMAIN MS[i] /\ MS[i][j] = FirstItem(t)
  BY <1>2, <1>3, FoundIsFirst
<1>5. MS[i][j] \in Items /\ MS[i][j] # NIL /\ Rewritten(i, j, addr[c]) \in Target
  BY <1>2, <1>4, ItemFacts, RewrittenIn
<1>6. /\ result' = [result EXCEPT ![i] = MS[i][j]] /\ addr' = [addr EXCEPT ![c] = Rewritten(i, j, addr[c])]
      /\ pc' = [pc EXCEPT ![c] = "store"] /\ last' = NIL
      /\ UNCHANGED <<matched, req, at, mixed>>
  BY DEF MatcherHit
<1> HIDE DEF j
<1>7. TypeOK'
  BY <1>1, <1>2, <1>5, <1>6 DEF TypeOK, Past, Reads
<1>8. /\ pc'[c] = "store" /\ req'[c] = t /\ at'[c] = i /\ result'[i] = MS[i][j]
  BY <1>1, <1>2, <1>6 DEF TypeOK
<1>9. Frame(c)
  BY <1>1, <1>2, <1>5, <1>6, OthersMixed DEF TypeOK, Frame
<1>10. Trying(c)' /\ Hit(c)'
  BY <1>2, <1>4, <1>5, <1>8 DEF Trying, Hit, Past, Reads
<1>11. Own(c)'
  BY <1>2, <1>4, <1>8 DEF Own
<1> QED
  BY <1>2, <1>6, <1>7, <1>9, <1>10, <1>11, Moved

\* A matcher that misses has no item that covers the target.
LEMMA MatcherMissKeeps ==
    ASSUME RInv, NEW c \in Conn, MatcherMiss(c)
    PROVE  RInv'
<1> DEFINE i == at[c]
           t == req[c]
<1>1. TypeOK /\ Trying(c) /\ Hit(c)
  BY DEF RInv
<1>2. /\ pc[c] = "match" /\ ruleMode = "match" /\ ruleMode' = ruleMode /\ i \in 1 .. 6 /\ t \in Target
      /\ addr[c] = Before(i, t) /\ \A p \in Covering[t] : ~(p[1] < i)
  BY <1>1, Matchers DEF MatcherMiss, Trying, Hit
<1>3. CoveringIn(i, t) = {}
  BY <1>2, FoundFirst DEF MatcherMiss
<1>4. \A p \in Covering[t] : ~(p[1] < i + 1)
  <2> SUFFICES ASSUME NEW p \in Covering[t], p[1] < i + 1 PROVE FALSE
    OBVIOUS
  <2>1. p \in Place
    BY <1>2, CoveringIs
  <2>2. p[1] \in 1 .. 6 /\ p[2] \in DOMAIN MS[p[1]] /\ p = <<p[1], p[2]>>
    BY <2>1, Places
  <2>3. p[1] = i
    BY <1>2, <2>2, SMT
  <2> QED
    BY <1>3, <2>2, <2>3 DEF CoveringIn
<1>5. Rewritten(i, Len(MS[i]), addr[c]) = Before(i + 1, t) /\ i + 1 \in 1 .. 7
      /\ Before(i + 1, t) \in Target
  <2> DEFINE n == i + 1
  <2>1. n \in 1 .. 7 /\ i \in 1 .. 6 /\ t \in Target /\ addr[c] = Before(i, t)
    BY <1>2, SMT
  <2>2. Rewritten(i, Len(MS[i]), Before(i, t)) = Before(n, t)
    BY <2>1, RewrittenBefore
  <2> HIDE DEF n
  <2>3. Before(n, t) \in Target
    BY <2>1, BeforeIs
  <2> QED
    BY <2>1, <2>2, <2>3 DEF n
<1>6. /\ addr' = [addr EXCEPT ![c] = Before(i + 1, t)] /\ at' = [at EXCEPT ![c] = i + 1] /\ last' = NIL
      /\ UNCHANGED <<matched, result, pc, req, mixed>>
  BY <1>5 DEF MatcherMiss
<1>7. TypeOK'
  BY <1>1, <1>2, <1>5, <1>6 DEF TypeOK
<1>8. pc'[c] = "match" /\ req'[c] = t /\ at'[c] = i + 1 /\ addr'[c] = Before(i + 1, t)
  BY <1>1, <1>2, <1>6 DEF TypeOK
<1>9. Frame(c)
  BY <1>1, <1>2, <1>6, OthersMixed DEF TypeOK, Frame
<1>10. Trying(c)'
  BY <1>4, <1>8 DEF Trying
<1>11. Hit(c)' /\ Own(c)'
  BY <1>2, <1>8 DEF Hit, Own, Past, Reads
<1> QED
  BY <1>2, <1>6, <1>7, <1>9, <1>10, <1>11, Moved

\* When all matchers have missed, nothing covers the target.
LEMMA NoMatcherKeeps ==
    ASSUME RInv, NEW c \in Conn, NoMatcher(c)
    PROVE  RInv'
<1>1. TypeOK /\ Trying(c) /\ Hit(c)
  BY DEF RInv
<1>2. pc[c] = "match" /\ ruleMode = "match" /\ at[c] = 7 /\ req[c] \in Target
  BY <1>1, Indices, SMT DEF TypeOK, NoMatcher, Hit
<1>3. Covering[req[c]] = {}
  BY <1>1, <1>2, CoveringIs, Places, SMT DEF Trying
<1>4. Configured(req[c]) = "dropped"
  BY <1>2, <1>3 DEF Configured
<1> QED
  BY <1>2, <1>4, Routed DEF NoMatcher, Discard

\* The result of the matcher goes to matched.
LEMMA StoreMatchedKeeps ==
    ASSUME RInv, NEW c \in Conn, StoreMatched(c)
    PROVE  RInv'
<1> DEFINE l == IF pc[c] = "store" THEN "accept" ELSE "select"
<1>1. TypeOK /\ Hit(c) /\ Own(c)
  BY DEF RInv
<1>2. /\ pc[c] \in {"store", "store again"} /\ ruleMode = "match" /\ ruleMode' = ruleMode
      /\ req[c] \in Target /\ at[c] \in 1 .. 6 /\ Covering[req[c]] # {} /\ result[at[c]] # NIL
  BY <1>1 DEF StoreMatched, Hit, Past
<1>3. /\ pc' = [pc EXCEPT ![c] = l] /\ matched' = result[at[c]] /\ last' = NIL
      /\ UNCHANGED <<req, addr, at, mixed, result>>
  BY DEF StoreMatched, Goto
<1>4. TypeOK'
  BY <1>1, <1>2, <1>3 DEF TypeOK, Past, Reads
<1>5. pc'[c] = l
  BY <1>1, <1>3 DEF TypeOK
<1>6. Frame(c)
  BY <1>1, <1>2, <1>3, OthersMixed DEF TypeOK, Frame
<1>7. Trying(c)' /\ Hit(c)'
  <2>1. pc'[c] \in {"accept", "select"}
    BY <1>5
  <2> QED
    BY <1>2, <1>3, <1>5, <2>1 DEF Trying, Hit
<1>8. Own(c)'
  <2> DEFINE item == FirstItem(req[c])
  <2>1. c \notin mixed => result[at[c]] = item /\ (pc[c] = "store again" => item.accept)
    BY <1>1, <1>2 DEF Own, Past
  <2>2. mixed' = mixed /\ req'[c] = req[c] /\ result'[at'[c]] = result[at[c]] /\ matched' = result[at[c]]
    BY <1>3
  <2> HIDE DEF item
  <2>3. CASE pc[c] = "store"
    <3>1. pc'[c] = "accept"
      BY <1>5, <2>3
    <3> QED
      BY <2>1, <2>2, <3>1 DEF Own, item
  <2>4. CASE pc[c] = "store again"
    <3>1. pc'[c] = "select"
      BY <1>5, <2>4
    <3> QED
      BY <2>1, <2>2, <2>4, <3>1 DEF Own, item
  <2> QED
    BY <1>2, <2>3, <2>4
<1> QED
  BY <1>2, <1>3, <1>4, <1>6, <1>7, <1>8, Moved

\* A handler that reads matched finds a rule, its own if it is alone.
LEMMA Reading ==
    ASSUME RInv, NEW c \in Conn, pc[c] \in Reads, ruleMode = "match"
    PROVE  /\ matched \in Items /\ Covering[req[c]] # {}
           /\ c \notin mixed =>
                /\ matched = FirstItem(req[c]) /\ result[at[c]] = FirstItem(req[c])
                /\ pc[c] # "accept" => matched.accept
                /\ pc[c] \notin {"accept", "select"} => matched.proxy # "global"
                /\ pc[c] \in {"select named", "select return"} => matched.proxy # "direct"
                /\ pc[c] = "select return" => matched.proxy # ""
<1>1. TypeOK /\ Hit(c) /\ Own(c)
  BY DEF RInv
<1>2. matched \in Items /\ Covering[req[c]] # {} /\ pc[c] \in Past
  BY <1>1 DEF TypeOK, Hit, Past
<1>3. ASSUME c \notin mixed
      PROVE  /\ matched = FirstItem(req[c]) /\ result[at[c]] = FirstItem(req[c])
             /\ pc[c] # "accept" => matched.accept
             /\ pc[c] \notin {"accept", "select"} => matched.proxy # "global"
             /\ pc[c] \in {"select named", "select return"} => matched.proxy # "direct"
             /\ pc[c] = "select return" => matched.proxy # ""
  <2> DEFINE item == FirstItem(req[c])
  <2> HIDE DEF item
  <2>1. /\ result[at[c]] = item /\ matched = item
        /\ pc[c] \in {"store again", "select", "select direct", "select named", "select return"} => item.accept
        /\ pc[c] \in {"select direct", "select named", "select return"} => item.proxy # "global"
        /\ pc[c] \in {"select named", "select return"} => item.proxy # "direct"
        /\ pc[c] = "select return" => item.proxy # ""
    BY <1>1, <1>2, <1>3 DEF Own, Reads, item
  <2> QED
    BY <2>1 DEF Reads, item
<1> QED
  BY <1>2, <1>3

\* A handler that goes on reading.
LEMMA Stepped ==
    ASSUME RInv, NEW c \in Conn, pc[c] \in Reads, ruleMode = "match",
           NEW l \in {"store again", "select direct", "select named", "select return"}, Goto(c, l),
           UNCHANGED <<ruleMode, matched, result>>,
           c \notin mixed =>
             /\ matched.accept
             /\ l # "store again" => matched.proxy # "global"
             /\ l \in {"select named", "select return"} => matched.proxy # "direct"
             /\ l = "select return" => matched.proxy # ""
    PROVE  RInv'
<1>1. TypeOK /\ Hit(c)
  BY DEF RInv
<1>2. pc[c] # "idle" /\ pc[c] \in Past
  BY DEF Reads, Past
<1>3. /\ pc' = [pc EXCEPT ![c] = l] /\ last' = NIL /\ UNCHANGED <<req, addr, at, mixed>> /\ pc'[c] = l
  BY <1>1 DEF Goto, TypeOK
<1>4. TypeOK'
  BY <1>1, <1>3 DEF TypeOK, Past, Reads
<1>5. Frame(c)
  BY <1>1, <1>2, <1>3, OthersMixed DEF TypeOK, Frame
<1>6. Trying(c)' /\ Hit(c)'
  BY <1>1, <1>2, <1>3 DEF Trying, Hit
<1>7. Own(c)'
  <2> DEFINE item == FirstItem(req[c])
  <2>1. c \notin mixed => matched = item /\ result[at[c]] = item
    BY Reading
  <2>2. mixed' = mixed /\ matched' = matched /\ req'[c] = req[c] /\ result'[at'[c]] = result[at[c]]
    BY <1>3
  <2>3. FirstItem(req[c])' = item
    BY <2>2
  <2> HIDE DEF item
  <2> QED
    BY <1>3, <2>1, <2>2, <2>3 DEF Own
<1> QED
  BY <1>2, <1>3, <1>4, <1>5, <1>6, <1>7, Moved

\* The test of Accept.
LEMMA TestAcceptKeeps ==
    ASSUME RInv, NEW c \in Conn, TestAccept(c)
    PROVE  RInv'
<1>1. pc[c] = "accept" /\ pc[c] \in Reads /\ ruleMode = "match"
  BY DEF RInv, TestAccept, Hit, Reads
<1>2. CASE matched.accept
  BY <1>1, <1>2, Stepped DEF TestAccept
<1>3. CASE ~matched.accept
  <2>1. c \notin mixed => Configured(req[c]) = "dropped"
    BY <1>1, <1>3, Reading DEF Configured
  <2> QED
    BY <1>1, <1>3, <2>1, Reading, Routed DEF TestAccept, Discard
<1> QED
  BY <1>2, <1>3

\* Where Select sends what goes to a node, and what goes "direct" or "global".
ToNode(p) == IF p \in Node THEN p ELSE "direct"
Strategy(m) ==
    IF m = "direct" THEN ToNode(DirectTo) ELSE IF GlobalTo = "" THEN "dropped" ELSE ToNode(GlobalTo)

\* SelectMode sends the connection where the strategy says.
LEMMA SelectModeRoutes ==
    ASSUME NEW c, NEW m, SelectMode(c, m)
    PROVE  Route(c, Strategy(m))
BY DEF SelectMode, Invoke, Discard, Strategy, ToNode

\* The configured route in these words.
LEMMA ConfiguredRoute ==
    ASSUME NEW t
    PROVE  /\ ruleMode # "match" => Configured(t) = Strategy(ruleMode)
           /\ ruleMode = "match" /\ Covering[t] # {} /\ FirstItem(t).accept =>
                Configured(t) = LET p == FirstItem(t).proxy
                                IN IF p \in {"global", "direct"} THEN Strategy(p)
                                   ELSE IF p = "" THEN "dropped" ELSE ToNode(p)
BY DEF Configured, Strategy, ToNode

\* The first test of Select.
LEMMA SelectGlobalKeeps ==
    ASSUME RInv, NEW c \in Conn, SelectGlobal(c)
    PROVE  RInv'
<1>1. pc[c] = "select" /\ pc[c] \in Reads /\ pc[c] # "idle" /\ UNCHANGED <<ruleMode, matched, result>>
  BY DEF SelectGlobal, Reads
<1>2. TypeOK /\ Hit(c)
  BY DEF RInv
<1>3. CASE ruleMode # "match"
  <2>1. matched.mode = ruleMode
    BY <1>1, <1>2, <1>3, ItemFacts DEF TypeOK, Hit
  <2>2. Route(c, Strategy(ruleMode))
    BY <1>3, <2>1, SelectModeRoutes DEF SelectGlobal
  <2> QED
    BY <1>1, <1>3, <2>2, ConfiguredRoute, Routed
<1>4. CASE ruleMode = "match"
  <2>1. matched.mode = "match"
    BY <1>1, <1>4, Reading, ItemFacts
  <2>2. CASE matched.proxy = "global"
    <3>1. Route(c, Strategy("global"))
      BY <2>1, <2>2, SelectModeRoutes DEF SelectGlobal
    <3>2. c \notin mixed => Configured(req[c]) = Strategy("global")
      BY <1>1, <1>4, <2>2, Reading, ConfiguredRoute
    <3> QED
      BY <1>1, <1>4, <3>1, <3>2, Reading, Routed
  <2>3. CASE matched.proxy # "global"
    <3>1. Goto(c, "select direct")
      BY <2>1, <2>3 DEF SelectGlobal
    <3> QED
      BY <1>1, <1>4, <2>3, <3>1, Reading, Stepped
  <2> QED
    BY <2>2, <2>3
<1> QED
  BY <1>3, <1>4

\* The second.
LEMMA SelectDirectKeeps ==
    ASSUME RInv, NEW c \in Conn, SelectDirect(c)
    PROVE  RInv'
<1>1. pc[c] = "select direct" /\ pc[c] \in Reads /\ pc[c] # "idle" /\ UNCHANGED <<ruleMode, matched, result>>
  BY DEF SelectDirect, Reads
<1>2. ruleMode = "match"
  BY <1>1 DEF RInv, Hit
<1>3. CASE matched.proxy = "direct"
  <2>1. Route(c, Strategy("direct"))
    BY <1>3, SelectModeRoutes DEF SelectDirect
  <2>2. c \notin mixed => Configured(req[c]) = Strategy("direct")
    BY <1>1, <1>2, <1>3, Reading, ConfiguredRoute
  <2> QED
    BY <1>1, <1>2, <2>1, <2>2, Reading, Routed
<1>4. CASE matched.proxy # "direct"
  <2>1. Goto(c, "select named")
    BY <1>4 DEF SelectDirect
  <2> QED
    BY <1>1, <1>2, <1>4, <2>1, Reading, Stepped
<1> QED
  BY <1>3, <1>4

\* The third.
LEMMA SelectNamedKeeps ==
    ASSUME RInv, NEW c \in Conn, SelectNamed(c)
    PROVE  RInv'
<1>1. pc[c] = "select named" /\ pc[c] \in Reads /\ pc[c] # "idle" /\ UNCHANGED <<ruleMode, matched, result>>
  BY DEF SelectNamed, Reads
<1>2. ruleMode = "match"
  BY <1>1 DEF RInv, Hit
<1>3. CASE matched.proxy # ""
  <2>1. Goto(c, "select return")
    BY <1>3 DEF SelectNamed
  <2> QED
    BY <1>1, <1>2, <1>3, <2>1, Reading, Stepped
<1>4. CASE matched.proxy = ""
  <2>1. Route(c, "dropped")
    BY <1>4 DEF SelectNamed, Discard
  <2>2. c \notin mixed => Configured(req[c]) = "dropped"
    BY <1>1, <1>2, <1>4, Reading, ConfiguredRoute
  <2> QED
    BY <1>1, <1>2, <2>1, <2>2, Reading, Routed
<1> QED
  BY <1>3, <1>4

\* The end of Select.
LEMMA SelectReturnKeeps ==
    ASSUME RInv, NEW c \in Conn, SelectReturn(c)
    PROVE  RInv'
<1>1. pc[c] = "select return" /\ pc[c] \in Reads /\ pc[c] # "idle" /\ UNCHANGED <<ruleMode, matched, result>>
  BY DEF SelectReturn, Reads
<1>2. ruleMode = "match"
  BY <1>1 DEF RInv, Hit
<1>3. Route(c, ToNode(matched.proxy))
  BY DEF SelectReturn, Invoke, ToNode
<1>4. c \notin mixed => Configured(req[c]) = ToNode(matched.proxy)
  BY <1>1, <1>2, Reading, ConfiguredRoute
<1> QED
  BY <1>1, <1>2, <1>3, <1>4, Reading, Routed

\* The invariant of the state, and what it says.
LEMMA NextRInv == RInv /\ [Next]_vars => RInv'
<1> SUFFICES ASSUME RInv, [Next]_vars PROVE RInv'
  OBVIOUS
<1>1. CASE UNCHANGED vars
  BY <1>1 DEF vars, RInv, TypeOK, Trying, Hit, Alone, Own, RoutedWhenAlone, UncoveredDropped, Configured
<1>2. CASE Next
  <2>1. PICK c \in Conn :
            \/ \E t \in Target : Begin(c, t)
            \/ MatchByMode(c) \/ MatcherHit(c) \/ MatcherMiss(c) \/ NoMatcher(c)
            \/ StoreMatched(c) \/ TestAccept(c)
            \/ SelectGlobal(c) \/ SelectDirect(c) \/ SelectNamed(c) \/ SelectReturn(c)
    BY <1>2 DEF Next
  <2> QED
    BY <2>1, BeginKeeps, MatchByModeKeeps, MatcherHitKeeps, MatcherMissKeeps, NoMatcherKeeps,
       StoreMatchedKeeps, TestAcceptKeeps, SelectGlobalKeeps, SelectDirectKeeps, SelectNamedKeeps,
       SelectReturnKeeps
<1> QED
  BY <1>1, <1>2

\* It always holds.
LEMMA RInvAlways == Spec => []RInv
BY InitRInv, NextRInv, PTL DEF Spec

\* Match and Select never dereference a nil rule, however many connections are handled at
\* the same time: matched is only ever set to a result that is there.
THEOREM RuleAlwaysFound == Spec => []MatchedNeverNil
<1>1. RInv => MatchedNeverNil
  <2> SUFFICES ASSUME RInv, NEW c \in Conn
               PROVE  /\ pc[c] \in Reads => matched # NIL
                      /\ pc[c] \in {"store", "store again"} => result[at[c]] # NIL
    BY DEF MatchedNeverNil
  <2>1. Hit(c)
    BY DEF RInv
  <2> QED
    BY <2>1 DEF Hit, Past
<1> QED
  BY <1>1, RInvAlways, PTL

\* For every configuration: a connection handled alone, and every one in the modes global
\* and direct, goes where the first rule that covers its target sends it, where what a
\* pattern covers is stated without the trie.
THEOREM RoutedAsConfigured == Spec => []RoutedWhenAlone
<1>1. RInv => RoutedWhenAlone
  BY DEF RInv
<1> QED
  BY <1>1, RInvAlways, PTL

\* What no rule covers is dropped, whatever the other handlers leave in matched.
THEOREM UncoveredNeverSent == Spec => []UncoveredDropped
<1>1. RInv => UncoveredDropped
  BY DEF RInv
<1> QED
  BY <1>1, RInvAlways, PTL
=============================================================================
