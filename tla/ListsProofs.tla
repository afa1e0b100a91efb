----------------------------- MODULE ListsProofs -----------------------------
(***************************************************************************)
(* What the list operations preserve, for lists of any length; and the     *)
(* least of a set of numbers, by which one argues about a first position.   *)
(***************************************************************************)
EXTENDS Lists, TLAPS, WellFoundedInduction

\* Zenon proves the leaves, unless they name another backend.
USE ZenonT(30)

\* A non-empty set of naturals has a least member.
LEMMA LeastNumber ==
    ASSUME NEW S \in SUBSET Nat, S # {}
    PROVE  \E x \in S : \A y \in S : x <= y
<1> DEFINE L == OpToRel(<, Nat)
<1>1. \E x \in S : \A y \in S : ~(<<y, x>> \in L)
  BY WFMin, NatLessThanWellFounded
<1>2. \A x, y \in Nat : x < y => <<x, y>> \in L
  <2> TAKE x, y \in Nat
  <2> HAVE x < y
  <2>1. <<x, y>> \in Nat \X Nat /\ <<x, y>>[1] < <<x, y>>[2]
    OBVIOUS
  <2> QED
    BY <2>1 DEF OpToRel
<1> HIDE DEF L
<1>3. PICK x \in S : \A y \in S : ~(<<y, x>> \in L)
  BY <1>1
<1>4. ASSUME NEW y \in S PROVE x <= y
  <2>1. x \in Nat /\ y \in Nat
    OBVIOUS
  <2>2. ~(y < x)
    BY <1>2, <1>3, <2>1
  <2> QED
    BY <2>1, <2>2, SMT
<1> QED
  BY <1>4

\* A set that has 0, and with a number below n its successor, has all up to n.
LEMMA CountUp ==
    ASSUME NEW n \in Nat, NEW S, 0 \in S, \A k \in 0 .. n - 1 : k \in S => k + 1 \in S
    PROVE  \A k \in 0 .. n : k \in S
<1> DEFINE Out == { k \in 0 .. n : k \notin S }
<1> SUFFICES ASSUME Out # {} PROVE FALSE
  OBVIOUS
<1>1. PICK k \in Out : \A j \in Out : k <= j
  <2>1. Out \in SUBSET Nat
    BY SMT
  <2> HIDE DEF Out
  <2> QED
    BY <2>1, LeastNumber
<1>2. k \in 1 .. n /\ k - 1 \in 0 .. n - 1
  BY SMT
<1>3. k - 1 \in S
  BY <1>1, <1>2, SMT
<1> QED
  BY <1>2, <1>3, SMT

\* Sequences of the same length that agree everywhere are the same.
LEMMA SeqEqual ==
    ASSUME NEW S, NEW s \in Seq(S), NEW t \in Seq(S), Len(s) = Len(t),
           \A i \in 1..Len(s) : s[i] = t[i]
    PROVE  s = t
BY SMT

LEMMA MembersInSet ==
    ASSUME NEW S, NEW s \in Seq(S)
    PROVE  Range(s) \subseteq S
BY SMT DEF Range

\* Removing position i shifts the tail by one and keeps the rest.
LEMMA CutShape ==
    ASSUME NEW S, NEW s \in Seq(S), NEW i \in 1..Len(s)
    PROVE  /\ Cut(s, i) \in Seq(S)
           /\ Len(Cut(s, i)) = Len(s) - 1
           /\ \A j \in 1..(Len(s) - 1) :
                 Cut(s, i)[j] = IF j < i THEN s[j] ELSE s[j + 1]
<1> DEFINE a == SubSeq(s, 1, i - 1)
           b == SubSeq(s, i + 1, Len(s))
<1>1. /\ a \in Seq(S)
      /\ Len(a) = i - 1
      /\ \A j \in 1..(i - 1) : a[j] = s[j]
  <2>1. \A j \in 1..(i - 1) : s[j] \in S
    BY SMT
  <2> QED
    BY <2>1, Z3
<1>2. /\ b \in Seq(S)
      /\ Len(b) = Len(s) - i
      /\ \A j \in 1..(Len(s) - i) : b[j] = s[i + j]
  <2>1. \A j \in (i + 1)..Len(s) : s[j] \in S
    BY SMT
  <2> QED
    BY <2>1, Z3
<1> HIDE DEF a, b
<1>3. /\ a \o b \in Seq(S)
      /\ Len(a \o b) = Len(s) - 1
      /\ \A j \in 1..(Len(s) - 1) :
            (a \o b)[j] = IF j <= i - 1 THEN a[j] ELSE b[j - (i - 1)]
  <2>1. a \in Seq(S) /\ b \in Seq(S)
    BY <1>1, <1>2
  <2>2. a \o b \in Seq(S)
    BY <2>1, SMT
  <2>3. Len(a \o b) = Len(a) + Len(b)
    BY <2>1, SMT
  <2>4. ASSUME NEW j \in 1..(Len(s) - 1)
        PROVE  (a \o b)[j] = IF j <= i - 1 THEN a[j] ELSE b[j - (i - 1)]
    BY <1>1, <1>2, SMT
  <2>5. Len(a) + Len(b) = Len(s) - 1
    BY <1>1, <1>2, SMT
  <2> QED
    BY <2>2, <2>3, <2>4, <2>5
<1>4. \A j \in 1..(Len(s) - 1) : (a \o b)[j] = IF j < i THEN s[j] ELSE s[j + 1]
  <2> SUFFICES ASSUME NEW j \in 1..(Len(s) - 1)
               PROVE  (a \o b)[j] = IF j < i THEN s[j] ELSE s[j + 1]
    OBVIOUS
  <2>1. CASE j < i
    BY <1>1, <1>3, <2>1, SMT
  <2>2. CASE ~(j < i)
    BY <1>2, <1>3, <2>2, SMT
  <2> QED
    BY <2>1, <2>2
<1>5. Cut(s, i) = a \o b
  BY DEF Cut, a, b
<1> QED
  BY <1>3, <1>4, <1>5

\* Taking e out of a repetition-free list leaves exactly the other members, in
\* a list that is one shorter and still free of repetitions.
LEMMA WithoutMember ==
    ASSUME NEW S, NEW s \in Seq(S), IsInjective(s), NEW e \in Range(s)
    PROVE  /\ Without(s, e) \in Seq(S)
           /\ Len(Without(s, e)) = Len(s) - 1
           /\ Range(Without(s, e)) = Range(s) \ {e}
           /\ IsInjective(Without(s, e))
<1> DEFINE i == CHOOSE k \in DOMAIN s : s[k] = e
           t == Cut(s, i)
<1>1. i \in 1..Len(s) /\ s[i] = e
  BY SMT DEF Range
<1> HIDE DEF i
<1>2. /\ t \in Seq(S)
      /\ Len(t) = Len(s) - 1
      /\ \A j \in 1..(Len(s) - 1) : t[j] = IF j < i THEN s[j] ELSE s[j + 1]
  BY <1>1, CutShape
<1> HIDE DEF t
<1>3. DOMAIN s = 1..Len(s) /\ DOMAIN t = 1..(Len(s) - 1) /\ Len(s) \in Nat
  BY <1>2, SMT
<1>4. Range(t) \subseteq Range(s) \ {e}
  <2> SUFFICES ASSUME NEW j \in 1..(Len(s) - 1)
               PROVE  t[j] \in Range(s) /\ t[j] # e
    BY <1>3 DEF Range
  <2> DEFINE m == IF j < i THEN j ELSE j + 1
  <2>1. m \in DOMAIN s /\ m # i
    BY <1>1, <1>3, SMT
  <2>2. t[j] = s[m]
    BY <1>2
  <2> HIDE DEF m
  <2>3. s[m] \in Range(s)
    BY <2>1 DEF Range
  <2>4. s[m] # e
    BY <1>1, <1>3, <2>1 DEF IsInjective
  <2> QED
    BY <2>2, <2>3, <2>4
<1>5. Range(s) \ {e} \subseteq Range(t)
  <2> SUFFICES ASSUME NEW k \in 1..Len(s), s[k] # e
               PROVE  \E j \in 1..(Len(s) - 1) : t[j] = s[k]
    BY <1>3 DEF Range
  <2>1. CASE k < i
    BY <1>1, <1>2, <1>3, <2>1, SMT
  <2>2. CASE k > i
    <3>1. k - 1 \in 1..(Len(s) - 1) /\ ~(k - 1 < i) /\ (k - 1) + 1 = k
      BY <1>1, <1>3, <2>2, SMT
    <3> QED
      BY <1>2, <3>1
  <2> QED
    BY <1>1, <2>1, <2>2, SMT
<1>6. IsInjective(t)
  <2> SUFFICES ASSUME NEW j \in 1..(Len(s) - 1), NEW k \in 1..(Len(s) - 1), t[j] = t[k]
               PROVE  j = k
    BY <1>3 DEF IsInjective
  <2> DEFINE at(m) == IF m < i THEN m ELSE m + 1
  <2>1. at(j) \in DOMAIN s /\ at(k) \in DOMAIN s /\ s[at(j)] = s[at(k)]
    BY <1>1, <1>2, <1>3, SMT
  <2>2. at(j) = at(k)
    BY <2>1 DEF IsInjective
  <2> QED
    BY <1>1, <2>2, SMT
<1>7. Without(s, e) = t
  BY DEF Without, t, i
<1> QED
  BY <1>2, <1>4, <1>5, <1>6, <1>7

\* Without for any e: members and length.
LEMMA WithoutAny ==
    ASSUME NEW S, NEW s \in Seq(S), IsInjective(s), NEW e
    PROVE  /\ Without(s, e) \in Seq(S)
           /\ Len(Without(s, e)) <= Len(s)
           /\ Range(Without(s, e)) = Range(s) \ {e}
           /\ IsInjective(Without(s, e))
<1>1. CASE e \in Range(s)
  BY <1>1, WithoutMember, SMT
<1>2. CASE e \notin Range(s)
  <2>1. Without(s, e) = s
    BY <1>2 DEF Without
  <2> QED
    BY <1>2, <2>1, SMT
<1> QED
  BY <1>1, <1>2

\* Pushing a newcomer to the back adds it and nothing else.
LEMMA AppendNew ==
    ASSUME NEW S, NEW s \in Seq(S), IsInjective(s), NEW e \in S, e \notin Range(s)
    PROVE  /\ Append(s, e) \in Seq(S)
           /\ Len(Append(s, e)) = Len(s) + 1
           /\ Range(Append(s, e)) = Range(s) \cup {e}
           /\ IsInjective(Append(s, e))
<1> DEFINE t == Append(s, e)
<1>1. /\ t \in Seq(S)
      /\ Len(t) = Len(s) + 1
      /\ \A i \in 1..Len(s) : t[i] = s[i]
      /\ t[Len(s) + 1] = e
  BY SMT
<1> HIDE DEF t
<1>2. DOMAIN s = 1..Len(s) /\ DOMAIN t = 1..(Len(s) + 1) /\ Len(s) \in Nat
  BY <1>1, SMT
<1>3. Range(t) = Range(s) \cup {e}
  <2>1. Range(t) \subseteq Range(s) \cup {e}
    BY <1>1, <1>2, SMT DEF Range
  <2>2. Range(s) \subseteq Range(t)
    BY <1>1, <1>2, SMT DEF Range
  <2>3. e \in Range(t)
    BY <1>1, <1>2, SMT DEF Range
  <2> QED
    BY <2>1, <2>2, <2>3
<1>4. IsInjective(t)
  BY <1>1, <1>2, SMT DEF IsInjective, Range
<1> QED
  BY <1>1, <1>3, <1>4 DEF t

\* Moving to the back changes neither the members nor the length.
LEMMA MoveToBackKeeps ==
    ASSUME NEW S, NEW s \in Seq(S), IsInjective(s), NEW e
    PROVE  /\ MoveToBack(s, e) \in Seq(S)
           /\ Len(MoveToBack(s, e)) = Len(s)
           /\ Range(MoveToBack(s, e)) = Range(s)
           /\ IsInjective(MoveToBack(s, e))
<1>1. CASE e \in Range(s)
  <2> DEFINE t == Without(s, e)
  <2>1. /\ t \in Seq(S)
        /\ Len(t) = Len(s) - 1
        /\ Range(t) = Range(s) \ {e}
        /\ IsInjective(t)
    BY <1>1, WithoutMember
  <2>2. e \in S
    BY <1>1, SMT DEF Range
  <2> HIDE DEF t
  <2>3. /\ Append(t, e) \in Seq(S)
        /\ Len(Append(t, e)) = Len(t) + 1
        /\ Range(Append(t, e)) = Range(t) \cup {e}
        /\ IsInjective(Append(t, e))
    BY <2>1, <2>2, AppendNew
  <2>4. MoveToBack(s, e) = Append(t, e)
    BY <1>1 DEF MoveToBack, t
  <2>5. Len(t) + 1 = Len(s)
    BY <2>1, SMT
  <2>6. Range(t) \cup {e} = Range(s)
    BY <1>1, <2>1
  <2> QED
    BY <2>3, <2>4, <2>5, <2>6
<1>2. CASE e \notin Range(s)
  BY <1>2 DEF MoveToBack
<1> QED
  BY <1>1, <1>2

\* The front of a non-empty list is a member.
LEMMA HeadIsMember ==
    ASSUME NEW S, NEW s \in Seq(S), Len(s) > 0
    PROVE  Head(s) \in Range(s) /\ Head(s) \in S
BY SMT DEF Range

\* The values f gives the members of S.
Image(f, S) == {f[x] : x \in S}

\* The list of the values f gives the members of s.
Mapped(f, s) == [i \in DOMAIN s |-> f[s[i]]]

LEMMA MappedShape ==
    ASSUME NEW S, NEW f, NEW s \in Seq(S)
    PROVE  /\ Mapped(f, s) \in Seq(Image(f, S))
           /\ Len(Mapped(f, s)) = Len(s)
<1>1. DOMAIN s = 1..Len(s) /\ Len(s) \in Nat /\ \A i \in 1..Len(s) : f[s[i]] \in Image(f, S)
  BY SMT DEF Image
<1> QED
  BY <1>1, SMT DEF Mapped

\* f tells the members of s apart.
Separates(f, s) == \A x, y \in Range(s) : f[x] = f[y] => x = y

\* Removing a member and mapping commute when f tells the members apart.
LEMMA MappedWithout ==
    ASSUME NEW S, NEW f, NEW s \in Seq(S), IsInjective(s),
           Separates(f, s), NEW e \in Range(s)
    PROVE  Mapped(f, Without(s, e)) = Without(Mapped(f, s), f[e])
<1> DEFINE m == Mapped(f, s)
           i == CHOOSE k \in DOMAIN s : s[k] = e
           j == CHOOSE k \in DOMAIN m : m[k] = f[e]
<1>1. i \in 1..Len(s) /\ s[i] = e
  BY SMT DEF Range
<1>2. /\ m \in Seq(Image(f, S)) /\ Len(m) = Len(s)
      /\ \A k \in 1..Len(s) : m[k] = f[s[k]]
      /\ DOMAIN s = 1..Len(s) /\ DOMAIN m = 1..Len(s) /\ Len(s) \in Nat
  <2>1. m \in Seq(Image(f, S)) /\ Len(m) = Len(s)
    BY MappedShape
  <2>2. \A k \in DOMAIN s : m[k] = f[s[k]]
    BY DEF Mapped
  <2> QED
    BY <2>1, <2>2, SMT
<1> HIDE DEF m, i
<1>3. j \in 1..Len(s) /\ m[j] = f[e]
  BY <1>1, <1>2
<1> HIDE DEF j
<1>4. j = i
  <2>1. s[j] \in Range(s) /\ f[s[j]] = f[e]
    BY <1>2, <1>3 DEF Range
  <2>2. s[j] = s[i]
    BY <1>1, <2>1 DEF Separates
  <2> QED
    BY <1>1, <1>2, <1>3, <2>2 DEF IsInjective
<1>5. Without(s, e) = Cut(s, i)
  BY DEF Without, i
<1>6. Without(m, f[e]) = Cut(m, i)
  <2>1. f[e] \in Range(m)
    BY <1>2, <1>3 DEF Range
  <2> QED
    BY <1>4, <2>1 DEF Without, j
<1>7. /\ Cut(s, i) \in Seq(S) /\ Len(Cut(s, i)) = Len(s) - 1
      /\ \A k \in 1..(Len(s) - 1) : Cut(s, i)[k] = IF k < i THEN s[k] ELSE s[k + 1]
  BY <1>1, CutShape
<1>8. /\ Cut(m, i) \in Seq(Image(f, S)) /\ Len(Cut(m, i)) = Len(s) - 1
      /\ \A k \in 1..(Len(s) - 1) : Cut(m, i)[k] = IF k < i THEN m[k] ELSE m[k + 1]
  <2>1. i \in 1..Len(m)
    BY <1>1, <1>2
  <2>2. /\ Cut(m, i) \in Seq(Image(f, S)) /\ Len(Cut(m, i)) = Len(m) - 1
        /\ \A k \in 1..(Len(m) - 1) : Cut(m, i)[k] = IF k < i THEN m[k] ELSE m[k + 1]
    BY <1>2, <2>1, CutShape
  <2> QED
    BY <1>2, <2>2
<1>9. /\ Mapped(f, Cut(s, i)) \in Seq(Image(f, S)) /\ Len(Mapped(f, Cut(s, i))) = Len(s) - 1
      /\ \A k \in 1..(Len(s) - 1) : Mapped(f, Cut(s, i))[k] = f[Cut(s, i)[k]]
  <2>1. /\ Mapped(f, Cut(s, i)) \in Seq(Image(f, S))
        /\ Len(Mapped(f, Cut(s, i))) = Len(Cut(s, i))
    BY <1>7, MappedShape
  <2>2. \A k \in DOMAIN Cut(s, i) : Mapped(f, Cut(s, i))[k] = f[Cut(s, i)[k]]
    BY DEF Mapped
  <2> QED
    BY <1>7, <2>1, <2>2, SMT
<1>10. ASSUME NEW k \in 1..(Len(s) - 1) PROVE Mapped(f, Cut(s, i))[k] = Cut(m, i)[k]
  <2>1. CASE k < i
    <3>1. k \in 1..Len(s)
      BY <1>2, SMT
    <3>2. Cut(s, i)[k] = s[k] /\ Cut(m, i)[k] = m[k]
      BY <1>7, <1>8, <2>1
    <3> QED
      BY <1>2, <1>9, <3>1, <3>2
  <2>2. CASE ~(k < i)
    <3>1. k + 1 \in 1..Len(s)
      BY <1>2, SMT
    <3>2. Cut(s, i)[k] = s[k + 1] /\ Cut(m, i)[k] = m[k + 1]
      BY <1>7, <1>8, <2>2
    <3> QED
      BY <1>2, <1>9, <3>1, <3>2
  <2> QED
    BY <2>1, <2>2
<1>11. Mapped(f, Cut(s, i)) = Cut(m, i)
  BY <1>8, <1>9, <1>10, SeqEqual
<1> QED
  BY <1>5, <1>6, <1>11 DEF m

LEMMA MappedAppend ==
    ASSUME NEW S, NEW f, NEW s \in Seq(S), NEW e \in S
    PROVE  Mapped(f, Append(s, e)) = Append(Mapped(f, s), f[e])
<1> DEFINE a == Mapped(f, Append(s, e))
           b == Append(Mapped(f, s), f[e])
<1>1. /\ Mapped(f, s) \in Seq(Image(f, S)) /\ Len(Mapped(f, s)) = Len(s)
      /\ \A i \in 1..Len(s) : Mapped(f, s)[i] = f[s[i]]
  <2>1. Mapped(f, s) \in Seq(Image(f, S)) /\ Len(Mapped(f, s)) = Len(s)
    BY MappedShape
  <2>2. \A i \in DOMAIN s : Mapped(f, s)[i] = f[s[i]]
    BY DEF Mapped
  <2> QED
    BY <2>1, <2>2, SMT
<1>2. /\ Append(s, e) \in Seq(S) /\ Len(Append(s, e)) = Len(s) + 1 /\ Len(s) \in Nat
      /\ \A i \in 1..Len(s) : Append(s, e)[i] = s[i]
      /\ Append(s, e)[Len(s) + 1] = e
  BY SMT
<1>3. /\ a \in Seq(Image(f, S)) /\ Len(a) = Len(s) + 1
      /\ \A i \in 1..(Len(s) + 1) : a[i] = f[Append(s, e)[i]]
  <2>1. a \in Seq(Image(f, S)) /\ Len(a) = Len(Append(s, e))
    BY <1>2, MappedShape
  <2>2. \A i \in DOMAIN Append(s, e) : a[i] = f[Append(s, e)[i]]
    BY DEF Mapped
  <2> QED
    BY <1>2, <2>1, <2>2, SMT
<1>4. f[e] \in Image(f, S)
  BY DEF Image
<1>5. /\ b \in Seq(Image(f, S)) /\ Len(b) = Len(s) + 1
      /\ \A i \in 1..Len(s) : b[i] = Mapped(f, s)[i]
      /\ b[Len(s) + 1] = f[e]
  BY <1>1, <1>4, SMT
<1> HIDE DEF a, b
<1>6. ASSUME NEW i \in 1..(Len(s) + 1) PROVE a[i] = b[i]
  BY <1>1, <1>2, <1>3, <1>5, SMT
<1>7. a = b
  BY <1>3, <1>5, <1>6, SeqEqual
<1> QED
  BY <1>7 DEF a, b

LEMMA MappedMoveToBack ==
    ASSUME NEW S, NEW f, NEW s \in Seq(S), IsInjective(s),
           Separates(f, s), NEW e \in Range(s)
    PROVE  Mapped(f, MoveToBack(s, e)) = MoveToBack(Mapped(f, s), f[e])
<1>1. Without(s, e) \in Seq(S) /\ e \in S
  BY WithoutMember, SMT DEF Range
<1>2. Mapped(f, Append(Without(s, e), e)) = Append(Mapped(f, Without(s, e)), f[e])
  BY <1>1, MappedAppend
<1>3. f[e] \in Range(Mapped(f, s))
  BY MappedShape DEF Range, Mapped
<1> QED
  BY <1>2, <1>3, MappedWithout DEF MoveToBack
=============================================================================
