------------------------------ MODULE UdpProofs ------------------------------
(***************************************************************************)
(* The safety properties of the two UDP relays: of UdpNat, for any number  *)
(* of sources, remotes and sockets; and of PacketRelay, for any endpoints  *)
(* and data.                                                               *)
(***************************************************************************)
EXTENDS UdpNat, PacketRelay, TLAPS

\* Zenon proves the leaves, unless they name another backend.
USE ZenonT(30)

-----------------------------------------------------------------------------
(* The NAT relay of the server.                                            *)

Conn == [src : Source \cup {NIL}, target : Target \cup {NIL}]
Local == [src : Source \cup {NIL}, target : Target \cup {NIL}, dst : Sock \cup {NIL}]

TypeOK ==
    /\ pc \in {"read", "listen", "store", "send", "close all", "done"}
    /\ cur \in Local
    /\ cache \in [Source -> Sock \cup {NIL}]
    /\ open \subseteq Sock /\ sock \in [Sock -> Conn]
    /\ hpc \in [Sock -> {"none", "read", "delete"}]
    /\ conns \subseteq Sock
    /\ got \in [Source -> SUBSET Peer] /\ addressed \in [Source -> SUBSET Target]

(* What the main loop knows between two critical sections: only it adds    *)
(* entries, so the source it found without one still has none; the socket  *)
(* it has opened is its source's and has no handler yet.                   *)
Holding ==
    /\ pc \in {"listen", "store"} =>
          /\ cur.src \in Source /\ cache[cur.src] = NIL
          /\ cur.target \in addressed[cur.src]
    /\ pc = "store" =>
          /\ cur.dst \in Sock /\ hpc[cur.dst] = "none"
          /\ sock[cur.dst].src = cur.src /\ sock[cur.dst].target = cur.target

(* A handler serves a source, for a target that source has addressed for, and  *)
(* has closed its socket when it removes the entry.                        *)
Serving ==
    \A s \in Sock :
        /\ hpc[s] # "none" => sock[s].src \in Source /\ sock[s].target \in addressed[sock[s].src]
        /\ hpc[s] = "delete" => s \notin open
        /\ s \in open => sock[s].src \in Source

IInv == TypeOK /\ Holding /\ Serving /\ CacheIsHandlers /\ OnlySolicited

(* No socket is open and no handler runs when relayUDP starts. *)
LEMMA InitIInv == NatInit => IInv
  <1> SUFFICES ASSUME NatInit PROVE IInv
    OBVIOUS
  <1>1. TypeOK
    BY DEF NatInit, TypeOK, NoCur, Conn, Local
  <1>2. Holding /\ Serving /\ OnlySolicited
    BY DEF NatInit, Holding, Serving, OnlySolicited
  <1>3. CacheIsHandlers
    BY NatAssumption DEF NatInit, CacheIsHandlers
  <1> QED
    BY <1>1, <1>2, <1>3 DEF IInv

(* Every step of the main loop and of a handler preserves the invariant. *)
LEMMA StepIInv == IInv /\ [NatNext]_natVars => IInv'
  <1> SUFFICES ASSUME IInv, [NatNext]_natVars PROVE IInv'
    OBVIOUS
  <1>0. TypeOK /\ Holding /\ Serving /\ CacheIsHandlers /\ OnlySolicited
    BY DEF IInv
  <1>1. ASSUME NEW a \in Source, NEW t \in Target, ReadDatagram(a, t) PROVE IInv'
    <2>1. TypeOK'
      BY <1>0, <1>1, NatAssumption DEF ReadDatagram, TypeOK, Conn, Local
    <2>2. Holding'
      BY <1>0, <1>1, NatAssumption DEF ReadDatagram, Holding, TypeOK, Conn, Local
    <2>3. Serving' /\ OnlySolicited'
      BY <1>0, <1>1, NatAssumption DEF ReadDatagram, Serving, OnlySolicited, TypeOK, Conn, Local
    <2>4. CacheIsHandlers'
      BY <1>0, <1>1, NatAssumption, SMT DEF ReadDatagram, CacheIsHandlers, TypeOK, Conn, Local
    <2> QED
      BY <2>1, <2>2, <2>3, <2>4 DEF IInv
  <1>2. ASSUME NEW s \in Sock, ListenLocalUDP(s) PROVE IInv'
    <2>0. hpc[s] = "none" /\ s \notin open /\ cur.src \in Source /\ cur.target \in Target
      BY <1>0, <1>2 DEF ListenLocalUDP, Free, Holding, TypeOK, Conn, Local
    <2>1. TypeOK'
      BY <1>0, <1>2, <2>0, NatAssumption DEF ListenLocalUDP, TypeOK, Conn, Local, Holding
    <2>2. Holding'
      BY <1>0, <1>2, <2>0, NatAssumption DEF ListenLocalUDP, Holding, TypeOK, Conn, Local
    <2>3. Serving' /\ OnlySolicited'
      BY <1>0, <1>2, <2>0, NatAssumption DEF ListenLocalUDP, Serving, OnlySolicited, TypeOK, Conn, Local
    <2>4. CacheIsHandlers'
      BY <1>0, <1>2, <2>0, NatAssumption, SMT DEF ListenLocalUDP, CacheIsHandlers, TypeOK, Conn, Local
    <2> QED
      BY <2>1, <2>2, <2>3, <2>4 DEF IInv
  <1>3. CASE ListenFails
    <2>1. TypeOK'
      BY <1>0, <1>3, NatAssumption DEF ListenFails, NoCur, ghost, TypeOK, Conn, Local
    <2>2. Holding'
      BY <1>0, <1>3, NatAssumption DEF ListenFails, NoCur, ghost, Holding, TypeOK, Conn, Local
    <2>3. Serving' /\ OnlySolicited'
      BY <1>0, <1>3, NatAssumption DEF ListenFails, NoCur, ghost, Serving, OnlySolicited, TypeOK, Conn, Local
    <2>4. CacheIsHandlers'
      BY <1>0, <1>3, NatAssumption, SMT DEF ListenFails, NoCur, ghost, CacheIsHandlers, TypeOK, Conn, Local
    <2> QED
      BY <2>1, <2>2, <2>3, <2>4 DEF IInv
  <1>4. CASE StoreConn
    <2>0. cur.src \in Source /\ cur.dst \in Sock
      BY <1>0, <1>4 DEF StoreConn, Holding, TypeOK, Conn, Local
    <2>1. TypeOK'
      BY <1>0, <1>4, <2>0, NatAssumption DEF StoreConn, ghost, TypeOK, Conn, Local, Holding
    <2>2. Holding'
      BY <1>0, <1>4, <2>0, NatAssumption DEF StoreConn, ghost, Holding, TypeOK, Conn, Local
    <2>3. Serving' /\ OnlySolicited'
      BY <1>0, <1>4, <2>0, NatAssumption DEF StoreConn, ghost, Serving, OnlySolicited, TypeOK, Conn, Local, Holding
    <2>4. CacheIsHandlers'
      BY <1>0, <1>4, <2>0, NatAssumption, SMT DEF StoreConn, ghost, CacheIsHandlers, TypeOK, Conn, Local, Holding
    <2> QED
      BY <2>1, <2>2, <2>3, <2>4 DEF IInv
  <1>5. CASE SendDatagram
    <2>1. TypeOK'
      BY <1>0, <1>5, NatAssumption DEF SendDatagram, NoCur, TypeOK, Conn, Local
    <2>2. Holding'
      BY <1>0, <1>5, NatAssumption DEF SendDatagram, NoCur, Holding, TypeOK, Conn, Local
    <2>3. Serving' /\ OnlySolicited'
      BY <1>0, <1>5, NatAssumption DEF SendDatagram, NoCur, Serving, OnlySolicited, TypeOK, Conn, Local
    <2>4. CacheIsHandlers'
      BY <1>0, <1>5, NatAssumption DEF SendDatagram, NoCur, CacheIsHandlers, TypeOK, Conn, Local
    <2> QED
      BY <2>1, <2>2, <2>3, <2>4 DEF IInv
  <1>6. CASE ReadFails
    <2>1. TypeOK'
      <3>1. conns' \subseteq Sock
        <4>1. cache \in [Source -> Sock \cup {NIL}]
          BY <1>0 DEF TypeOK
        <4>2. conns' = { cache[a] : a \in Source } \ {NIL}
          BY <1>6 DEF ReadFails
        <4> QED
          BY <4>1, <4>2
      <3> QED
        BY <1>0, <1>6, <3>1 DEF ReadFails, ghost, TypeOK
    <2>2. Holding'
      BY <1>0, <1>6, NatAssumption DEF ReadFails, ghost, Holding, TypeOK, Conn, Local
    <2>3. Serving' /\ OnlySolicited'
      BY <1>0, <1>6, NatAssumption DEF ReadFails, ghost, Serving, OnlySolicited, TypeOK, Conn, Local
    <2>4. CacheIsHandlers'
      BY <1>0, <1>6, NatAssumption DEF ReadFails, ghost, CacheIsHandlers, TypeOK, Conn, Local
    <2> QED
      BY <2>1, <2>2, <2>3, <2>4 DEF IInv
  <1>7. ASSUME NEW s \in Sock, CloseConn(s) PROVE IInv'
    <2>1. TypeOK'
      BY <1>0, <1>7, NatAssumption DEF CloseConn, ghost, TypeOK, Conn, Local
    <2>2. Holding'
      BY <1>0, <1>7, NatAssumption DEF CloseConn, ghost, Holding, TypeOK, Conn, Local
    <2>3. Serving' /\ OnlySolicited'
      BY <1>0, <1>7, NatAssumption DEF CloseConn, ghost, Serving, OnlySolicited, TypeOK, Conn, Local
    <2>4. CacheIsHandlers'
      BY <1>0, <1>7, NatAssumption DEF CloseConn, ghost, CacheIsHandlers, TypeOK, Conn, Local
    <2> QED
      BY <2>1, <2>2, <2>3, <2>4 DEF IInv
  <1>8. CASE RelayReturns
    <2>1. TypeOK'
      BY <1>0, <1>8, NatAssumption DEF RelayReturns, ghost, TypeOK, Conn, Local
    <2>2. Holding'
      BY <1>0, <1>8, NatAssumption DEF RelayReturns, ghost, Holding, TypeOK, Conn, Local
    <2>3. Serving' /\ OnlySolicited'
      BY <1>0, <1>8, NatAssumption DEF RelayReturns, ghost, Serving, OnlySolicited, TypeOK, Conn, Local
    <2>4. CacheIsHandlers'
      BY <1>0, <1>8, NatAssumption DEF RelayReturns, ghost, CacheIsHandlers, TypeOK, Conn, Local
    <2> QED
      BY <2>1, <2>2, <2>3, <2>4 DEF IInv
  <1>9. ASSUME NEW s \in Sock, NEW r \in Peer, HandlerRead(s, r) PROVE IInv'
    <2>1. TypeOK'
      BY <1>0, <1>9, NatAssumption DEF HandlerRead, TypeOK, Conn, Local
    <2>2. Holding'
      BY <1>0, <1>9, NatAssumption DEF HandlerRead, Holding, TypeOK, Conn, Local
    <2>3. Serving' /\ OnlySolicited'
      BY <1>0, <1>9, NatAssumption DEF HandlerRead, Serving, OnlySolicited, TypeOK, Conn, Local
    <2>4. CacheIsHandlers'
      BY <1>0, <1>9 DEF HandlerRead, CacheIsHandlers
    <2> QED
      BY <2>1, <2>2, <2>3, <2>4 DEF IInv
  <1>10. ASSUME NEW s \in Sock, HandlerFails(s) PROVE IInv'
    <2>1. TypeOK'
      BY <1>0, <1>10, NatAssumption DEF HandlerFails, ghost, TypeOK, Conn, Local
    <2>2. Holding'
      BY <1>0, <1>10, NatAssumption DEF HandlerFails, ghost, Holding, TypeOK, Conn, Local
    <2>3. Serving' /\ OnlySolicited'
      BY <1>0, <1>10, NatAssumption DEF HandlerFails, ghost, Serving, OnlySolicited, TypeOK, Conn, Local
    <2>4. CacheIsHandlers'
      <3>1. \A u \in Sock : hpc'[u] = "none" <=> hpc[u] = "none"
        BY <1>0, <1>10 DEF HandlerFails, TypeOK
      <3> QED
        BY <1>0, <1>10, <3>1 DEF HandlerFails, CacheIsHandlers
    <2> QED
      BY <2>1, <2>2, <2>3, <2>4 DEF IInv
  <1>11. ASSUME NEW s \in Sock, HandlerDeletes(s) PROVE IInv'
    <2>0. sock[s].src \in Source /\ cache[sock[s].src] = s
      BY <1>0, <1>11 DEF HandlerDeletes, Serving, CacheIsHandlers, TypeOK, Conn, Local
    <2>1. TypeOK'
      BY <1>0, <1>11, <2>0, NatAssumption DEF HandlerDeletes, ghost, TypeOK, Conn, Local
    <2>2. Holding'
      BY <1>0, <1>11, <2>0, NatAssumption DEF HandlerDeletes, ghost, Holding, TypeOK, Conn, Local
    <2>3. Serving' /\ OnlySolicited'
      BY <1>0, <1>11, <2>0, NatAssumption DEF HandlerDeletes, ghost, Serving, OnlySolicited, TypeOK, Conn, Local
    <2>4. CacheIsHandlers'
      <3>1. \A a \in Source : cache'[a] = IF a = sock[s].src THEN NIL ELSE cache[a]
        BY <1>0, <1>11, <2>0 DEF HandlerDeletes, TypeOK
      <3>2. \A u \in Sock : hpc'[u] = IF u = s THEN "none" ELSE hpc[u]
        BY <1>0, <1>11 DEF HandlerDeletes, TypeOK
      <3>3. s \notin open /\ sock' = sock /\ open' = open /\ pc' = pc /\ cur' = cur
        BY <1>0, <1>11 DEF HandlerDeletes, Serving
      <3>4. \A a \in Source, u \in Sock : cache'[a] = u <=> hpc'[u] # "none" /\ sock'[u].src = a
        BY <1>0, <2>0, <3>1, <3>2, <3>3, NatAssumption, SMT DEF CacheIsHandlers
      <3>5. \A u \in Sock : u \in open' => cache'[sock'[u].src] = u \/ (pc' = "store" /\ cur'.dst = u)
        <4> SUFFICES ASSUME NEW u \in Sock, u \in open, ~(pc = "store" /\ cur.dst = u)
                     PROVE  cache'[sock[u].src] = u
          BY <3>3
        <4>1. cache[sock[u].src] = u /\ u # s
          BY <1>0, <3>3 DEF CacheIsHandlers
        <4>2. sock[u].src \in Source
          BY <1>0 DEF Serving
        <4> QED
          BY <2>0, <3>1, <4>1, <4>2
      <3> QED
        BY <3>4, <3>5 DEF CacheIsHandlers
    <2> QED
      BY <2>1, <2>2, <2>3, <2>4 DEF IInv
  <1>12. CASE UNCHANGED natVars
    <2>1. TypeOK'
      BY <1>0, <1>12, NatAssumption DEF natVars, TypeOK, Conn, Local
    <2>2. Holding'
      BY <1>0, <1>12, NatAssumption DEF natVars, Holding, TypeOK, Conn, Local
    <2>3. Serving' /\ OnlySolicited'
      BY <1>0, <1>12, NatAssumption DEF natVars, Serving, OnlySolicited, TypeOK, Conn, Local
    <2>4. CacheIsHandlers'
      <3>1. UNCHANGED <<cache, hpc, sock, open, pc, cur>>
        BY <1>12 DEF natVars
      <3> QED
        BY <1>0, <3>1, SMT DEF CacheIsHandlers
    <2> QED
      BY <2>1, <2>2, <2>3, <2>4 DEF IInv
  <1> QED
    BY <1>1, <1>2, <1>3, <1>4, <1>5, <1>6, <1>7, <1>8, <1>9, <1>10, <1>11, <1>12
    DEF NatNext, Main, Handler

\* The map of relayUDP is exactly the running handlers and holds every open socket.
THEOREM NatMapIsItsHandlers == NatSpec => []CacheIsHandlers
<1>1. IInv => CacheIsHandlers
  BY DEF IInv
<1> QED
  BY <1>1, InitIInv, StepIInv, PTL DEF NatSpec

\* A source only hears from the remotes it has addressed, however handlers end, time
\* out and are replaced.
THEOREM OnlySolicitedAnswers == NatSpec => []OnlySolicited
<1>1. IInv => OnlySolicited
  BY DEF IInv
<1> QED
  BY <1>1, InitIInv, StepIInv, PTL DEF NatSpec
-----------------------------------------------------------------------------
(* Datagrams.                                                              *)

IsSeq(s) == \E S : s \in Seq(S)

(* Two byte strings joined, and taken apart again. *)
LEMMA Joined ==
    ASSUME NEW a, NEW b, IsSeq(a), IsSeq(b)
    PROVE  /\ IsSeq(a \o b) /\ Len(a) \in Nat /\ Len(b) \in Nat
           /\ Len(a \o b) = Len(a) + Len(b)
           /\ \A i \in 1 .. Len(a) : (a \o b)[i] = a[i]
           /\ \A i \in 1 .. Len(b) : (a \o b)[Len(a) + i] = b[i]
           /\ SubSeq(a \o b, 1, Len(a)) = a
           /\ From(a \o b, Len(a)) = b
<1>1. PICK A : a \in Seq(A)
  BY DEF IsSeq
<1>2. PICK B : b \in Seq(B)
  BY DEF IsSeq
<1> DEFINE S == A \cup B
<1>3. a \in Seq(S) /\ b \in Seq(S)
  BY <1>1, <1>2, SMT
<1> HIDE DEF S
<1>4. a \o b \in Seq(S) /\ Len(a \o b) = Len(a) + Len(b) /\ Len(a) \in Nat /\ Len(b) \in Nat
  BY <1>3, SMT
<1>5. /\ \A i \in 1 .. Len(a) : (a \o b)[i] = a[i]
      /\ \A i \in 1 .. Len(b) : (a \o b)[Len(a) + i] = b[i]
  BY <1>3, <1>4, SMT
<1>6. SubSeq(a \o b, 1, Len(a)) = a
  <2>1. /\ SubSeq(a \o b, 1, Len(a)) \in Seq(S) /\ Len(SubSeq(a \o b, 1, Len(a))) = Len(a)
        /\ \A i \in 1 .. Len(a) : SubSeq(a \o b, 1, Len(a))[i] = (a \o b)[i]
    BY <1>4, SMT
  <2> QED
    BY <1>3, <1>5, <2>1, SMT
<1>7. From(a \o b, Len(a)) = b
  <2> DEFINE t == SubSeq(a \o b, Len(a) + 1, Len(a) + Len(b))
  <2>1. /\ t \in Seq(S) /\ Len(t) = Len(b)
        /\ \A i \in 1 .. Len(b) : t[i] = (a \o b)[Len(a) + i]
    BY <1>4, SMT
  <2> HIDE DEF t
  <2>2. t = b
    BY <1>3, <1>5, <2>1, SMT
  <2> QED
    BY <1>4, <2>2 DEF From, t
<1> QED
  BY <1>4, <1>5, <1>6, <1>7 DEF IsSeq

LEMMA JoinedThrice ==
    ASSUME NEW a, NEW b, NEW c, IsSeq(a), IsSeq(b), IsSeq(c)
    PROVE  (a \o b) \o c = a \o (b \o c)
<1>1. PICK A : a \in Seq(A)
  BY DEF IsSeq
<1>2. PICK B : b \in Seq(B)
  BY DEF IsSeq
<1>3. PICK C : c \in Seq(C)
  BY DEF IsSeq
<1> DEFINE S == A \cup B \cup C
<1>4. a \in Seq(S) /\ b \in Seq(S) /\ c \in Seq(S)
  BY <1>1, <1>2, <1>3, SMT
<1> HIDE DEF S
<1> QED
  BY <1>4, SMT

LEMMA OneByte ==
    ASSUME NEW x
    PROVE  IsSeq(<<x>>) /\ Len(<<x>>) = 1 /\ <<x>>[1] = x
<1>1. <<x>> \in Seq({x}) /\ Len(<<x>>) = 1 /\ <<x>>[1] = x
  BY SMT
<1> QED
  BY <1>1 DEF IsSeq

(* A datagram with one more byte at the end. *)
LEMMA Tailed ==
    ASSUME NEW b, IsSeq(b), NEW m
    PROVE  /\ IsSeq(b \o Mark(m)) /\ Sealed(b \o Mark(m), m)
           /\ Front(b \o Mark(m), 1) = b
<1> DEFINE t == Mark(m)
<1>1. IsSeq(t) /\ Len(t) = 1 /\ t[1] = <<m, 0>>
  BY OneByte DEF Mark
<1> HIDE DEF t
<1>2. /\ IsSeq(b \o t) /\ Len(b) \in Nat /\ Len(b \o t) = Len(b) + 1
      /\ (b \o t)[Len(b) + 1] = t[1] /\ SubSeq(b \o t, 1, Len(b)) = b
  <2>1. /\ IsSeq(b \o t) /\ Len(b) \in Nat /\ Len(b \o t) = Len(b) + Len(t)
        /\ \A i \in 1 .. Len(t) : (b \o t)[Len(b) + i] = t[i]
        /\ SubSeq(b \o t, 1, Len(b)) = b
    <3>1. IsSeq(t)
      BY <1>1
    <3> QED
      BY <3>1, Joined, SMT
  <2> QED
    BY <1>1, <2>1, SMT
<1>3. Sealed(b \o t, m)
  BY <1>1, <1>2, SMT DEF Sealed
<1>4. Front(b \o t, 1) = b
  BY <1>2, SMT DEF Front
<1> QED
  BY <1>2, <1>3, <1>4 DEF t

LEMMA OneMore ==
    ASSUME NEW b, IsSeq(b), Len(b) >= 1, NEW m
    PROVE  /\ IsSeq(b \o Mark(m)) /\ Len(b \o Mark(m)) = Len(b) + 1
           /\ (b \o Mark(m))[1] = b[1]
<1> DEFINE t == Mark(m)
<1>1. IsSeq(t) /\ Len(t) = 1
  BY OneByte DEF Mark
<1> HIDE DEF t
<1>2. /\ IsSeq(b \o t) /\ Len(b) \in Nat /\ Len(b \o t) = Len(b) + Len(t)
      /\ \A i \in 1 .. Len(b) : (b \o t)[i] = b[i]
  <2>1. IsSeq(t)
    BY <1>1
  <2> QED
    BY <2>1, Joined, SMT
<1> QED
  BY <1>1, <1>2, SMT DEF t

LEMMA AddrLens == \A x : AddrLen(x) \in Nat /\ AddrLen(x) >= 5
<1>1. NameLen \in Nat /\ NameLen >= 1
  BY DatagramAssumption, SMT
<1> QED
  BY <1>1, SMT DEF AddrLen

(* The head of a datagram: ParseAddressFromBuffer finds the address that   *)
(* was written there and no other, and what follows is the rest.           *)
LEMMA Header ==
    ASSUME NEW a \in Endpoint, NEW d, IsSeq(d)
    PROVE  /\ IsSeq(ParseAddress(a) \o d)
           /\ Len(ParseAddress(a) \o d) >= 3 /\ ~(Len(ParseAddress(a) \o d) < AddrLen(a))
           /\ AddressAt(ParseAddress(a) \o d) = {a}
           /\ From(ParseAddress(a) \o d, AddrLen(a)) = d
<1> DEFINE h == ParseAddress(a)
           b == h \o d
<1>1. \A x : AddrLen(x) \in Nat /\ AddrLen(x) >= 5
  BY AddrLens
<1>2. \A x : ParseAddress(x)[1] = <<x, 1>>
  BY <1>1, SMT DEF ParseAddress
<1>3. h \in Seq({<<a, i>> : i \in Nat}) /\ Len(h) = AddrLen(a)
  BY <1>1, SMT DEF ParseAddress
<1> HIDE DEF h
<1>4. IsSeq(h)
  BY <1>3 DEF IsSeq
<1>5. /\ IsSeq(b) /\ Len(d) \in Nat /\ Len(b) = AddrLen(a) + Len(d)
      /\ b[1] = h[1]
      /\ SubSeq(b, 1, AddrLen(a)) = h /\ From(b, AddrLen(a)) = d
  <2>1. /\ IsSeq(b) /\ Len(d) \in Nat /\ Len(b) = Len(h) + Len(d)
        /\ \A i \in 1 .. Len(h) : b[i] = h[i]
        /\ SubSeq(b, 1, Len(h)) = h /\ From(b, Len(h)) = d
    BY <1>4, Joined
  <2> QED
    BY <1>1, <1>3, <2>1, SMT
<1> HIDE DEF b
<1>6. a \in AddressAt(b)
  BY <1>1, <1>5, SMT DEF AddressAt, h
<1>7. ASSUME NEW x \in AddressAt(b) PROVE x = a
  <2>1. Len(b) >= AddrLen(x) /\ SubSeq(b, 1, AddrLen(x)) = ParseAddress(x)
    BY <1>7 DEF AddressAt
  <2>2. PICK S : b \in Seq(S)
    BY <1>5 DEF IsSeq
  <2>3. SubSeq(b, 1, AddrLen(x))[1] = b[1]
    BY <1>1, <2>1, <2>2, SMT
  <2>4. <<x, 1>> = <<a, 1>>
    BY <1>2, <1>5, <2>1, <2>3 DEF h
  <2> QED
    BY <2>4
<1> QED
  BY <1>1, <1>5, <1>6, <1>7, SMT DEF b, h

(* The reserved bytes of SOCKS5 before a datagram. *)
LEMMA Socks5Header ==
    ASSUME NEW a \in Endpoint, NEW d, IsSeq(d)
    PROVE  /\ Len(Reserved \o ParseAddress(a) \o d) >= 3
           /\ From(Reserved \o ParseAddress(a) \o d, 3) = ParseAddress(a) \o d
           /\ From(Reserved \o ParseAddress(a) \o d, 3 + AddrLen(a)) = d
           /\ Reserved \o ParseAddress(a) \o d = Reserved \o (ParseAddress(a) \o d)
<1> DEFINE h == ParseAddress(a)
           v == Reserved
<1>1. AddrLen(a) \in Nat /\ h \in Seq({<<a, i>> : i \in Nat}) /\ Len(h) = AddrLen(a)
  BY AddrLens, SMT DEF ParseAddress
<1>2. v \in Seq({<<"rsv", 0>>}) /\ Len(v) = 3
  BY SMT DEF Reserved
<1>3. IsSeq(h) /\ IsSeq(v)
  BY <1>1, <1>2 DEF IsSeq
<1> HIDE DEF h, v
<1>4. IsSeq(h \o d) /\ IsSeq(v \o h) /\ Len(v \o h) = 3 + AddrLen(a) /\ (v \o h) \o d = v \o (h \o d)
  <2>1. IsSeq(h \o d)
    BY <1>3, Joined
  <2>2. IsSeq(v \o h) /\ Len(v \o h) = Len(v) + Len(h)
    BY <1>3, Joined
  <2>3. (v \o h) \o d = v \o (h \o d)
    BY <1>3, JoinedThrice, SMT
  <2> QED
    BY <1>1, <1>2, <2>1, <2>2, <2>3
<1>5. From(v \o (h \o d), 3) = h \o d /\ Len(v \o (h \o d)) = 3 + Len(h \o d) /\ Len(h \o d) \in Nat
  <2> DEFINE b == h \o d
  <2> HIDE DEF b
  <2>1. IsSeq(b)
    BY <1>4 DEF b
  <2>2. From(v \o b, Len(v)) = b /\ Len(v \o b) = Len(v) + Len(b) /\ Len(b) \in Nat
    BY <1>3, <2>1, Joined
  <2> QED
    BY <1>2, <2>2 DEF b
<1>6. From((v \o h) \o d, 3 + AddrLen(a)) = d
  BY <1>3, <1>4, Joined
<1> QED
  BY <1>4, <1>5, <1>6, SMT DEF h, v

-----------------------------------------------------------------------------
(* The packet ciphers.                                                     *)

Cipher == {"none", "stream", "aead", "auth_aes128", "auth_chain"}

LEMMA StreamTrip ==
    ASSUME NEW k, NEW b
    PROVE  /\ streamReadFrom(streamWriteTo(k, b)) = b
           /\ aeadReadFrom(aeadWriteTo(k, b)) = b
<1>1. IsSeq(IV(k)) /\ Len(IV(k)) = 1 /\ IV(k)[1] = <<"iv", k>>
  BY OneByte DEF IV
<1>2. IsSeq(Block(k, b)) /\ Len(Block(k, b)) = 1 /\ Block(k, b)[1] = <<k, b>>
  BY OneByte DEF Block
<1> DEFINE s == IV(k) \o Block(k, b)
<1>3. IsSeq(s) /\ Len(s) = 2 /\ s[1] = <<"iv", k>> /\ s[2] = <<k, b>>
  <2>1. /\ IsSeq(s) /\ Len(s) = Len(IV(k)) + Len(Block(k, b))
        /\ \A i \in 1 .. Len(IV(k)) : s[i] = IV(k)[i]
        /\ \A i \in 1 .. Len(Block(k, b)) : s[Len(IV(k)) + i] = Block(k, b)[i]
    BY <1>1, <1>2, Joined, SMT
  <2> QED
    BY <1>1, <1>2, <2>1, SMT
<1> HIDE DEF s
<1>4. Decrypt(s[1][2], s[2]) = b
  BY <1>3, SMT DEF Decrypt
<1>5. /\ Sealed(s \o Mark("tag"), "tag")
      /\ (s \o Mark("tag"))[1] = s[1] /\ (s \o Mark("tag"))[2] = s[2]
  <2>1. Sealed(s \o Mark("tag"), "tag")
    BY <1>3, Tailed
  <2>2. IsSeq(Mark("tag"))
    BY OneByte DEF Mark
  <2>3. \A i \in 1 .. Len(s) : (s \o Mark("tag"))[i] = s[i]
    <3> DEFINE t == Mark("tag")
    <3>1. IsSeq(s) /\ IsSeq(t)
      BY <1>3, <2>2
    <3> HIDE DEF t
    <3>2. \A i \in 1 .. Len(s) : (s \o t)[i] = s[i]
      BY <3>1, Joined
    <3> QED
      BY <3>2 DEF t
  <2>4. 1 \in 1 .. Len(s) /\ 2 \in 1 .. Len(s)
    BY <1>3, SMT
  <2> QED
    BY <2>1, <2>3, <2>4
<1>6. streamReadFrom(streamWriteTo(k, b)) = b
  <2>1. ~(Len(s) < 2)
    BY <1>3, SMT
  <2> QED
    BY <1>4, <2>1 DEF streamReadFrom, streamWriteTo, s
<1>7. aeadReadFrom(aeadWriteTo(k, b)) = b
  BY <1>4, <1>5 DEF aeadReadFrom, aeadWriteTo, s
<1> QED
  BY <1>6, <1>7

(* auth_aes128 and auth_chain, in both directions. *)
LEMMA ProtocolTrip ==
    ASSUME NEW b, IsSeq(b)
    PROVE  /\ Front(aesDecodePacket(aesEncodePacket(b)), 1) = b
           /\ aesDecodePacket(b \o Mark("mac")) = b /\ b \o Mark("mac") # Panic
           /\ chainDecodePacket(chainEncodePacket(b)) = b /\ chainEncodePacket(b) # Panic
<1>0. ASSUME NEW c, IsSeq(c)
      PROVE  aesDecodePacket(c \o Mark("mac")) = c /\ c \o Mark("mac") # Panic
  <2> DEFINE t == c \o Mark("mac")
  <2>1. Sealed(t, "mac") /\ Front(t, 1) = c
    BY <1>0, Tailed
  <2> HIDE DEF t
  <2>2. Len(t) # 0 /\ t[Len(t)] = <<"mac", 0>>
    BY <2>1, SMT DEF Sealed
  <2>3. Len(Panic) = 1 /\ Panic[1] = <<"panic", 0>>
    BY SMT DEF Panic
  <2>4. t # Panic
    BY <2>2, <2>3, SMT
  <2> QED
    BY <2>1, <2>2, <2>4 DEF aesDecodePacket, t
<1>1. aesDecodePacket(b \o Mark("mac")) = b /\ b \o Mark("mac") # Panic
  BY <1>0
<1>2. Front(aesDecodePacket(aesEncodePacket(b)), 1) = b
  <2> DEFINE u == b \o Mark("uid")
  <2>1. IsSeq(u) /\ Front(u, 1) = b
    BY Tailed
  <2> HIDE DEF u
  <2>2. aesDecodePacket(u \o Mark("mac")) = u
    BY <1>0, <2>1
  <2> QED
    BY <2>1, <2>2 DEF aesEncodePacket, u
<1>3. chainDecodePacket(chainEncodePacket(b)) = b /\ chainEncodePacket(b) # Panic
  <2> DEFINE x == Block("rc4", b)
             p == x \o Mark("pad")
             a == p \o Mark("auth")
             y == a \o Mark("uid")
  <2>1. IsSeq(x) /\ Len(x) = 1 /\ Len(x) >= 1 /\ x[1] = <<"rc4", b>>
    BY OneByte, SMT DEF Block
  <2> HIDE DEF x
  <2>2. IsSeq(p) /\ Len(p) = Len(x) + 1 /\ p[1] = x[1]
    BY <2>1, OneMore
  <2> HIDE DEF p
  <2>3. IsSeq(a) /\ Len(a) = Len(p) + 1 /\ a[1] = p[1]
    <3>1. Len(p) >= 1
      BY <2>1, <2>2, SMT
    <3> QED
      BY <2>2, <3>1, OneMore
  <2> HIDE DEF a
  <2>4. IsSeq(y) /\ Len(y) = Len(a) + 1 /\ y[1] = a[1]
    <3>1. Len(a) >= 1
      BY <2>1, <2>2, <2>3, SMT
    <3> QED
      BY <2>3, <3>1, OneMore
  <2> HIDE DEF y
  <2>5. IsSeq(y \o Mark("mac")) /\ Len(y \o Mark("mac")) = 5 /\ (y \o Mark("mac"))[1] = x[1]
    <3>1. Len(y) = 4 /\ Len(y) >= 1
      BY <2>1, <2>2, <2>3, <2>4, SMT
    <3>2. IsSeq(y \o Mark("mac")) /\ Len(y \o Mark("mac")) = Len(y) + 1 /\ (y \o Mark("mac"))[1] = y[1]
      BY <2>4, <3>1, OneMore
    <3>3. y[1] = x[1]
      BY <2>2, <2>3, <2>4
    <3>4. Len(y \o Mark("mac")) = 5
      BY <3>1, <3>2, SMT
    <3> QED
      BY <3>2, <3>3, <3>4
  <2>6. Sealed(y \o Mark("mac"), "mac")
    BY <2>4, Tailed
  <2>7. Front(y \o Mark("mac"), 4)[1] = <<"rc4", b>>
    <3>1. PICK S : y \o Mark("mac") \in Seq(S)
      BY <2>5 DEF IsSeq
    <3>2. Front(y \o Mark("mac"), 4) = SubSeq(y \o Mark("mac"), 1, 1)
      BY <2>5, SMT DEF Front
    <3>3. SubSeq(y \o Mark("mac"), 1, 1)[1] = (y \o Mark("mac"))[1]
      BY <2>5, <3>1, SMT
    <3> QED
      BY <2>1, <2>5, <3>2, <3>3
  <2>8. chainDecodePacket(y \o Mark("mac")) = b
    BY <2>6, <2>7, SMT DEF chainDecodePacket, Decrypt
  <2>9. y \o Mark("mac") # Panic
    BY <1>0, <2>4
  <2> QED
    BY <2>8, <2>9 DEF chainEncodePacket, y, a, p, x
<1> QED
  BY <1>1, <1>2, <1>3

(* Whatever the cipher, the server reads what the relay wrote, and the     *)
(* relay what the server wrote.                                            *)
LEMMA CipherTrip ==
    ASSUME NEW c \in Cipher, NEW k, NEW b, IsSeq(b)
    PROVE  /\ ssrServerReadFrom(c, WriteTo(c, k, b)) = b
           /\ ReadFrom(c, ssrServerWriteTo(c, k, b)) = b
<1>1. CASE c = "none"
  BY <1>1 DEF ssrServerReadFrom, ssrServerWriteTo, WriteTo, ReadFrom
<1>2. CASE c = "aead"
  BY <1>2, StreamTrip DEF ssrServerReadFrom, ssrServerWriteTo, WriteTo, ReadFrom
<1>3. CASE c = "stream"
  BY <1>3, StreamTrip DEF ssrServerReadFrom, ssrServerWriteTo, WriteTo, ReadFrom
<1>4. CASE c = "auth_aes128"
  <2>1. WriteTo(c, k, b) = streamWriteTo(k, aesEncodePacket(b))
    BY <1>4 DEF WriteTo
  <2>2. \A d : ssrServerReadFrom(c, d) = Front(aesDecodePacket(streamReadFrom(d)), 1)
    BY <1>4 DEF ssrServerReadFrom
  <2>3. ssrServerWriteTo(c, k, b) = streamWriteTo(k, b \o Mark("mac"))
    BY <1>4 DEF ssrServerWriteTo
  <2>4. \A d : streamReadFrom(d) # Panic => ReadFrom(c, d) = aesDecodePacket(streamReadFrom(d))
    BY <1>4 DEF ReadFrom
  <2>5. ReadFrom(c, ssrServerWriteTo(c, k, b)) = b
    <3>1. streamReadFrom(streamWriteTo(k, b \o Mark("mac"))) = b \o Mark("mac")
      BY StreamTrip
    <3> QED
      BY <2>3, <2>4, <3>1, ProtocolTrip
  <2>6. ssrServerReadFrom(c, WriteTo(c, k, b)) = b
    <3>1. streamReadFrom(streamWriteTo(k, aesEncodePacket(b))) = aesEncodePacket(b)
      BY StreamTrip
    <3> QED
      BY <2>1, <2>2, <3>1, ProtocolTrip
  <2> QED
    BY <2>5, <2>6
<1>5. CASE c = "auth_chain"
  <2>1. WriteTo(c, k, b) = streamWriteTo(k, chainEncodePacket(b)) /\ ssrServerWriteTo(c, k, b) = WriteTo(c, k, b)
    BY <1>5 DEF WriteTo, ssrServerWriteTo
  <2>2. \A d : /\ ssrServerReadFrom(c, d) = chainDecodePacket(streamReadFrom(d))
               /\ streamReadFrom(d) # Panic => ReadFrom(c, d) = chainDecodePacket(streamReadFrom(d))
    BY <1>5 DEF ssrServerReadFrom, ReadFrom
  <2> QED
    BY <2>1, <2>2, StreamTrip, ProtocolTrip, SMT
<1> QED
  BY <1>1, <1>2, <1>3, <1>4, <1>5 DEF Cipher
-----------------------------------------------------------------------------
(* The relay of the client.                                                *)

Fixed ==
    /\ mode \in {"direct", "ss", "socks", "socks+ss"}
    /\ ss \in Endpoint /\ remote \in Remote /\ Remote \subseteq Endpoint
    /\ cipher \in Cipher /\ (~ViaServer => cipher = "none")

(* What the outbound socket is about to send for the client's datagram p   *)
(* to r, and what it has received for the answer q of r.                   *)
Request(r, p) == IF Socks THEN Reserved \o ParseAddress(r) \o Data(p) ELSE Data(p)
Outgoing(r, p) ==
    LET m == udpReadFromSrc(mode, remote, ss, Request(r, p))
    IN [to |-> m.to, b |-> WriteTo(cipher, "up", m.b)]
Incoming(a, q) ==
    [to |-> {IF ViaServer THEN ResolveUDPAddr(ss) ELSE a},
     b |-> IF ViaServer THEN FromServer(a, q) ELSE Data(q)]

(* Each of the two goroutines works on a datagram of its own, which the    *)
(* other has not overwritten; what a server has not sent will be filtered, *)
(* and it sends a tunnel nothing but the answers of its remote.            *)
UpHolds ==
    up = "send" =>
        /\ Shared => buf = sending.b
        /\ \E r \in Remote, p \in Payload :
              /\ sending = Outgoing(r, p) /\ (~Socks => r = remote)
              /\ <<ResolveUDPAddr(r), Data(p)>> \in asked
Answer(a, q) ==
    /\ arrived = Incoming(a, q) /\ <<a, Data(q)>> \in answered
    /\ mode = "ss" => a = ResolveUDPAddr(remote)
DownHolds ==
    down = "decrypt" =>
        /\ Shared => buf = arrived.b
        /\ \/ \A from \in arrived.to : Filtered(from)
           \/ \E a \in Address, q \in Payload : Answer(a, q)

OneFamily == mode = "ss" => (ResolveUDPAddr(ss) \in V4 <=> ResolveUDPAddr(remote) \in V4)

(* h is an answer; of a direct tunnel, its data is. *)
Genuine(h, known) ==
    h \in known \/ (mode = "direct" /\ \E a \in Address : <<a, h[2]>> \in known)

RInv ==
    /\ Fixed /\ raced \in BOOLEAN
    /\ raced \/ /\ UpHolds /\ DownHolds /\ reached \subseteq asked
                /\ \A x \in asked : ~Socks => x[1] = ResolveUDPAddr(remote)
                /\ OneFamily => \A h \in heard : Genuine(h, answered)

LEMMA DataFacts == \A p : IsSeq(Data(p))
BY OneByte DEF Data

LEMMA Endpoints == Fixed => remote \in Endpoint /\ Remote \subseteq Endpoint
BY DEF Fixed

LEMMA Resolves == \A a \in Endpoint : ResolveUDPAddr(a) \in Address
BY DatagramAssumption DEF Endpoint, ResolveUDPAddr

(* What gets past the filter comes from an address that is the server's. *)
LEMMA NotFiltered ==
    ASSUME Fixed, NEW from \in Address, ViaServer
    PROVE  ~Filtered(from) <=> (from = ss /\ ss \in Address)
BY DEF Filtered

LEMMA OthersFiltered ==
    ASSUME Fixed, NEW from \in Address, ViaServer, from # ResolveUDPAddr(ss)
    PROVE  Filtered(from)
BY DatagramAssumption DEF Filtered, ResolveUDPAddr

(* A datagram of the client, through udpReadFromSrc, the cipher and the    *)
(* server if there is one, arrives at its target with its data.            *)
LEMMA RequestArrives ==
    ASSUME Fixed, NEW r \in Remote, NEW p \in Payload, ~Socks => r = remote
    PROVE  Arrives(Outgoing(r, p).to, Outgoing(r, p).b) = {<<ResolveUDPAddr(r), Data(p)>>}
<1> DEFINE d == Data(p)
           b == Request(r, p)
           m == udpReadFromSrc(mode, remote, ss, b)
           h == ParseAddress(r) \o d
<1>0. r \in Endpoint /\ IsSeq(d) /\ \A x : (CHOOSE y \in {x} : TRUE) = x
  BY Endpoints, DataFacts
<1>1. Outgoing(r, p) = [to |-> m.to, b |-> WriteTo(cipher, "up", m.b)]
  BY DEF Outgoing
<1>2. IsSeq(h) /\ AddressAt(h) = {r} /\ From(h, AddrLen(r)) = d
  BY <1>0, Header
<1>3. Socks => Len(b) >= 3 /\ From(b, 3) = h /\ From(b, 3 + AddrLen(r)) = d
  BY <1>0, Socks5Header DEF Request
<1> HIDE DEF d, b, m, h
<1>4. CASE ~ViaServer
  <2>1. m = [to |-> {ResolveUDPAddr(r)}, b |-> d]
    <3>1. CASE mode = "direct"
      BY <3>1 DEF m, b, d, udpReadFromSrc, Request, Socks
    <3>2. CASE mode = "socks"
      <4>1. Socks /\ ~(Len(b) < 3 \/ AddressAt(From(b, 3)) = {})
        <5>1. Socks
          BY <3>2 DEF Socks
        <5>2. ~(Len(b) < 3)
          BY <1>0, <5>1, Socks5Header, SMT DEF b, Request, d
        <5>3. AddressAt(From(b, 3)) # {}
          BY <1>2, <1>3, <5>1
        <5> QED
          BY <5>1, <5>2, <5>3
      <4>2. (CHOOSE x \in AddressAt(From(b, 3)) : TRUE) = r
        BY <1>0, <1>2, <1>3, <4>1, SMT
      <4>3. m = LET a == CHOOSE x \in AddressAt(From(b, 3)) : TRUE
                IN [to |-> {ResolveUDPAddr(a)}, b |-> From(b, 3 + AddrLen(a))]
        BY <3>2, <4>1 DEF m, udpReadFromSrc
      <4> QED
        BY <1>3, <4>1, <4>2, <4>3
    <3> QED
      BY <1>4, <3>1, <3>2 DEF Fixed, ViaServer
  <2>2. cipher = "none"
    BY <1>4 DEF Fixed
  <2>3. Outgoing(r, p) = [to |-> {ResolveUDPAddr(r)}, b |-> d]
    BY <1>1, <2>1, <2>2 DEF WriteTo
  <2> QED
    BY <1>4, <2>3, SMT DEF Arrives, d
<1>5. CASE ViaServer
  <2>1. m = [to |-> {ResolveUDPAddr(ss)}, b |-> h]
    <3>1. CASE mode = "ss"
      BY <3>1 DEF m, b, d, h, udpReadFromSrc, Request, Socks
    <3>2. CASE mode = "socks+ss"
      <4>1. Socks
        BY <3>2 DEF Socks
      <4>2. ~(Len(b) < 3)
        BY <1>0, <4>1, Socks5Header, SMT DEF b, Request, d
      <4> QED
        BY <1>3, <3>2, <4>1, <4>2 DEF m, udpReadFromSrc
    <3> QED
      BY <1>5, <3>1, <3>2 DEF ViaServer
  <2>2. Outgoing(r, p) = [to |-> {ResolveUDPAddr(ss)}, b |-> WriteTo(cipher, "up", h)]
    BY <1>1, <2>1
  <2>3. ssrServerReadFrom(cipher, WriteTo(cipher, "up", h)) = h
    BY <1>2, CipherTrip DEF Fixed
  <2>4. serverReadFromSrc(h) = [to |-> {ResolveUDPAddr(r)}, b |-> d]
    BY <1>0, <1>2 DEF serverReadFromSrc
  <2> QED
    BY <1>5, <2>2, <2>3, <2>4, SMT DEF Arrives, d
<1> QED
  BY <1>4, <1>5

(* An answer, through the server if there is one, the cipher and           *)
(* udpWriteToSrc, is taken for what it is.                                 *)
LEMMA AnswerTaken ==
    ASSUME Fixed, OneFamily, NEW r \in Address, NEW q \in Payload,
           mode = "ss" => r = ResolveUDPAddr(remote),
           NEW from \in Incoming(r, q).to, ~Filtered(from)
    PROVE  Taken(udpWriteToSrc(mode, from, ReadFrom(cipher, Incoming(r, q).b)))
             = <<IF Socks THEN r ELSE ResolveUDPAddr(remote), Data(q)>>
<1> DEFINE d == Data(q)
           h == ParseAddress(r) \o d
           p == ReadFrom(cipher, Incoming(r, q).b)
           out == udpWriteToSrc(mode, from, p)
<1>0. r \in Endpoint /\ IsSeq(d) /\ \A x : (CHOOSE y \in {x} : TRUE) = x
  BY DataFacts DEF Endpoint
<1>2. IsSeq(h) /\ AddressAt(h) = {r} /\ From(h, AddrLen(r)) = d /\ ~(Len(h) < AddrLen(r))
  BY <1>0, Header
<1>3. /\ From(Reserved \o ParseAddress(r) \o d, 3) = h /\ From(Reserved \o ParseAddress(r) \o d, 3 + AddrLen(r)) = d
      /\ Reserved \o ParseAddress(r) \o d = Reserved \o h
  BY <1>0, Socks5Header
<1>4. from = (IF ViaServer THEN ss ELSE r) /\ p = (IF ViaServer THEN h ELSE d) /\ (ViaServer => ss \in Address)
  <2>1. CASE ViaServer
    <3>1. Incoming(r, q) = [to |-> {ResolveUDPAddr(ss)}, b |-> ssrServerWriteTo(cipher, "down", h)]
      BY <2>1 DEF Incoming, FromServer, serverWriteToSrc
    <3>0. from = ss /\ ss \in Address
      <4>1. from = ResolveUDPAddr(ss) /\ ResolveUDPAddr(ss) \in Address
        <5>1. Incoming(r, q).to = {ResolveUDPAddr(ss)}
          BY <2>1, SMT DEF Incoming
        <5>2. from \in Incoming(r, q).to /\ ss \in Endpoint
          BY DEF Fixed
        <5>3. ResolveUDPAddr(ss) \in Address
          BY <5>2, Resolves
        <5>4. from = ResolveUDPAddr(ss)
          BY <5>1, <5>2
        <5> QED
          BY <5>3, <5>4
      <4> QED
        BY <2>1, <4>1, NotFiltered
    <3> HIDE DEF h
    <3>2. ReadFrom(cipher, ssrServerWriteTo(cipher, "down", h)) = h
      BY <1>2, CipherTrip DEF Fixed
    <3> QED
      BY <2>1, <3>0, <3>1, <3>2, SMT
  <2>2. CASE ~ViaServer
    <3>1. Incoming(r, q) = [to |-> {r}, b |-> d] /\ cipher = "none"
      BY <2>2 DEF Incoming, Fixed
    <3> QED
      BY <2>2, <3>1, SMT DEF ReadFrom
  <2> QED
    BY <2>1, <2>2
<1> HIDE DEF d, h, p
<1>5. CASE ~Socks
  <2>1. out = d
    <3>1. CASE mode = "direct"
      BY <1>4, <3>1 DEF udpWriteToSrc, ViaServer
    <3>2. CASE mode = "ss"
      <4>1. AddrLen(ss) = AddrLen(r)
        <5>1. ss \in Address /\ ResolveUDPAddr(ss) = ss /\ r = ResolveUDPAddr(remote)
          BY <1>4, <3>2, DatagramAssumption DEF ViaServer, ResolveUDPAddr
        <5>2. ss \notin Name /\ r \notin Name
          BY <5>1, DatagramAssumption
        <5>3. ss \in V4 <=> r \in V4
          BY <3>2, <5>1 DEF OneFamily
        <5> QED
          BY <5>2, <5>3 DEF AddrLen
      <4> QED
        BY <1>2, <1>4, <3>2, <4>1 DEF udpWriteToSrc, ViaServer
    <3> QED
      BY <1>5, <3>1, <3>2 DEF Fixed, Socks
  <2> QED
    BY <1>5, <2>1 DEF Taken, d, p
<1>6. CASE Socks
  <2>1. out = Reserved \o ParseAddress(r) \o d
    <3>1. CASE mode = "socks"
      BY <1>4, <3>1 DEF udpWriteToSrc, ViaServer
    <3>2. CASE mode = "socks+ss"
      <4>1. p = h /\ ~(Len(p) < 3)
        BY <1>0, <1>4, <3>2, Header, SMT DEF ViaServer, h
      <4> QED
        BY <1>3, <3>2, <4>1 DEF udpWriteToSrc
    <3> QED
      BY <1>6, <3>1, <3>2 DEF Socks
  <2> HIDE DEF out
  <2>2. AddressAt(From(out, 3)) = {r} /\ From(out, 3 + AddrLen(r)) = d
    BY <1>2, <1>3, <2>1
  <2>3. Taken(out) = <<r, d>>
    BY <1>0, <1>6, <2>2 DEF Taken
  <2> QED
    BY <1>6, <2>3 DEF out, d, p
<1> QED
  BY <1>5, <1>6

LEMMA InitRInv == Init => RInv
<1> SUFFICES ASSUME Init PROVE RInv
  OBVIOUS
<1>1. Fixed
  BY RelayAssumption DEF Init, Fixed, Cipher
<1> QED
  BY <1>1 DEF Init, RInv, UpHolds, DownHolds

(* Nothing changes what the relay was set up with. *)
LEMMA StaysFixed ==
    ASSUME Fixed, UNCHANGED conf
    PROVE  /\ Fixed' /\ OneFamily' = OneFamily /\ Socks' = Socks /\ Shared' = Shared
           /\ \A r, p : Outgoing(r, p)' = Outgoing(r, p) /\ Incoming(r, p)' = Incoming(r, p)
           /\ \A from : Filtered(from)' = Filtered(from)
           /\ \A h, k : Genuine(h, k)' = Genuine(h, k)
BY DEF conf, Fixed, OneFamily, Socks, Shared, ViaServer, Outgoing, Incoming, FromServer, Request,
       Filtered, Genuine

LEMMA NextRInv == RInv /\ [Next]_vars => RInv'
<1> SUFFICES ASSUME RInv, [Next]_vars PROVE RInv'
  OBVIOUS
<1>c. UNCHANGED conf
  BY DEF Next, vars, UpRelays, UpSends, UpFails, DownLearns, Receive, DownReceives, DownReceivesOther,
         DownRelays, DownPanics, DownFails, MainReceives, MainCloses
<1>f. Fixed /\ raced \in BOOLEAN
  BY DEF RInv
<1>x. /\ Fixed' /\ OneFamily' = OneFamily /\ Socks' = Socks /\ Shared' = Shared
      /\ remote' = remote /\ mode' = mode
      /\ \A r, p : Outgoing(r, p)' = Outgoing(r, p) /\ Incoming(r, p)' = Incoming(r, p)
      /\ \A from : Filtered(from)' = Filtered(from)
      /\ \A h, k : Genuine(h, k)' = Genuine(h, k)
  BY <1>c, <1>f, StaysFixed DEF conf
<1>r. raced' \in BOOLEAN /\ (raced => raced')
  BY <1>f DEF Next, vars, UpRelays, UpSends, UpFails, DownLearns, Receive, DownReceives, DownReceivesOther,
         DownRelays, DownPanics, DownFails, MainReceives, MainCloses, bufs
<1> DEFINE Goal == /\ UpHolds' /\ DownHolds' /\ reached' \subseteq asked'
                   /\ \A x \in asked' : ~Socks => x[1] = ResolveUDPAddr(remote)
                   /\ OneFamily => \A h \in heard' : Genuine(h, answered')
<1> SUFFICES ASSUME ~raced' PROVE Goal
  <2>1. ASSUME Goal
        PROVE  /\ \A x \in asked' : ~Socks' => x[1] = ResolveUDPAddr(remote')
               /\ OneFamily' => \A h \in heard' : Genuine(h, answered)'
    BY <1>x, <2>1 DEF Genuine
  <2> QED
    BY <1>r, <1>x, <2>1 DEF RInv
<1>h. /\ ~raced /\ UpHolds /\ DownHolds /\ reached \subseteq asked
      /\ \A x \in asked : ~Socks => x[1] = ResolveUDPAddr(remote)
      /\ OneFamily => \A h \in heard : Genuine(h, answered)
  BY <1>r DEF RInv
<1>n. \A k, new : Note(k, new) = k \cup new
  BY <1>h DEF Note
<1>1. ASSUME NEW r \in Remote, NEW p \in Payload, UpRelays(r, p) PROVE Goal
  <2>1. /\ asked' = asked \cup {<<ResolveUDPAddr(r), Data(p)>>} /\ (~Socks => r = remote)
        /\ sending' = Outgoing(r, p) /\ (Shared => buf' = sending'.b)
        /\ UNCHANGED <<down, arrived, reached, answered, heard>>
    BY <1>1, <1>n DEF UpRelays, Outgoing, Request
  <2>2. ~(Shared /\ down = "decrypt") /\ (~Shared => buf' = buf)
    BY <1>1 DEF UpRelays
  <2>3. UpHolds'
    BY <1>x, <2>1 DEF UpHolds
  <2>4. DownHolds'
    BY <1>h, <1>x, <2>1, <2>2 DEF DownHolds, Answer
  <2>5. <<ResolveUDPAddr(r), Data(p)>>[1] = ResolveUDPAddr(r)
    OBVIOUS
  <2> QED
    BY <1>h, <2>1, <2>3, <2>4, <2>5
<1>2. ASSUME UpSends PROVE Goal
  <2>1. /\ up = "send" /\ up' = "read" /\ UNCHANGED <<down, arrived, asked, answered, heard>>
        /\ down = "decrypt" => buf' = buf
    BY <1>2 DEF UpSends, Leave
  <2>3. PICK r \in Remote, p \in Payload :
             /\ sending = Outgoing(r, p) /\ (~Socks => r = remote)
             /\ <<ResolveUDPAddr(r), Data(p)>> \in asked
    BY <1>h, <2>1 DEF UpHolds
  <2>4. \A b \in InBuffer(sending.b) : b = sending.b
    BY <1>h, <2>1 DEF UpHolds, InBuffer
  <2>5. Arrives(sending.to, sending.b) = {<<ResolveUDPAddr(r), Data(p)>>}
    BY <1>f, <2>3, RequestArrives
  <2>2. reached' = reached \/ \E b \in InBuffer(sending.b) : reached' = reached \cup Arrives(sending.to, b)
    BY <1>2, <1>n DEF UpSends
  <2>6. reached' \subseteq asked
    BY <1>h, <2>2, <2>3, <2>4, <2>5
  <2>7. UpHolds'
    BY <2>1 DEF UpHolds
  <2>8. DownHolds'
    BY <1>h, <1>x, <2>1 DEF DownHolds, Answer
  <2> QED
    BY <1>h, <2>1, <2>6, <2>7, <2>8
<1>3. ASSUME NEW a \in Address, NEW q \in Payload, DownReceives(a, q) PROVE Goal
  <2>1. /\ answered' = answered \cup {<<a, Data(q)>>}
        /\ arrived' = Incoming(a, q) /\ (Shared => buf' = arrived'.b)
        /\ UNCHANGED <<up, sending, asked, reached, heard>>
    <3> DEFINE m == Incoming(a, q)
    <3>0. DownReceives(a, q) => Receive(IF ViaServer THEN ResolveUDPAddr(ss) ELSE a,
                                        IF ViaServer THEN FromServer(a, q) ELSE Data(q))
      BY DEF DownReceives
    <3>1. arrived' = m /\ (Shared => buf' = m.b) /\ UNCHANGED <<up, sending, asked, reached, heard>>
      BY <1>3, <3>0 DEF Receive, Incoming
    <3>2. answered' = answered \cup {<<a, Data(q)>>}
      BY <1>3, <1>n DEF DownReceives
    <3> QED
      BY <3>1, <3>2
  <2>2. ~(Shared /\ up = "send") /\ (~Shared => buf' = buf)
    BY <1>3 DEF DownReceives, Receive
  <2>3. mode = "ss" => a = ResolveUDPAddr(remote)
    BY <1>3, <1>h DEF DownReceives, ViaServer, Socks
  <2>4. DownHolds'
    BY <1>x, <2>1, <2>3 DEF DownHolds, Answer
  <2>5. UpHolds'
    BY <1>h, <1>x, <2>1, <2>2 DEF UpHolds
  <2>6. OneFamily => \A h \in heard : Genuine(h, answered')
    BY <1>h, <2>1 DEF Genuine
  <2> QED
    BY <1>h, <2>1, <2>4, <2>5, <2>6
<1>4. ASSUME NEW a \in Address, NEW q \in Payload, DownReceivesOther(a, q) PROVE Goal
  <2>1. PICK b : Receive(a, b)
    BY <1>4 DEF DownReceivesOther
  <2>2. /\ arrived' = [to |-> {a}, b |-> b] /\ (Shared => buf' = b) /\ (~Shared => buf' = buf)
        /\ ~(Shared /\ up = "send") /\ UNCHANGED <<up, sending, asked, reached, answered, heard>>
    BY <1>4, <2>1 DEF DownReceivesOther, Receive
  <2>3. Filtered(a)
    BY <1>4, <1>f, OthersFiltered DEF DownReceivesOther
  <2>4. DownHolds'
    BY <1>x, <2>2, <2>3 DEF DownHolds
  <2>5. UpHolds'
    BY <1>h, <1>x, <2>2 DEF UpHolds
  <2> QED
    BY <1>h, <2>2, <2>4, <2>5
<1>5. ASSUME DownRelays PROVE Goal
  <2> DEFINE Out(from, b) == udpWriteToSrc(mode, from, ReadFrom(cipher, b))
  <2>1. /\ down = "decrypt" /\ UNCHANGED <<up, sending, asked, reached, answered>>
        /\ up = "send" => buf' = buf
    BY <1>5 DEF DownRelays, Leave
  <2>2. PICK b \in InBuffer(arrived.b), from \in arrived.to :
             /\ heard' = heard \/ (~Filtered(from) /\ heard' = heard \cup {Taken(Out(from, b))})
             /\ down' \in {"stopped", "read"}
    BY <1>5, <1>n DEF DownRelays
  <2>4. b = arrived.b
    BY <1>h, <2>1, <2>2 DEF DownHolds, InBuffer
  <2>5. ASSUME OneFamily, ~Filtered(from) PROVE Genuine(Taken(Out(from, b)), answered)
    <3>1. PICK a \in Address, q \in Payload : Answer(a, q)
      BY <1>h, <2>1, <2>2, <2>5 DEF DownHolds
    <3>2. Taken(Out(from, b)) = <<IF Socks THEN a ELSE ResolveUDPAddr(remote), Data(q)>>
      BY <1>f, <2>2, <2>4, <2>5, <3>1, AnswerTaken DEF Answer
    <3>3. mode \notin {"direct"} => Taken(Out(from, b)) = <<a, Data(q)>>
      BY <1>f, <3>1, <3>2 DEF Answer, Fixed, Socks
    <3>4. Taken(Out(from, b))[2] = Data(q)
      <4> DEFINE x == IF Socks THEN a ELSE ResolveUDPAddr(remote)
      <4> HIDE DEF x
      <4>1. <<x, Data(q)>>[2] = Data(q)
        OBVIOUS
      <4> QED
        BY <3>2, <4>1 DEF x
    <3> QED
      BY <3>1, <3>3, <3>4 DEF Answer, Genuine
  <2>6. OneFamily => \A h \in heard' : Genuine(h, answered)
    BY <1>h, <2>2, <2>5
  <2>7. UpHolds'
    BY <1>h, <1>x, <2>1 DEF UpHolds
  <2>8. DownHolds'
    BY <2>2 DEF DownHolds
  <2> QED
    BY <1>h, <2>1, <2>6, <2>7, <2>8
<1>6. ASSUME UNCHANGED <<buf, sending, arrived, data>>,
             up' # "send" \/ up' = up, down' # "decrypt" \/ down' = down
      PROVE  Goal
  <2>1. UNCHANGED <<buf, sending, arrived, asked, reached, answered, heard>>
    BY <1>6 DEF data
  <2>2. UpHolds'
    BY <1>6, <1>h, <1>x, <2>1 DEF UpHolds
  <2>3. DownHolds'
    BY <1>6, <1>h, <1>x, <2>1 DEF DownHolds, Answer
  <2> QED
    BY <1>h, <2>1, <2>2, <2>3
<1> HIDE DEF Goal
<1>7. CASE UpFails \/ DownLearns \/ DownPanics \/ DownFails \/ MainReceives \/ MainCloses \/ UNCHANGED vars
  BY <1>6, <1>7 DEF UpFails, DownLearns, DownPanics, DownFails, MainReceives, MainCloses, vars, bufs, data
<1> QED
  BY <1>1, <1>2, <1>3, <1>4, <1>5, <1>7 DEF Next

\* What reaches a remote is a request of the client's, with its target and its data, in
\* every mode and under every cipher, unless two uses of the shared buffer overlapped.
THEOREM RequestsArriveIntact == Spec => []RequestsIntact
<1>1. RInv => RequestsIntact
  BY DEF RInv, RequestsIntact
<1> QED
  BY <1>1, InitRInv, NextRInv, PTL DEF Spec

\* What the client takes for an answer is one, of the address it takes for the sender,
\* whoever else sends to the outbound socket; only the data is an answer's where the
\* relay is a direct tunnel, which does not filter.
THEOREM AnswersArriveIntact == Spec => []AnswersIntact
<1>1. RInv => AnswersIntact
  BY DEF RInv, AnswersIntact, OneFamily, Genuine
<1> QED
  BY <1>1, InitRInv, NextRInv, PTL DEF Spec
=============================================================================
