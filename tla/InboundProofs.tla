---------------------------- MODULE InboundProofs ----------------------------
(***************************************************************************)
(* One inbound connection, relayed or intercepted, for streams of any       *)
(* length and addons of any kind: what is left of it when its handler has   *)
(* returned, and what its two directions have carried.                      *)
(***************************************************************************)
EXTENDS Inbound, ListsProofs

\* Zenon proves the leaves, unless they name another backend.
USE ZenonT(30)

TypeOK ==
    /\ racer \in [Racer -> {"idle", "dialing", "send", "done"}]
    /\ result \in [Racer -> {"none", "open", "error", "closed"}]
    /\ winner \in Racer \cup {NoWinner}
    /\ copier \in [Dir -> {"read", "write", "write other", "eof", "failed"}]
    /\ sent \in [Dir -> Nat] /\ read \in [Dir -> Nat] /\ written \in [Dir -> Nat]
    /\ lost \in Nat

Early == {"peek", "greeting", "auth", "request", "head", "address", "tun", "select", "associate", "packets"}
Gone == {"returned", "closed"}

\* Where the handler, the relay and the interception can be together.
AtMitm == {"addons", "request", "round trip", "answer", "write", "upgrade", "ws dial"}
Path ==
    /\ stage \in Early \cup Gone \cup {"relay"}
    /\ stage \in Early => main = "idle"
    /\ stage \in Gone => main \in {"idle", "returned", "error"}
    /\ \/ main \in {"idle", "peek"} /\ next = "none"
       \/ main = "dial" /\ next \in {"copy", "header", "addons", "tls up", "request"}
       \/ main = "header" /\ next = "header"
       \/ main \in {"copy", "close src", "close dst"} /\ next = "copy"
       \/ main \in {"tls up", "tls down"} /\ next = "tls up"
       \/ main \in AtMitm /\ next \in {"addons", "tls up", "request"}
       \/ main = "ws" /\ next = "ws"
       \/ main = "mitm close" /\ next \in {"addons", "tls up", "request", "ws"}
       \/ main = "returned" /\ next \in {"copy", "addons", "tls up", "request", "ws"}
       \/ main = "error" /\ (winner = NoWinner \/ next \in {"copy", "tls up"}) /\ next # "ws"

\* The connection that was dialled.
Outbound ==
    /\ main \in {"idle", "peek", "dial"} => winner = NoWinner
    /\ main \notin {"idle", "peek", "dial", "error"} => winner \in Racer
    /\ winner \in Racer => racer[winner] = "done" /\ result[winner] \in {"open", "closed"}
    /\ main = "returned" => result[winner] = "closed"

Tracked ==
    /\ tracked => \/ stage = "packets"
                  \/ main \in {"dial", "header", "copy", "close src", "error"} /\ next \in {"copy", "header"}
    /\ TrackerGone

Stray ==
    /\ rbuf = "other" => stage \in Gone
    /\ copier["up"] = "write other" => winner \in Racer /\ result[winner] = "closed"

\* What a direction has read it has written, but for a chunk in hand.
Skipped(d) == IF d = "up" THEN lost ELSE 0
Carried ==
    /\ main = "idle" => written["up"] = 0
    /\ \A d \in Dir :
          /\ next \notin {"copy", "ws"} => copier[d] = "read"
          /\ next = "ws" => copier[d] # "eof"
          /\ next # "ws" =>
                /\ copier[d] \in {"read", "write other"} => read[d] = written[d] + Skipped(d)
                /\ copier[d] = "write" => read[d] = written[d] + Skipped(d) + 1
          /\ copier[d] = "eof" => written[d] + Skipped(d) = sent[d] /\ Peer(d) \in eof

IInv == TypeOK /\ Path /\ Outbound /\ Tracked /\ Stray /\ Carried

LEMMA Racers == NoWinner \notin Racer /\ Racer # {}
  BY DEF NoWinner, Racer

LEMMA InitIInv == Init => IInv
<1> SUFFICES ASSUME Init PROVE IInv
  OBVIOUS
<1>1. TypeOK
  BY DEF Init, RelayInit, TypeOK
<1>2. First(conf.kind) \in Early
  <2>1. conf \in Confs
    BY DEF Init
  <2>2. conf \in [kind : ServerKind, auth : BOOLEAN, mitm : BOOLEAN]
    BY <2>1, InboundAssumption
  <2>3. conf.kind \in {"mixed", "socks", "http", "tun", "server"}
    BY <2>2 DEF ServerKind
  <2> QED
    BY <2>3 DEF First, Early
<1>3. Path /\ Outbound
  <2>1. stage \in Early /\ main = "idle" /\ next = "none" /\ winner = NoWinner
    BY <1>2 DEF Init, RelayInit
  <2> QED
    BY <2>1, Racers DEF Path, Outbound, Early, Gone
<1>4. Tracked /\ Stray /\ Carried
  BY SMT DEF Init, RelayInit, Tracked, TrackerGone, Stray, Carried, Dir, Skipped
<1> QED
  BY <1>1, <1>3, <1>4 DEF IInv

\* The handler's own steps, before it calls the relay and after that has returned.
LEMMA HandlerKeeps ==
    ASSUME IInv, UNCHANGED relay, UNCHANGED <<lost>>,
           stage \in Early, stage' \in Early \cup Gone, tracked' => stage' = "packets"
    PROVE  IInv'
<1>1. TypeOK' /\ Outbound' /\ Carried'
  BY DEF IInv, TypeOK, Outbound, Carried, relay, dial, flow, Dst, Skipped
<1>2. Path'
  BY DEF IInv, Path, relay, dial, Early, Gone
<1>3. Tracked' /\ Stray'
  BY DEF IInv, Path, Tracked, TrackerGone, Stray, relay, dial, flow, Early, Gone
<1> QED
  BY <1>1, <1>2, <1>3 DEF IInv

\* Tracked only where nothing else is going on.
LEMMA EarlyTracked == ASSUME IInv, stage \in Early PROVE tracked => stage = "packets"
  BY DEF IInv, Path, Tracked, Early

LEMMA ReadingKeeps ==
    ASSUME IInv, ReadFails \/ Peek \/ Greeting \/ Authenticate \/ Request \/ Associate \/ PacketsEnd
                 \/ Tunnel \/ SelectFails
    PROVE  IInv'
<1>1. stage \in Early /\ stage' \in Early \cup Gone /\ UNCHANGED relay /\ UNCHANGED <<lost>>
  BY DEF ReadFails, Peek, Greeting, Authenticate, Request, Associate, PacketsEnd, Tunnel, SelectFails, Return, Early, Gone
<1>2. tracked' => stage' = "packets"
  BY EarlyTracked, <1>1 DEF ReadFails, Peek, Greeting, Authenticate, Request, Associate, PacketsEnd, Tunnel, SelectFails, Return
<1> QED
  BY <1>1, <1>2, HandlerKeeps

LEMMA readRequestKeeps == ASSUME IInv, readRequest PROVE IInv'
<1>0. PICK n \in 0 .. sent["up"] : lost' = n /\ read' = [read EXCEPT !["up"] = n]
  BY DEF readRequest, ReadAhead
<1>1. /\ stage = "head" /\ stage' \in {"select", "returned"} /\ n \in Nat
      /\ sent' = sent \/ sent' = [sent EXCEPT !["up"] = @ + 1]
      /\ rbuf' \in {rbuf, "request"}
      /\ UNCHANGED <<proto, tracked, main, next, racer, result, winner, src, copier, errs, written, eof>>
  <2>0. sent["up"] \in Nat
    BY DEF IInv, TypeOK, Dir
  <2>1. n \in Nat
    BY <1>0, <2>0, SMT
  <2> QED
    BY <2>1 DEF readRequest, Return, dial
<1>2. ~tracked /\ main = "idle" /\ written["up"] = 0 /\ next = "none"
  BY <1>1 DEF IInv, Path, AtMitm, Tracked, Carried, Early
<1>3. TypeOK'
  <2>1. read' \in [Dir -> Nat] /\ lost' \in Nat
    BY <1>0, <1>1 DEF IInv, TypeOK
  <2>2. sent' \in [Dir -> Nat]
    <3>1. sent \in [Dir -> Nat] /\ "up" \in Dir
      BY DEF IInv, TypeOK, Dir
    <3>2. sent' = sent \/ sent' = [sent EXCEPT !["up"] = sent["up"] + 1]
      BY <1>1
    <3> QED
      BY <3>1, <3>2, SMT
  <2> QED
    BY <1>1, <2>1, <2>2 DEF IInv, TypeOK
<1>4. Path' /\ Outbound'
  BY <1>1, <1>2 DEF IInv, Path, Outbound, Early, Gone
<1>5. Tracked' /\ Stray'
  BY <1>1, <1>2 DEF IInv, Tracked, TrackerGone, Stray, Gone
<1>6. Carried'
  <2>1. read'["up"] = lost' /\ read'["down"] = read["down"]
    BY <1>0 DEF IInv, TypeOK, Dir
  <2>2. copier["up"] = "read" /\ copier["down"] = "read"
    BY <1>2 DEF IInv, Carried, Dir
  <2>3. read["down"] = written["down"] + 0 /\ lost' \in Nat
    BY <1>0, <1>1, <1>2, <2>2 DEF IInv, Carried, Dir, Skipped
  <2>4. main' = "idle" /\ next' = "none" /\ copier' = copier /\ written' = written
    BY <1>1, <1>2
  <2>5. read'["up"] = written'["up"] + lost' /\ read'["down"] = written'["down"] + 0
    BY <1>2, <2>1, <2>3, <2>4, SMT
  <2> QED
    BY <1>2, <2>2, <2>4, <2>5 DEF Carried, Dir, Skipped
<1> QED
  BY <1>3, <1>4, <1>5, <1>6 DEF IInv

\* The dial begins.
LEMMA StartKeeps ==
    ASSUME IInv, stage \notin Gone, stage' = "relay", UNCHANGED <<flow, lost>>,
           NEW then \in {"copy", "header", "addons", "tls up", "request"}, StartDial(then),
           main \in {"idle", "peek"}, tracked' => then \in {"copy", "header"}
    PROVE  IInv'
<1>0. /\ main' = "dial" /\ next' = then /\ racer' = [f \in Racer |-> "dialing"] /\ winner = NoWinner /\ next = "none"
      /\ UNCHANGED <<result, winner, copier, sent, read, written, eof, rbuf>>
  BY DEF StartDial, IInv, Outbound, Path, AtMitm, flow
<1>1. TypeOK' /\ Path' /\ Outbound'
  BY <1>0, Racers DEF IInv, TypeOK, Path, Outbound, Early, Gone
<1>2. Tracked'
  BY <1>0 DEF IInv, Tracked, TrackerGone
<1>3. Stray'
  <2>1. copier["up"] = "read"
    BY <1>0 DEF IInv, Carried, Dir
  <2>2. rbuf # "other"
    BY DEF IInv, Stray
  <2> QED
    BY <1>0, <2>1, <2>2 DEF IInv, Stray, Path, Gone
<1>4. Carried'
  BY <1>0 DEF IInv, Carried, Dir, Skipped
<1> QED
  BY <1>1, <1>2, <1>3, <1>4 DEF IInv

LEMMA CallKeeps == ASSUME IInv, Select \/ Intercept \/ Address PROVE IInv'
<1>0. stage \in Early /\ stage' = "relay" /\ UNCHANGED <<flow, lost, proto>>
  BY DEF Select, Intercept, Address, Early
<1>1. stage \notin Gone /\ main = "idle" /\ (tracked => stage = "packets")
  BY <1>0, EarlyTracked DEF IInv, Path, Early, Gone
<1>2. CASE Select
  <2>1. PICK then \in {"copy", "header"} : StartDial(then)
    BY <1>2 DEF Select
  <2> QED
    BY <1>0, <1>1, <2>1, StartKeeps
<1>3. CASE Address
  <2>1. StartDial("copy")
    BY <1>3 DEF Address
  <2> QED
    BY <1>0, <1>1, <2>1, StartKeeps
<1>4. CASE Intercept
  <2>0. ~tracked'
    BY <1>1, <1>4 DEF Intercept
  <2>1. CASE told # "success"
    <3>1. StartDial("addons")
      BY <1>4, <2>1 DEF Intercept, HandleMITM
    <3> QED
      BY <1>0, <1>1, <2>0, <3>1, StartKeeps
  <2>2. CASE told = "success"
    <3>1. main' = "peek" /\ UNCHANGED <<next, dial, copier, flow, lost>>
      BY <1>0, <1>4, <2>2 DEF Intercept, HandleMITM
    <3>2. TypeOK' /\ Outbound'
      BY <1>1, <3>1 DEF IInv, TypeOK, Outbound, dial, flow
    <3>3. Path'
      BY <1>0, <1>1, <3>1 DEF IInv, Path, AtMitm, Early, Gone
    <3>4. Tracked' /\ Stray'
      BY <1>0, <1>1, <2>0, <3>1 DEF IInv, Tracked, TrackerGone, Stray, Gone, dial, flow
    <3>5. Carried'
      BY <1>1, <3>1 DEF IInv, Carried, Skipped, flow
    <3> QED
      BY <3>2, <3>3, <3>4, <3>5 DEF IInv
  <2> QED
    BY <2>1, <2>2
<1> QED
  BY <1>2, <1>3, <1>4

LEMMA ReturnKeeps == ASSUME IInv, HandlerReturns \/ ServeCloses \/ BufferReused PROVE IInv'
<1>1. /\ UNCHANGED <<main, next, racer, result, winner, copier, sent, read, written, eof, lost, proto>>
      /\ stage' \in Gone /\ main \in {"idle", "returned", "error"}
      /\ stage \in Gone \cup {"relay"}
  BY DEF HandlerReturns, ServeCloses, BufferReused, Return, IInv, Path, Gone, handler, dial, flow
<1>2. TypeOK' /\ Outbound'
  BY <1>1 DEF IInv, TypeOK, Outbound
<1>3. Path'
  BY <1>1 DEF IInv, Path, AtMitm, Early, Gone
<1>4. Carried'
  BY <1>1 DEF IInv, Carried, Skipped
<1>5. Stray'
  BY <1>1 DEF IInv, Stray
<1>6. tracked' => tracked /\ (stage = "relay" => proto = "http")
  BY DEF HandlerReturns, ServeCloses, BufferReused, Remaining, handler, Return, Gone, IInv, Path
<1>7. tracked' => main = "error" /\ proto = "http" /\ next \in {"copy", "header"}
  BY <1>1, <1>6 DEF IInv, Tracked, TrackerGone, Gone
<1>8. Tracked'
  BY <1>1, <1>7 DEF Tracked, TrackerGone
<1> QED
  BY <1>2, <1>3, <1>4, <1>5, <1>8 DEF IInv

LEMMA ClosesKeeps == ASSUME IInv, Closes PROVE IInv'
<1>0. /\ UNCHANGED <<next, racer, winner, copier, sent, read, written, eof, rbuf, lost, proto, stage>>
      /\ \/ main = "close src" /\ main' = "close dst" /\ result' = result
         \/ main = "close dst" /\ main' = "returned" /\ result' = [result EXCEPT ![winner] = "closed"]
      /\ tracked' => tracked /\ main # "close src"
  BY DEF Closes, RelayCloses, dial, flow
<1>1. next = "copy" /\ winner \in Racer /\ stage = "relay"
  BY <1>0 DEF IInv, Path, AtMitm, Outbound, Early, Gone
<1>2. result'[winner] \in {"open", "closed"} /\ (main' = "returned" => result'[winner] = "closed")
  BY <1>0, <1>1 DEF IInv, TypeOK, Outbound
<1>3. TypeOK' /\ Outbound'
  BY <1>0, <1>1, <1>2 DEF IInv, TypeOK, Outbound
<1>4. Path'
  BY <1>0, <1>1 DEF IInv, Path, Early, Gone
<1>5. Tracked'
  BY <1>0, <1>1 DEF IInv, Tracked, TrackerGone
<1>6. Stray'
  BY <1>0, <1>1, <1>2 DEF IInv, TypeOK, Stray
<1>7. Carried'
  BY <1>0 DEF IInv, Carried, Skipped
<1> QED
  BY <1>3, <1>4, <1>5, <1>6, <1>7 DEF IInv

LEMMA DialingKeeps == ASSUME IInv, NEW f \in Racer, Dialing(f), UNCHANGED <<handler, addons>> PROVE IInv'
<1>0. UNCHANGED <<next, copier, sent, read, written, eof, rbuf, lost, proto, stage, tracked>>
  BY DEF Dialing, RacerDials, DialReceives, RacerLate, handler, flow
<1>1. CASE RacerDials(f) \/ RacerLate(f)
  <2>1. /\ racer[f] # "done" /\ main' = main /\ winner' = winner
        /\ \E r \in {"send", "done"} : racer' = [racer EXCEPT ![f] = r]
        /\ \E r \in {"none", "open", "error", "closed"} : result' = [result EXCEPT ![f] = r]
    BY <1>1 DEF RacerDials, RacerLate, IInv, TypeOK
  <2>2. winner \in Racer => winner # f /\ racer'[winner] = racer[winner] /\ result'[winner] = result[winner]
    BY <2>1 DEF IInv, TypeOK, Outbound
  <2>3. TypeOK'
    <3>1. racer' \in [Racer -> {"idle", "dialing", "send", "done"}]
      BY <2>1 DEF IInv, TypeOK
    <3>2. result' \in [Racer -> {"none", "open", "error", "closed"}]
      BY <2>1 DEF IInv, TypeOK
    <3> QED
      BY <1>0, <2>1, <3>1, <3>2 DEF IInv, TypeOK
  <2>4. Outbound'
    BY <2>1, <2>2 DEF IInv, Outbound
  <2>5. Path' /\ Tracked'
    BY <1>0, <2>1 DEF IInv, Path, Tracked, TrackerGone
  <2>6. Stray' /\ Carried'
    BY <1>0, <2>1, <2>2 DEF IInv, Stray, Carried, Skipped
  <2> QED
    BY <2>3, <2>4, <2>5, <2>6 DEF IInv
<1>2. CASE DialReceives(f)
  <2>1. /\ main = "dial" /\ racer' = [racer EXCEPT ![f] = "done"] /\ result' = result
        /\ \/ result[f] = "open" /\ winner' = f /\ main' = next
           \/ winner' = winner /\ main' \in {"dial", "error"}
    BY <1>2 DEF DialReceives
  <2>2. winner = NoWinner /\ next \in {"copy", "header", "addons", "tls up", "request"} /\ stage = "relay"
    BY <2>1 DEF IInv, Path, AtMitm, Outbound, Early, Gone
  <2>3. TypeOK'
    BY <1>0, <2>1 DEF IInv, TypeOK
  <2>4. Outbound'
    BY <1>0, <2>1, <2>2, Racers DEF IInv, TypeOK, Outbound
  <2>5. Path'
    BY <1>0, <2>1, <2>2 DEF Path, AtMitm, Early, Gone
  <2>6. Tracked'
    BY <1>0, <2>1, <2>2 DEF IInv, Tracked, TrackerGone
  <2>7. copier["up"] # "write other"
    BY <2>2, Racers DEF IInv, Stray
  <2>8. Stray'
    BY <1>0, <2>2, <2>7 DEF IInv, Stray
  <2>9. Carried'
    BY <1>0, <2>1, <2>2 DEF IInv, Carried, Skipped
  <2> QED
    BY <2>3, <2>4, <2>5, <2>6, <2>8, <2>9 DEF IInv
<1> QED
  BY <1>1, <1>2 DEF Dialing

\* The two goroutines that copy.
LEMMA FinishKeeps ==
    ASSUME IInv, NEW d \in Dir, NEW how \in {"eof", "failed"}, Finish(d, how), UNCHANGED <<handler, addons>>,
           next \in {"copy", "ws"},
           how = "eof" => next = "copy" /\ copier[d] = "read" /\ read[d] = sent[d] /\ Peer(d) \in eof
    PROVE  IInv'
<1>0. /\ UNCHANGED <<main, next, racer, result, winner, sent, read, written, eof, rbuf, lost, proto, stage, tracked>>
      /\ copier' = [copier EXCEPT ![d] = how]
  BY DEF Finish, handler, dial, flow
<1>1. TypeOK' /\ Outbound' /\ Path' /\ Tracked'
  BY <1>0 DEF IInv, TypeOK, Outbound, Path, Tracked, TrackerGone
<1>2. copier'["up"] = "write other" => copier["up"] = "write other"
  BY <1>0 DEF IInv, TypeOK, Dir
<1>3. Stray'
  BY <1>0, <1>2 DEF IInv, Stray
<1>4. how = "eof" => written[d] + Skipped(d) = sent[d]
  BY DEF IInv, Carried
<1>5. \A e \in Dir : copier'[e] = IF e = d THEN how ELSE copier[e]
  BY <1>0 DEF IInv, TypeOK
<1>6. \A e \in Dir : Skipped(e)' = Skipped(e)
  BY <1>0 DEF Skipped
<1>7. Carried'
  BY <1>0, <1>4, <1>5, <1>6 DEF IInv, Carried
<1> QED
  BY <1>1, <1>3, <1>7 DEF IInv

LEMMA CopyReadsKeeps ==
    ASSUME IInv, NEW d \in Dir, CopyReads(d) \/ CopyWrites(d), UNCHANGED <<handler, addons>>
    PROVE  IInv'
<1>0. /\ UNCHANGED <<main, next, racer, result, winner, sent, eof, rbuf, lost, proto, stage, tracked>>
      /\ next = "copy"
  BY DEF CopyReads, CopyWrites, Started, handler, dial
<1>1. \/ /\ copier[d] = "read" /\ read' = [read EXCEPT ![d] = read[d] + 1]
         /\ copier' = [copier EXCEPT ![d] = "write"] /\ written' = written
      \/ /\ copier[d] = "write" /\ written' = [written EXCEPT ![d] = written[d] + 1]
         /\ copier' = [copier EXCEPT ![d] = "read"] /\ read' = read
  BY DEF CopyReads, CopyWrites
<1>2. TypeOK'
  <2>1. read' \in [Dir -> Nat] /\ written' \in [Dir -> Nat]
    <3>1. read \in [Dir -> Nat] /\ written \in [Dir -> Nat]
      BY DEF IInv, TypeOK
    <3>2. read' = read \/ read' = [read EXCEPT ![d] = read[d] + 1]
      BY <1>1
    <3>3. written' = written \/ written' = [written EXCEPT ![d] = written[d] + 1]
      BY <1>1
    <3>4. read' \in [Dir -> Nat]
      BY <3>1, <3>2, SMT
    <3>5. written' \in [Dir -> Nat]
      BY <3>1, <3>3, SMT
    <3> QED
      BY <3>4, <3>5
  <2>2. copier' \in [Dir -> {"read", "write", "write other", "eof", "failed"}]
    BY <1>1 DEF IInv, TypeOK
  <2> QED
    BY <1>0, <2>1, <2>2 DEF IInv, TypeOK
<1>3. Outbound' /\ Path' /\ Tracked'
  BY <1>0 DEF IInv, Outbound, Path, Tracked, TrackerGone
<1>4. copier'["up"] = "write other" => copier["up"] = "write other"
  BY <1>1 DEF IInv, TypeOK, Dir
<1>5. Stray'
  BY <1>0, <1>4 DEF IInv, Stray
<1>6. ASSUME NEW e \in Dir
      PROVE  /\ copier'[e] \in {"read", "write other"} => read'[e] = written'[e] + Skipped(e)
             /\ copier'[e] = "write" => read'[e] = written'[e] + Skipped(e) + 1
             /\ copier'[e] = "eof" => copier[e] = "eof" /\ written'[e] = written[e]
  <2>1. Skipped(e) \in Nat /\ read[e] \in Nat /\ written[e] \in Nat
    BY DEF IInv, TypeOK, Skipped
  <2>2. /\ copier[e] \in {"read", "write other"} => read[e] = written[e] + Skipped(e)
        /\ copier[e] = "write" => read[e] = written[e] + Skipped(e) + 1
    BY <1>0 DEF IInv, Carried
  <2>3. CASE e = d
    <3>1. \/ copier[e] = "read" /\ read'[e] = read[e] + 1 /\ copier'[e] = "write" /\ written'[e] = written[e]
          \/ copier[e] = "write" /\ written'[e] = written[e] + 1 /\ copier'[e] = "read" /\ read'[e] = read[e]
      BY <1>1, <2>3 DEF IInv, TypeOK
    <3>2. CASE copier[e] = "read"
      BY <2>1, <2>2, <3>1, <3>2
    <3>3. CASE copier[e] = "write"
      <4>1. read[e] = (written[e] + 1) + Skipped(e)
        BY <2>1, <2>2, <3>3, SMT
      <4> QED
        BY <3>1, <3>3, <4>1
    <3> QED
      BY <3>1, <3>2, <3>3
  <2>4. CASE e # d
    <3>1. copier'[e] = copier[e] /\ read'[e] = read[e] /\ written'[e] = written[e]
      BY <1>1, <2>4 DEF IInv, TypeOK
    <3> QED
      BY <2>2, <3>1
  <2> QED
    BY <2>3, <2>4
<1>7. main # "idle" /\ \A e \in Dir : Skipped(e)' = Skipped(e)
  BY <1>0 DEF IInv, Path, AtMitm, Skipped
<1>8. Carried'
  BY <1>0, <1>6, <1>7 DEF IInv, Carried
<1> QED
  BY <1>2, <1>3, <1>5, <1>8 DEF IInv

LEMMA BufferKeeps == ASSUME IInv, CopyReadsBuffer, UNCHANGED <<handler, addons>> PROVE IInv'
<1>0. /\ UNCHANGED <<main, next, racer, result, winner, sent, written, eof, lost, proto, stage, tracked>>
      /\ next = "copy" /\ main \notin {"dial", "error"} /\ copier["up"] = "read" /\ rbuf' # "other"
  BY DEF CopyReadsBuffer, Started, handler, dial
<1>1. \/ read' = [read EXCEPT !["up"] = read["up"] + 1] /\ copier' = [copier EXCEPT !["up"] = "write"]
      \/ rbuf = "other" /\ copier' = [copier EXCEPT !["up"] = "write other"] /\ read' = read
      \/ UNCHANGED <<read, copier>>
  BY DEF CopyReadsBuffer
<1>2. TypeOK'
  <2>1. read' \in [Dir -> Nat]
    <3>1. read \in [Dir -> Nat] /\ "up" \in Dir
      BY DEF IInv, TypeOK, Dir
    <3>2. read' = read \/ read' = [read EXCEPT !["up"] = read["up"] + 1]
      BY <1>1
    <3> QED
      BY <3>1, <3>2, SMT
  <2>2. copier' \in [Dir -> {"read", "write", "write other", "eof", "failed"}]
    BY <1>1 DEF IInv, TypeOK, Dir
  <2> QED
    BY <1>0, <2>1, <2>2 DEF IInv, TypeOK
<1>3. Outbound' /\ Path' /\ Tracked'
  BY <1>0 DEF IInv, Outbound, Path, Tracked, TrackerGone
<1>4. copier'["up"] = "write other" => rbuf = "other"
  BY <1>0, <1>1 DEF IInv, TypeOK, Dir
<1>5. rbuf = "other" => main = "returned"
  BY <1>0 DEF IInv, Stray, Path, AtMitm
<1>6. Stray'
  BY <1>0, <1>4, <1>5 DEF IInv, Stray, Outbound
<1>7. /\ copier'["down"] = copier["down"] /\ read'["down"] = read["down"]
      /\ copier'["up"] = "write" => read'["up"] = read["up"] + 1
      /\ copier'["up"] \in {"read", "write other"} => read'["up"] = read["up"]
      /\ copier'["up"] \in {"read", "write", "write other"}
  BY <1>0, <1>1 DEF IInv, TypeOK, Dir
<1>8. read["up"] = written["up"] + Skipped("up")
  BY <1>0 DEF IInv, Carried, Dir
<1>9. main # "idle" /\ \A e \in Dir : Skipped(e)' = Skipped(e)
  BY <1>0 DEF IInv, Path, AtMitm, Skipped
<1>10. /\ copier'["up"] \in {"read", "write other"} => read'["up"] = written'["up"] + Skipped("up")'
       /\ copier'["up"] = "write" => read'["up"] = written'["up"] + Skipped("up")' + 1
  BY <1>0, <1>7, <1>8, <1>9 DEF Dir
<1>11. /\ next' = "copy" /\ main' # "idle" /\ copier'["up"] # "eof" /\ copier'["down"] = copier["down"]
       /\ read'["down"] = read["down"] /\ written' = written /\ sent' = sent /\ eof' = eof
       /\ Skipped("down")' = Skipped("down")
  BY <1>0, <1>7, <1>9 DEF Dir
<1>12. /\ copier["down"] \in {"read", "write other"} => read["down"] = written["down"] + Skipped("down")
       /\ copier["down"] = "write" => read["down"] = written["down"] + Skipped("down") + 1
       /\ copier["down"] = "eof" => written["down"] + Skipped("down") = sent["down"] /\ Peer("down") \in eof
  BY <1>0 DEF IInv, Carried, Dir
<1>13. Carried'
  <2> SUFFICES ASSUME NEW e \in Dir
               PROVE  /\ copier'[e] \in {"read", "write other"} => read'[e] = written'[e] + Skipped(e)'
                      /\ copier'[e] = "write" => read'[e] = written'[e] + Skipped(e)' + 1
                      /\ copier'[e] = "eof" => written'[e] + Skipped(e)' = sent'[e] /\ Peer(e) \in eof'
    BY <1>11 DEF Carried
  <2>1. CASE e = "up"
    BY <2>1, <1>10, <1>11
  <2>2. CASE e = "down"
    BY <2>2, <1>11, <1>12
  <2> QED
    BY <2>1, <2>2 DEF Dir
<1> QED
  BY <1>2, <1>3, <1>6, <1>13 DEF IInv

LEMMA CopyingKeeps ==
    ASSUME IInv, NEW d \in Dir, Copying(d) \/ CopyBreaks(d), UNCHANGED <<handler, addons>>
    PROVE  IInv'
<1>1. CASE CopyEnds(d)
  <2>1. next = "copy" /\ (Finish(d, "failed") \/ (Finish(d, "eof") /\ copier[d] = "read" /\ read[d] = sent[d] /\ Peer(d) \in eof))
    BY <1>1 DEF CopyEnds, Started
  <2> QED
    BY <2>1, FinishKeeps
<1>2. CASE CopyBreaks(d)
  <2>1. next = "copy" /\ Finish(d, "failed")
    BY <1>2 DEF CopyBreaks, Started
  <2> QED
    BY <2>1, FinishKeeps
<1> QED
  BY <1>1, <1>2, CopyReadsKeeps, BufferKeeps DEF Copying

\* The relay's own steps, and the peers.
LEMMA RelayingKeeps == ASSUME IInv, Relaying, UNCHANGED <<handler, addons>> PROVE IInv'
<1>0. /\ UNCHANGED <<racer, result, winner, copier, sent, read, written, eof, rbuf, lost, proto, stage, tracked>>
      /\ \/ main = "header" /\ main' \in {"copy", "error"} /\ next' = "copy"
         \/ main = "copy" /\ main' = "close src" /\ next' = next
  BY DEF Relaying, SendAddress, RelayReceives, handler, dial, flow
<1>1. stage = "relay" /\ winner \in Racer /\ next \in {"header", "copy"} /\ (main = "copy" => next = "copy")
  BY <1>0 DEF IInv, Path, AtMitm, Outbound, Early, Gone
<1>2. TypeOK' /\ Outbound'
  BY <1>0, <1>1 DEF IInv, TypeOK, Outbound
<1>3. Path'
  BY <1>0, <1>1 DEF Path, Early, Gone
<1>4. Tracked' /\ Stray'
  BY <1>0, <1>1 DEF IInv, Tracked, TrackerGone, Stray
<1>5. next = "header" => \A d \in Dir : copier[d] = "read"
  BY DEF IInv, Carried
<1>6. Carried'
  BY <1>0, <1>1, <1>5 DEF IInv, Carried, Skipped
<1> QED
  BY <1>2, <1>3, <1>4, <1>6 DEF IInv

LEMMA PeersKeep ==
    ASSUME IInv, NEW d \in Dir, PeerSends(d) \/ PeerFinishes(d), UNCHANGED <<handler, addons>>
    PROVE  IInv'
<1>0. /\ UNCHANGED <<main, next, racer, result, winner, copier, read, written, rbuf, lost, proto, stage, tracked>>
      /\ Peer(d) \notin eof /\ eof \subseteq eof'
      /\ sent' = sent \/ sent' = [sent EXCEPT ![d] = sent[d] + 1]
  BY DEF PeerSends, PeerFinishes, handler, dial
<1>1. TypeOK'
  <2>1. sent \in [Dir -> Nat]
    BY DEF IInv, TypeOK
  <2>2. sent' = sent \/ sent' = [sent EXCEPT ![d] = sent[d] + 1]
    BY <1>0
  <2>3. sent' \in [Dir -> Nat]
    BY <2>1, <2>2, SMT
  <2> QED
    BY <1>0, <2>3 DEF IInv, TypeOK
<1>2. Outbound' /\ Path' /\ Tracked' /\ Stray'
  BY <1>0 DEF IInv, Outbound, Path, Tracked, TrackerGone, Stray
<1>3. \A e \in Dir : copier[e] = "eof" => sent'[e] = sent[e] /\ Peer(e) \in eof'
  BY <1>0 DEF IInv, TypeOK, Carried
<1>4. Carried'
  BY <1>0, <1>3 DEF IInv, Carried, Skipped
<1> QED
  BY <1>1, <1>2, <1>4 DEF IInv

\* The interception: the steps of its handler, its closing, and its two goroutines.
LEMMA MitmKeeps ==
    ASSUME IInv, FromClient \/ FromServer \/ RequestAddons \/ ResponseAddons \/ WriteResponse \/ Upgrade
                 \/ WsReceives,
           UNCHANGED handler
    PROVE  IInv'
<1>0. UNCHANGED <<lost, proto, stage, tracked>>
  BY DEF handler
<1>1. CASE Peeks
  <2>1. CASE main' = "error" /\ main = "peek" /\ UNCHANGED <<next, dial, copier, flow>>
    <3>1. next = "none" /\ winner = NoWinner /\ ~tracked /\ stage = "relay"
      BY <2>1 DEF IInv, Path, AtMitm, Outbound, Tracked, Early, Gone
    <3>2. TypeOK' /\ Outbound' /\ Stray' /\ Carried'
      BY <1>0, <2>1, <3>1, Racers DEF IInv, TypeOK, Outbound, Stray, Carried, Skipped, dial, flow
    <3>3. Path' /\ Tracked'
      BY <1>0, <2>1, <3>1 DEF Path, Tracked, TrackerGone, Early, Gone, dial
    <3> QED
      BY <3>2, <3>3 DEF IInv
  <2>2. CASE main = "peek" /\ (StartDial("tls up") \/ StartDial("request")) /\ UNCHANGED flow
    <3>1. stage = "relay" /\ ~tracked
      BY <2>2 DEF IInv, Path, Tracked, Early, Gone
    <3> QED
      BY <1>0, <2>2, <3>1, StartKeeps DEF Gone
  <2> QED
    BY <1>1, <2>1, <2>2 DEF Peeks, Goto
<1>2. CASE ~Peeks
  <2>1. /\ UNCHANGED <<racer, result, winner, copier, sent, read, written, eof, rbuf>>
        /\ \/ /\ main \in {"tls up", "tls down"}
              /\ main' \in {"tls down", "request", "error"} /\ next' = next
           \/ main \in AtMitm /\ main' \in AtMitm \cup {"mitm close"} /\ next' = next
           \/ main = "ws dial" /\ main' = "ws" /\ next' = "ws"
           \/ main = "ws" /\ main' = "mitm close" /\ next' = next
    BY <1>2 DEF FromClient, FromServer, ClientHandshake, readHTTPRequestForConnect, getServerResponseCert,
                RoundTrip, WsDial, RequestAddons, ResponseAddons, RunChain, WriteResponse, Upgrade, WsReceives,
                Goto, AtMitm, dial, flow
  <2>2. /\ stage = "relay" /\ winner \in Racer /\ ~tracked
        /\ main \in {"tls up", "tls down"} => next = "tls up"
        /\ main \in AtMitm => next \in {"addons", "tls up", "request"}
        /\ main = "ws" => next = "ws"
    BY <2>1 DEF IInv, Path, AtMitm, Outbound, Tracked, Early, Gone
  <2>3. TypeOK' /\ Outbound'
    BY <1>0, <2>1, <2>2 DEF IInv, TypeOK, Outbound, AtMitm
  <2>4. Path'
    BY <1>0, <2>1, <2>2 DEF Path, AtMitm, Early, Gone
  <2>5. Tracked' /\ Stray'
    BY <1>0, <2>1, <2>2 DEF IInv, Tracked, TrackerGone, Stray
  <2>6. main # "ws" => \A d \in Dir : copier[d] = "read"
    BY <2>1, <2>2 DEF IInv, Carried, AtMitm
  <2>7. main' # "idle" /\ next' \in {next, "ws"}
    BY <2>1 DEF AtMitm
  <2>8. Carried'
    BY <1>0, <2>1, <2>2, <2>6, <2>7 DEF IInv, Carried, Skipped
  <2> QED
    BY <2>3, <2>4, <2>5, <2>8 DEF IInv
<1> QED
  BY <1>1, <1>2

LEMMA MitmClosesKeeps == ASSUME IInv, MitmCloses, UNCHANGED handler PROVE IInv'
<1>0. /\ UNCHANGED <<next, racer, winner, copier, sent, read, written, eof, rbuf, lost, proto, stage, tracked>>
      /\ main = "mitm close" /\ main' = "returned" /\ result' = [result EXCEPT ![winner] = "closed"]
  BY DEF MitmCloses, handler, flow
<1>1. winner \in Racer /\ stage = "relay" /\ ~tracked /\ next \in {"addons", "tls up", "request", "ws"}
  BY <1>0 DEF IInv, Path, AtMitm, Outbound, Tracked, Early, Gone
<1>2. result'[winner] = "closed"
  BY <1>0, <1>1 DEF IInv, TypeOK
<1>3. TypeOK' /\ Outbound'
  BY <1>0, <1>1, <1>2 DEF IInv, TypeOK, Outbound
<1>4. Path' /\ Tracked'
  BY <1>0, <1>1 DEF Path, Tracked, TrackerGone, Early, Gone
<1>5. Stray' /\ Carried'
  BY <1>0, <1>1, <1>2 DEF IInv, Stray, Carried, Skipped
<1> QED
  BY <1>3, <1>4, <1>5 DEF IInv

LEMMA PumpingKeeps ==
    ASSUME IInv, NEW d \in Dir, Pumping(d) \/ WsBreaks(d), UNCHANGED <<handler, addons>>
    PROVE  IInv'
<1>1. CASE WsEnds(d) \/ WsBreaks(d)
  <2>1. next = "ws" /\ Finish(d, "failed")
    BY <1>1 DEF WsEnds, WsBreaks
  <2> QED
    BY <2>1, FinishKeeps
<1>2. CASE WsReads(d) \/ WsWrites(d)
  <2>0. /\ UNCHANGED <<main, next, racer, result, winner, sent, eof, rbuf, lost, proto, stage, tracked>>
        /\ next = "ws" /\ copier[d] \in {"read", "write"}
        /\ \/ copier' = [copier EXCEPT ![d] = "write"] \/ copier' = [copier EXCEPT ![d] = "read"]
        /\ read' = read \/ read' = [read EXCEPT ![d] = read[d] + 1]
        /\ written' = written \/ written' = [written EXCEPT ![d] = written[d] + 1]
    BY <1>2 DEF WsReads, WsWrites, handler, dial
  <2>1. TypeOK'
    <3>1. read \in [Dir -> Nat] /\ written \in [Dir -> Nat]
      BY DEF IInv, TypeOK
    <3>2. read' = read \/ read' = [read EXCEPT ![d] = read[d] + 1]
      BY <2>0
    <3>3. written' = written \/ written' = [written EXCEPT ![d] = written[d] + 1]
      BY <2>0
    <3>4. read' \in [Dir -> Nat]
      BY <3>1, <3>2, SMT
    <3>5. written' \in [Dir -> Nat]
      BY <3>1, <3>3, SMT
    <3>6. copier' \in [Dir -> {"read", "write", "write other", "eof", "failed"}]
      <4>1. copier \in [Dir -> {"read", "write", "write other", "eof", "failed"}]
        BY DEF IInv, TypeOK
      <4>2. copier' = [copier EXCEPT ![d] = "write"] \/ copier' = [copier EXCEPT ![d] = "read"]
        BY <2>0
      <4> QED
        BY <4>1, <4>2
    <3> QED
      BY <2>0, <3>4, <3>5, <3>6 DEF IInv, TypeOK
  <2>2. Outbound' /\ Path' /\ Tracked'
    BY <2>0 DEF IInv, Outbound, Path, Tracked, TrackerGone
  <2>3. \A e \in Dir : copier'[e] \in {"read", "write", copier[e]}
    BY <2>0 DEF IInv, TypeOK
  <2>4. Stray'
    BY <2>0, <2>3 DEF IInv, Stray, Dir
  <2>5. main # "idle"
    BY <2>0 DEF IInv, Path, AtMitm
  <2>6. Carried'
    BY <2>0, <2>3, <2>5 DEF IInv, Carried
  <2> QED
    BY <2>1, <2>2, <2>4, <2>6 DEF IInv
<1> QED
  BY <1>1, <1>2 DEF Pumping

LEMMA NextIInv == IInv /\ [Next]_vars => IInv'
<1> SUFFICES ASSUME IInv, [Next]_vars PROVE IInv'
  OBVIOUS
<1>1. CASE (Reading \/ Handling \/ PacketsEnd \/ Closes \/ BufferReused) /\ UNCHANGED addons
  BY <1>1, ReadingKeeps, readRequestKeeps, CallKeeps, ReturnKeeps, ClosesKeeps DEF Reading, Handling
<1>2. ASSUME NEW f \in Racer, Dialing(f), UNCHANGED <<handler, addons>> PROVE IInv'
  BY <1>2, DialingKeeps
<1>3. ASSUME NEW d \in Dir, Copying(d) \/ CopyBreaks(d), UNCHANGED <<handler, addons>> PROVE IInv'
  BY <1>3, CopyingKeeps
<1>4. CASE (Relaying \/ Peers) /\ UNCHANGED <<handler, addons>>
  BY <1>4, RelayingKeeps, PeersKeep DEF Peers
<1>5. CASE Intercepting /\ UNCHANGED handler
  BY <1>5, MitmKeeps, MitmClosesKeeps, PumpingKeeps DEF Intercepting, Onward
<1>6. CASE UNCHANGED vars
  <2>1. UNCHANGED <<racer, result, winner, copier, sent, read, written, eof, rbuf, lost, proto, stage, tracked, main, next>>
    BY <1>6 DEF vars, handler, relay, dial, flow
  <2>2. TypeOK'
    BY <2>1 DEF IInv, TypeOK
  <2>3. Path' /\ Outbound' /\ Tracked' /\ Stray'
    BY <2>1 DEF IInv, Path, Outbound, Tracked, TrackerGone, Stray
  <2>4. Carried'
    BY <2>1 DEF IInv, Carried, Skipped
  <2> QED
    BY <2>2, <2>3, <2>4 DEF IInv
<1> QED
  BY <1>1, <1>2, <1>3, <1>4, <1>5, <1>6 DEF Next

\* When its handler has returned, an inbound connection leaves no outbound one open but
\* in the two cases named.
THEOREM NothingOutlivesTheHandler == Spec => []OutboundClosed
<1>1. IInv => OutboundClosed
  BY Racers DEF IInv, Path, AtMitm, Outbound, OutboundClosed, Dst, Gone, NoWinner
<1> QED
  BY <1>1, InitIInv, NextIInv, PTL DEF Spec

\* When its handler has returned, a connection is no longer tracked but for an HTTP
\* request whose relay failed.
THEOREM TrackersAreRemoved == Spec => []TrackerGone
<1>1. IInv => TrackerGone
  BY DEF IInv, Tracked
<1> QED
  BY <1>1, InitIInv, NextIInv, PTL DEF Spec

\* A direction that reached the end of its stream has carried over all of it, whatever
\* its length.
THEOREM StreamsAreComplete == Spec => []EofIsComplete
<1>1. IInv => EofIsComplete
  BY DEF IInv, Carried, Skipped, EofIsComplete
<1> QED
  BY <1>1, InitIInv, NextIInv, PTL DEF Spec

\* A recycled request buffer never reaches the wrong server.
THEOREM NoRequestGoesAstray == Spec => []NoStrayRequest
<1>1. IInv => NoStrayRequest
  BY Racers DEF IInv, Stray, NoStrayRequest, Dst
<1> QED
  BY <1>1, InitIInv, NextIInv, PTL DEF Spec
-----------------------------------------------------------------------------
(***************************************************************************)
(* The chain of addons: an addon that no earlier one cut off has run.      *)
(***************************************************************************)
Cutting == {"abort", "reject"}

\* The recursion of contextT.next has a solution: from index i on, those run that no
\* addon from there on cut off.
LEMMA RanFrom ==
    ASSUME NEW chain \in Seq(Addon), Len(chain) <= AbortIndex + 1
    PROVE  \E from :
              /\ Ran(chain) = from[0]
              /\ \A i \in 0 .. AbortIndex + 1 :
                    from[i] = IF i >= Len(chain) THEN {}
                              ELSE {i + 1} \cup
                                   from[1 + IF chain[i + 1] \in Cutting THEN AbortIndex ELSE i]
<1> DEFINE I == 0 .. AbortIndex + 1
           Eq(f) == f = [i \in I |->
                           IF i >= Len(chain) THEN {}
                           ELSE {i + 1} \cup
                                f[1 + IF chain[i + 1] \in {"abort", "reject"} THEN AbortIndex ELSE i]]
           g == [i \in I |-> {k \in (i + 1) .. Len(chain) :
                                 \A j \in (i + 1) .. (k - 1) : chain[j] \notin Cutting}]
<1>0. AbortIndex \in Nat /\ Len(chain) \in Nat
  BY MitmAssumption, SMT
<1>1. Eq(g)
  <2>1. ASSUME NEW i \in I
        PROVE  g[i] = IF i >= Len(chain) THEN {}
                      ELSE {i + 1} \cup
                           g[1 + IF chain[i + 1] \in {"abort", "reject"} THEN AbortIndex ELSE i]
    <3>1. CASE i >= Len(chain)
      BY <1>0, <3>1, SMT
    <3>2. CASE i < Len(chain) /\ chain[i + 1] \in Cutting
      <4>1. AbortIndex + 1 \in I /\ g[AbortIndex + 1] = {}
        BY <1>0, SMT
      <4>2. g[i] = {i + 1}
        <5>1. ASSUME NEW k \in g[i] PROVE k = i + 1
          <6>1. i + 1 \notin (i + 1) .. (k - 1) /\ k \in (i + 1) .. Len(chain)
            BY <3>2, <5>1
          <6> QED
            BY <1>0, <6>1, SMT
        <5>2. i + 1 \in g[i]
          BY <1>0, <3>2, SMT
        <5> QED
          BY <5>1, <5>2
      <4> QED
        BY <1>0, <3>2, <4>1, <4>2, SMT DEF Cutting
    <3>3. CASE i < Len(chain) /\ chain[i + 1] \notin Cutting
      <4>1. i + 1 \in I
        BY <1>0, <3>3, SMT
      <4>2. ASSUME NEW k \in g[i], k # i + 1 PROVE k \in g[i + 1]
        BY <1>0, <4>1, <4>2, SMT
      <4>3. ASSUME NEW k \in g[i + 1] PROVE k \in g[i]
        <5>1. k \in (i + 2) .. Len(chain) /\ \A j \in (i + 2) .. (k - 1) : chain[j] \notin Cutting
          BY <4>1, <4>3, SMT
        <5>2. \A j \in (i + 1) .. (k - 1) : j = i + 1 \/ j \in (i + 2) .. (k - 1)
          BY <1>0, SMT
        <5> QED
          BY <1>0, <3>3, <5>1, <5>2, SMT
      <4>4. i + 1 \in g[i]
        BY <1>0, <3>3, SMT
      <4>5. g[i] = {i + 1} \cup g[i + 1]
        BY <4>2, <4>3, <4>4
      <4> QED
        BY <1>0, <3>3, <4>5, SMT DEF Cutting
    <3>4. i >= Len(chain) \/ i < Len(chain)
      BY <1>0, SMT
    <3> HIDE DEF g
    <3> QED
      BY <3>1, <3>2, <3>3, <3>4, Zenon
  <2> HIDE DEF Eq
  <2>2. g = [i \in I |-> g[i]]
    OBVIOUS
  <2> QED
    BY <2>1, <2>2 DEF Eq
<1> DEFINE sol == CHOOSE f : Eq(f)
<1> HIDE DEF g, Eq
<1>2. Eq(sol)
  BY <1>1
<1>3. Ran(chain) = sol[0]
  BY DEF Ran, Eq
<1> HIDE DEF sol
<1>4. ASSUME NEW i \in I
      PROVE  sol[i] = IF i >= Len(chain) THEN {}
                      ELSE {i + 1} \cup
                           sol[1 + IF chain[i + 1] \in Cutting THEN AbortIndex ELSE i]
  <2> DEFINE rhs == [k \in I |->
                       IF k >= Len(chain) THEN {}
                       ELSE {k + 1} \cup
                            sol[1 + IF chain[k + 1] \in {"abort", "reject"} THEN AbortIndex ELSE k]]
  <2>1. sol = rhs
    BY <1>2 DEF Eq
  <2>2. sol[i] = rhs[i]
    BY <2>1
  <2> QED
    BY <2>2 DEF Cutting
<1> QED
  BY <1>3, <1>4

LEMMA UncutRuns ==
    ASSUME NEW chain \in Chains, NEW i \in DOMAIN chain,
           \A j \in 1 .. (i - 1) : chain[j] \notin Cutting
    PROVE  i \in Ran(chain)
<1>0. /\ chain \in Seq(Addon) /\ Len(chain) <= AbortIndex + 1 /\ AbortIndex \in Nat
      /\ Len(chain) \in Nat /\ i \in 1 .. Len(chain)
  BY MitmAssumption, SMT
<1>1. PICK from :
        /\ Ran(chain) = from[0]
        /\ \A m \in 0 .. AbortIndex + 1 :
              from[m] = IF m >= Len(chain) THEN {}
                        ELSE {m + 1} \cup
                             from[1 + IF chain[m + 1] \in Cutting THEN AbortIndex ELSE m]
  BY <1>0, RanFrom
<1>2. ASSUME NEW m \in Nat, m + 1 < i PROVE from[m + 1] \subseteq from[m]
  <2>1. m \in 0 .. AbortIndex + 1 /\ m < Len(chain) /\ m + 1 \in 1 .. (i - 1)
    BY <1>0, <1>2, SMT
  <2>2. chain[m + 1] \notin Cutting
    BY <2>1
  <2>3. ~(m >= Len(chain)) /\ 1 + m = m + 1
    BY <1>0, <2>1, SMT
  <2>4. from[m] = {m + 1} \cup from[1 + m]
    BY <1>1, <2>1, <2>2, <2>3
  <2> QED
    BY <2>3, <2>4
<1> DEFINE Bad == {m \in Nat : m < i /\ ~(from[m] \subseteq from[0])}
<1>3. Bad = {}
  <2> SUFFICES ASSUME Bad # {} PROVE FALSE
    OBVIOUS
  <2>1. PICK m \in Bad : \A n \in Bad : m <= n
    BY LeastNumber
  <2>2. m \in Nat /\ m < i /\ m # 0
    OBVIOUS
  <2>3. m - 1 \in Nat /\ m - 1 < i /\ m - 1 \notin Bad
    <3>1. m - 1 \in Nat /\ m - 1 < m /\ m - 1 < i /\ ~(m <= m - 1)
      BY <1>0, <2>2, SMT
    <3> HIDE DEF Bad
    <3> QED
      BY <2>1, <3>1
  <2>4. from[m - 1] \subseteq from[0]
    BY <2>3
  <2>5. from[(m - 1) + 1] \subseteq from[m - 1]
    BY <1>0, <1>2, <2>2, <2>3, SMT
  <2>6. from[m] \subseteq from[m - 1]
    BY <2>2, <2>5, SMT
  <2> QED
    BY <2>4, <2>6
<1>4. i - 1 \in 0 .. AbortIndex + 1 /\ i - 1 < Len(chain) /\ i - 1 \in Nat /\ i - 1 < i
  BY <1>0, SMT
<1>5. i \in from[i - 1]
  <2>1. ~(i - 1 >= Len(chain)) /\ (i - 1) + 1 = i
    BY <1>0, <1>4, SMT
  <2>2. (i - 1) + 1 \in from[i - 1]
    BY <1>1, <1>4, <2>1
  <2> QED
    BY <2>1, <2>2
<1>6. from[i - 1] \subseteq from[0]
  BY <1>3, <1>4
<1> QED
  BY <1>1, <1>5, <1>6

\* In a chain that did not reject, what would have rejected was cut off.
CutOff(chain) ==
    \A i \in DOMAIN chain : chain[i] \in {"reject", "late"} =>
        \E j \in 1 .. (i - 1) : chain[j] \in {"abort", "reject"}

LEMMA NotRejected == ASSUME NEW chain \in Chains, ~Rejected(chain) PROVE CutOff(chain)
<1> SUFFICES ASSUME NEW i \in DOMAIN chain, chain[i] \in {"reject", "late"},
                    \A j \in 1 .. (i - 1) : chain[j] \notin Cutting
             PROVE  FALSE
  BY DEF CutOff, Cutting
<1>1. i \in Ran(chain)
  BY UncutRuns
<1> QED
  BY <1>1 DEF Rejected
-----------------------------------------------------------------------------
(***************************************************************************)
(* Admission.                                                              *)
(***************************************************************************)
Admitted ==
    \/ proto = "server"
    \/ (accepted \/ (conf.mitm /\ proto = "http")) /\ (conf.auth => valid)

\* What each stage of a handshake has seen to already.
Admission ==
    /\ conf \in [kind : ServerKind, auth : BOOLEAN, mitm : BOOLEAN]
    /\ stage \in {"peek", "greeting", "auth", "request", "head", "tun"} => told # "success"
    /\ stage = "request" => (conf.auth => valid)
    /\ stage = "head" => proto = "http"
    /\ stage = "tun" => ~conf.auth
    /\ stage = "address" => proto = "server"
    /\ told = "success" \/ stage \in {"select", "associate", "packets", "relay"} => Admitted

Refused == told \in {"denied", "failure", "home"} => stage \in Gone /\ main = "idle"

Passed == main \in {"round trip", "answer", "write"} => CutOff(addons)

AInv == IInv /\ Admission /\ Refused /\ Passed

LEMMA InitAInv == Init => AInv
<1> SUFFICES ASSUME Init PROVE AInv
  OBVIOUS
<1>1. IInv
  BY InitIInv
<1>2. /\ conf \in [kind : ServerKind, auth : BOOLEAN, mitm : BOOLEAN]
      /\ conf.kind \in {"tun", "server"} => ~conf.auth
      /\ stage = First(conf.kind) /\ proto = conf.kind /\ told = "none" /\ main = "idle"
  BY InboundAssumption DEF Init, RelayInit
<1>3. conf.kind \in {"mixed", "socks", "http", "tun", "server"}
  BY <1>2 DEF ServerKind
<1>4. Admission
  BY <1>2, <1>3 DEF Admission, First
<1> QED
  BY <1>1, <1>2, <1>4 DEF AInv, Refused, Passed

\* The steps that end a handshake, or take it one stage further.
LEMMA HandshakeAdmits ==
    ASSUME AInv, ReadFails \/ Peek \/ Greeting \/ Authenticate \/ Request \/ Associate \/ PacketsEnd
                 \/ Tunnel \/ SelectFails \/ readRequest \/ Address \/ Select \/ Intercept
    PROVE  Admission' /\ Refused'
<1>1. /\ Admission /\ Refused /\ conf' = conf /\ stage \in Early /\ main = "idle"
  BY DEF AInv, IInv, Path, ReadFails, Peek, Greeting, Authenticate, Request, Associate, PacketsEnd,
         Tunnel, SelectFails, readRequest, Address, Select, Intercept, Early
<1>2. told \notin {"denied", "failure", "home"}
  BY <1>1 DEF Refused, Early, Gone
<1>3. conf.auth \in BOOLEAN /\ conf.mitm \in BOOLEAN
  BY <1>1 DEF Admission
<1>4. CASE ReadFails \/ Associate \/ PacketsEnd \/ SelectFails
  <2>1. UNCHANGED <<conf, proto, valid, accepted, told>> /\ stage' \in {"returned", "packets"}
        /\ (stage' = "packets" => stage = "associate")
    BY <1>4 DEF ReadFails, Associate, PacketsEnd, SelectFails, Return
  <2> QED
    BY <1>1, <1>2, <2>1 DEF Admission, Refused, Admitted
<1>5. CASE Peek \/ Greeting
  BY <1>1, <1>2, <1>5 DEF Peek, Greeting, Tell, Admission, Refused
<1>6. CASE Authenticate
  <2>1. CASE Tell("granted") /\ valid' = TRUE /\ stage' = "request"
    BY <1>1, <1>2, <2>1 DEF Tell, Admission, Refused
  <2>2. CASE Tell("denied") /\ Return
    <3>1. main' = main
      BY <1>6 DEF Authenticate, relay
    <3> QED
      BY <1>1, <2>2, <3>1 DEF Tell, Return, Admission, Refused, Gone
  <2> QED
    BY <1>6, <2>1, <2>2 DEF Authenticate
<1>7. CASE Request
  <2>1. stage = "request" /\ told # "success" /\ (conf.auth => valid) /\ main' = main
        /\ UNCHANGED <<conf, proto, valid>>
    BY <1>1, <1>7 DEF Request, Admission, relay
  <2>2. CASE Return /\ (UNCHANGED told \/ Tell("failure"))
    BY <1>1, <1>2, <2>1, <2>2 DEF Return, Tell, Admission, Refused, Gone
  <2>3. CASE accepted' = TRUE /\ Tell("success") /\ stage' \in {"select", "associate"}
    BY <1>1, <2>1, <2>3 DEF Tell, Admission, Refused, Admitted
  <2> QED
    BY <1>7, <2>2, <2>3 DEF Request
<1>8. CASE readRequest
  <2>1. stage = "head" /\ told # "success" /\ proto = "http" /\ main' = main /\ UNCHANGED <<conf, proto>>
    BY <1>1, <1>8 DEF readRequest, Admission
  <2>2. CASE Return /\ (UNCHANGED told \/ Tell("home") \/ Tell("denied"))
    BY <1>1, <1>2, <2>1, <2>2 DEF Return, Tell, Admission, Refused, Gone
  <2>3. CASE accepted' = ~conf.mitm /\ valid' = conf.auth /\ stage' = "select"
             /\ (Tell("success") \/ UNCHANGED told)
    BY <1>1, <1>2, <1>3, <2>1, <2>3 DEF Tell, Admission, Refused, Admitted
  <2> QED
    BY <1>8, <2>2, <2>3 DEF readRequest
<1>9. CASE Tunnel
  BY <1>1, <1>2, <1>9 DEF Tunnel, Return, Admission, Refused, Admitted
<1>10. CASE Address
  BY <1>1, <1>2, <1>10 DEF Address, Admission, Refused, Admitted
<1>11. CASE Select \/ Intercept
  <2>1. stage = "select" /\ stage' = "relay" /\ UNCHANGED <<conf, proto, valid, accepted, told>>
    BY <1>11 DEF Select, Intercept
  <2> QED
    BY <1>1, <1>2, <2>1 DEF Admission, Refused, Admitted
<1> QED
  BY <1>4, <1>5, <1>6, <1>7, <1>8, <1>9, <1>10, <1>11

\* The steps of the relay and the interception, and what follows them.
LEMMA RelayAdmits ==
    ASSUME AInv, Closes \/ HandlerReturns \/ ServeCloses \/ UNCHANGED handler,
           main = "idle" => main' = "idle"
    PROVE  Admission' /\ Refused'
<1>1. /\ UNCHANGED <<conf, proto, valid, accepted, told>>
      /\ stage' = stage \/ stage' \in Gone
      /\ stage \in Gone => stage' \in Gone
  BY DEF Closes, HandlerReturns, ServeCloses, handler, Return, Gone
<1>2. Admission'
  BY <1>1 DEF AInv, Admission, Admitted, Gone
<1>3. Refused'
  BY <1>1 DEF AInv, Refused
<1> QED
  BY <1>2, <1>3

LEMMA NextAInv == AInv /\ [Next]_vars => AInv'
<1> SUFFICES ASSUME AInv, [Next]_vars PROVE AInv'
  OBVIOUS
<1>0. IInv'
  BY NextIInv DEF AInv
<1>1. CASE (Reading \/ Handling \/ PacketsEnd \/ Closes \/ BufferReused) /\ UNCHANGED addons
  <2>1. CASE ReadFails \/ Peek \/ Greeting \/ Authenticate \/ Request \/ Associate \/ PacketsEnd
             \/ Tunnel \/ SelectFails \/ readRequest \/ Address \/ Select \/ Intercept
    <3>1. main' \in {"idle", "dial", "peek"}
      <4>1. main = "idle"
        BY <2>1 DEF AInv, IInv, Path, ReadFails, Peek, Greeting, Authenticate, Request, Associate,
                    PacketsEnd, Tunnel, SelectFails, readRequest, Address, Select, Intercept, Early
      <4>2. CASE Address \/ Select \/ Intercept
        BY <4>2 DEF Address, Select, Intercept, StartDial, HandleMITM
      <4>3. CASE ~(Address \/ Select \/ Intercept)
        BY <2>1, <4>1, <4>3 DEF ReadFails, Peek, Greeting, Authenticate, Request, Associate,
                                PacketsEnd, Tunnel, SelectFails, readRequest, relay
      <4> QED
        BY <4>2, <4>3
    <3> QED
      BY <1>0, <2>1, <3>1, HandshakeAdmits DEF AInv, Passed
  <2>2. CASE Closes \/ HandlerReturns \/ ServeCloses \/ BufferReused
    <3>1. main' = main \/ main' \in {"close dst", "returned"}
      BY <2>2 DEF Closes, RelayCloses, HandlerReturns, ServeCloses, BufferReused
    <3>2. main = "idle" => main' = "idle"
      BY <2>2 DEF Closes, RelayCloses, HandlerReturns, ServeCloses, BufferReused
    <3>3. Admission' /\ Refused'
      BY <2>2, <3>2, RelayAdmits DEF BufferReused
    <3>4. Passed'
      BY <1>1, <3>1 DEF AInv, Passed
    <3> QED
      BY <1>0, <3>3, <3>4 DEF AInv
  <2> QED
    BY <1>1, <2>1, <2>2 DEF Reading, Handling
<1>2. CASE /\ \/ \E f \in Racer : Dialing(f)
              \/ \E d \in Dir : Copying(d) \/ CopyBreaks(d)
              \/ Relaying \/ Peers
           /\ UNCHANGED <<handler, addons>>
  <2>1. /\ main = "idle" => main' = "idle"
        /\ main' = main \/ main' \notin {"round trip", "answer", "write"}
    <3>1. ASSUME NEW f \in Racer, Dialing(f)
          PROVE  /\ main = "idle" => main' = "idle"
                 /\ main' = main \/ main' \notin {"round trip", "answer", "write"}
      <4>1. main = "dial" => next \notin {"round trip", "answer", "write"}
        BY DEF AInv, IInv, Path, AtMitm
      <4> QED
        BY <3>1, <4>1 DEF Dialing, RacerDials, DialReceives, RacerLate
    <3>2. CASE \E d \in Dir : Copying(d) \/ CopyBreaks(d)
      BY <3>2 DEF Copying, CopyReads, CopyReadsBuffer, CopyWrites, CopyEnds, CopyBreaks, Finish
    <3>3. CASE Relaying \/ Peers
      BY <3>3 DEF Relaying, SendAddress, RelayReceives, Peers, PeerSends, PeerFinishes
    <3> QED
      BY <1>2, <3>1, <3>2, <3>3
  <2>2. Admission' /\ Refused'
    BY <1>2, <2>1, RelayAdmits
  <2>3. Passed'
    BY <1>2, <2>1 DEF AInv, Passed
  <2> QED
    BY <1>0, <2>2, <2>3 DEF AInv
<1>3. CASE Intercepting /\ UNCHANGED handler
  <2>1. main = "idle" => main' = "idle"
    BY <1>3 DEF Intercepting, FromClient, FromServer, Onward, Peeks, ClientHandshake,
                readHTTPRequestForConnect, getServerResponseCert, RoundTrip, WsDial, RequestAddons,
                ResponseAddons, WriteResponse, Upgrade, WsReceives, MitmCloses, RunChain, Goto,
                Pumping, WsReads, WsWrites, WsEnds, WsBreaks, Finish
  <2>2. Passed'
    <3>1. CASE RunChain("addons", "round trip") \/ RunChain("answer", "write")
      <4>1. addons' \in Chains /\ (main' # "mitm close" => ~Rejected(addons'))
        BY <3>1 DEF RunChain
      <4>2. ASSUME main' # "mitm close" PROVE CutOff(addons')
        BY <4>1, <4>2, NotRejected
      <4> QED
        BY <4>2 DEF Passed, CutOff
    <3>2. CASE RoundTrip
      BY <3>2 DEF RoundTrip, Goto, AInv, Passed, CutOff
    <3>3. CASE ~(RunChain("addons", "round trip") \/ RunChain("answer", "write") \/ RoundTrip)
      <4>1. \/ main' \notin {"round trip", "answer", "write"}
            \/ UNCHANGED <<main, addons>>
        <5>1. CASE FromClient \/ FromServer
          BY <3>3, <5>1 DEF FromClient, FromServer, Peeks, StartDial, ClientHandshake,
                            readHTTPRequestForConnect, getServerResponseCert, WsDial, Goto
        <5>2. CASE Onward
          BY <3>3, <5>2 DEF Onward, RequestAddons, ResponseAddons, WriteResponse, Upgrade,
                            WsReceives, MitmCloses, Goto
        <5>3. CASE \E d \in Dir : (Pumping(d) \/ WsBreaks(d)) /\ UNCHANGED addons
          BY <5>3 DEF Pumping, WsReads, WsWrites, WsEnds, WsBreaks, Finish
        <5> QED
          BY <1>3, <5>1, <5>2, <5>3 DEF Intercepting
      <4> QED
        BY <4>1 DEF AInv, Passed, CutOff
    <3> QED
      BY <3>1, <3>2, <3>3
  <2>3. Admission' /\ Refused'
    BY <1>3, <2>1, RelayAdmits
  <2> QED
    BY <1>0, <2>2, <2>3 DEF AInv
<1>4. CASE UNCHANGED vars
  <2>1. UNCHANGED handler /\ UNCHANGED <<main, addons>>
    BY <1>4 DEF vars, relay
  <2>2. Admission' /\ Refused'
    BY <2>1, RelayAdmits
  <2>3. Passed'
    BY <2>1 DEF AInv, Passed, CutOff
  <2> QED
    BY <1>0, <2>2, <2>3 DEF AInv
<1> QED
  BY <1>1, <1>2, <1>3, <1>4 DEF Next

\* Whatever the server and however the handshake goes, nobody is told success or
\* relayed unless the rules and the authentication let them; nobody who was refused is
\* relayed; and no request or response passes an addon that rejects it, for chains of
\* any length the abort index allows.
THEOREM OnlyTheAdmittedPass == Spec => []AdmittedOnly
<1>1. AInv => AdmittedOnly
  BY DEF AInv, Admission, Admitted, Refused, Passed, CutOff, AdmittedOnly
<1> QED
  BY <1>1, InitAInv, NextAInv, PTL DEF Spec
=============================================================================
