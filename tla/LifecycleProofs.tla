-------------------------- MODULE LifecycleProofs --------------------------
(***************************************************************************)
(* What lives and is closed: the connections of the pool, for any number   *)
(* of callers, slots and connections, and the servers of the group, for    *)
(* any number of servers of any kinds.                                     *)
(*                                                                         *)
(* A connection belongs to one slot for good, so a caller that closes one  *)
(* can only take it out of its own slot.  What is left of the servers when *)
(* Start has returned does not depend on which of the closers got to a     *)
(* server first.                                                           *)
(***************************************************************************)
EXTENDS ConnPool, ServerGroup, TLAPS

\* Zenon proves the leaves, unless they name another backend.
USE ZenonT(30)

(* The pool. *)
PoolTypeOK ==
    /\ dialer \in {"quic", "ssh"} /\ index \in Slot
    /\ conns \in [Slot -> Conn \cup {NIL}] /\ has \subseteq Slot
    /\ flight \in [Slot -> SUBSET Caller] /\ stored \in [Slot -> Conn \cup {NIL}]
    /\ pc \in [Caller -> {"idle", "join", "wait", "stream", "close", "ok", "error"}]
    /\ idx \in [Caller -> Slot] /\ conn \in [Caller -> Conn \cup {NIL}]
    /\ box \in [Caller -> Conn \cup {NIL, "failed"}]
    /\ state \in [Conn -> {"unused", "open", "closed"}]

\* Whoever knows a connection knows it as one of its slot: x is of slot i only.
Home ==
    /\ \A i \in Slot, p \in Caller : conns[i] # NIL /\ conns[i] \in {conn[p], box[p]} => idx[p] = i
    /\ \A i, j \in Slot : conns[i] # NIL /\ conns[i] = conns[j] => i = j
    /\ \A p, q \in Caller : conn[p] # NIL /\ conn[p] \in {conn[q], box[q]} => idx[p] = idx[q]
    /\ \A p, q \in Caller : box[p] \in Conn /\ box[p] = box[q] => idx[p] = idx[q]
    /\ \A i \in Slot : \A p \in flight[i] : idx[p] = i /\ pc[p] # "idle"
    /\ \A i \in Slot : stored[i] # NIL => conns[i] = stored[i]

\* Connections in use have been dialled.
Dialled ==
    /\ \A i \in Slot : conns[i] # NIL => state[conns[i]] # "unused"
    /\ \A p \in Caller : /\ conn[p] # NIL => state[conn[p]] # "unused"
                         /\ box[p] \in Conn => state[box[p]] # "unused"
    /\ \A i \in has : conns[i] # NIL /\ state[conns[i]] = "open"

\* Where a caller is and what it has.
Holds ==
    \A p \in Caller :
        /\ pc[p] = "idle" => conn[p] = NIL /\ box[p] = NIL
        /\ pc[p] \in {"stream", "close"} => conn[p] \in Conn /\ conns[idx[p]] # NIL
        /\ pc[p] = "close" => conn[p] \in failed
        /\ box[p] \in Conn => conns[idx[p]] # NIL

PoolInv == PoolTypeOK /\ Home /\ Dialled /\ Holds /\ ClosedOnlyIfFailed

LEMMA ZeroIsSlot == 0 \in Slot
  BY PoolSizeAssumption, SMT DEF Slot

LEMMA SelIndexInSlot == ASSUME NEW i \in Slot PROVE selIndex(i) \in Slot
  BY PoolSizeAssumption, SMT DEF Slot, selIndex

LEMMA InitPoolInv == Init => PoolInv
<1> SUFFICES ASSUME Init PROVE PoolInv
  OBVIOUS
<1>1. PoolTypeOK
  BY ZeroIsSlot DEF Init, PoolTypeOK
<1>2. Home /\ Dialled /\ Holds /\ ClosedOnlyIfFailed
  BY PoolSizeAssumption DEF Init, Home, Dialled, Holds, ClosedOnlyIfFailed
<1> QED
  BY <1>1, <1>2 DEF PoolInv

LEMMA NextPoolInv == PoolInv /\ [Next]_vars => PoolInv'
<1> SUFFICES ASSUME PoolTypeOK, Home, Dialled, Holds, ClosedOnlyIfFailed, [Next]_vars PROVE PoolInv'
  BY DEF PoolInv
<1> USE PoolSizeAssumption DEF PoolInv
<1>1. ASSUME NEW p \in Caller, GetConn(p) PROVE PoolInv'
  <2>0. /\ pc[p] = "idle" /\ idx' = [idx EXCEPT ![p] = index] /\ conn[p] = NIL /\ box[p] = NIL
        /\ UNCHANGED <<dialer, conns, has, flight, stored, fails, box, state, failed>>
        /\ \A i \in Slot : p \notin flight[i]
    BY <1>1 DEF GetConn, group, net, Holds, Home
  <2>1. CASE index \in has
    <3>1. conn' = [conn EXCEPT ![p] = conns[index]] /\ pc' = [pc EXCEPT ![p] = "stream"] /\ index' = selIndex(index)
      BY <1>1, <2>1 DEF GetConn, Goto
    <3>2. conns[index] \in Conn /\ index \in Slot
      BY <2>1, SMT DEF PoolTypeOK, Dialled
    <3>3. PoolTypeOK'
      BY <2>0, <3>1, <3>2, SelIndexInSlot DEF PoolTypeOK
    <3>4. Home'
      BY <2>0, <3>1, <3>2, SMT DEF PoolTypeOK, Home
    <3>5. Dialled' /\ Holds' /\ ClosedOnlyIfFailed'
      BY <2>0, <3>1, <3>2, SMT DEF PoolTypeOK, Dialled, Holds, ClosedOnlyIfFailed
    <3> QED
      BY <3>3, <3>4, <3>5
  <2>2. CASE index \notin has
    <3>1. conn' = conn /\ pc' = [pc EXCEPT ![p] = "join"] /\ index' = index
      BY <1>1, <2>2 DEF GetConn, Goto
    <3>2. PoolTypeOK'
      BY <2>0, <3>1 DEF PoolTypeOK
    <3>3. Home'
      BY <2>0, <3>1, SMT DEF PoolTypeOK, Home
    <3>4. Dialled' /\ Holds' /\ ClosedOnlyIfFailed'
      BY <2>0, <3>1, SMT DEF PoolTypeOK, Dialled, Holds, ClosedOnlyIfFailed
    <3> QED
      BY <3>2, <3>3, <3>4
  <2> QED
    BY <2>1, <2>2
<1>2. ASSUME NEW p \in Caller, JoinDial(p) PROVE PoolInv'
  <2>1. /\ pc[p] = "join" /\ flight' = [flight EXCEPT ![idx[p]] = @ \cup {p}] /\ pc' = [pc EXCEPT ![p] = "wait"]
        /\ UNCHANGED <<dialer, index, conns, has, stored, idx, conn, box, state, failed>>
    BY <1>2 DEF JoinDial, Goto, pool, regs, net
  <2>2. PoolTypeOK'
    BY <2>1 DEF PoolTypeOK
  <2>3. Home'
    BY <2>1, SMT DEF PoolTypeOK, Home
  <2>4. Dialled' /\ Holds' /\ ClosedOnlyIfFailed'
    BY <2>1, SMT DEF PoolTypeOK, Dialled, Holds, ClosedOnlyIfFailed
  <2> QED
    BY <2>2, <2>3, <2>4
<1>3. ASSUME NEW i \in Slot, NEW x \in Conn, DialSucceeds(i, x) PROVE PoolInv'
  <2>1. /\ state[x] = "unused" /\ state' = [state EXCEPT ![x] = "open"]
        /\ conns' = [conns EXCEPT ![i] = x] /\ has' = has \cup {i} /\ index' \in {selIndex(i), index}
        /\ stored' = [stored EXCEPT ![i] = x]
        /\ UNCHANGED <<dialer, flight, pc, idx, conn, box, failed>>
    BY <1>3 DEF DialSucceeds, regs
  <2>2. /\ \A j \in Slot : conns[j] # x
        /\ \A p \in Caller : conn[p] # x /\ box[p] # x
    BY <2>1 DEF Dialled
  <2>3. PoolTypeOK'
    BY <2>1, SelIndexInSlot DEF PoolTypeOK
  <2>4. Home'
    BY <2>1, <2>2, SMT DEF PoolTypeOK, Home
  <2>5. Dialled' /\ ClosedOnlyIfFailed'
    BY <2>1, <2>2, SMT DEF PoolTypeOK, Dialled, ClosedOnlyIfFailed
  <2>6. Holds'
    BY <2>1, <2>2, SMT DEF PoolTypeOK, Home, Holds
  <2> QED
    BY <2>3, <2>4, <2>5, <2>6
<1>4. ASSUME NEW i \in Slot, DialFails(i) PROVE PoolInv'
  <2>1. /\ box' = [p \in Caller |-> IF p \in flight[i] THEN "failed" ELSE box[p]]
        /\ flight' = [flight EXCEPT ![i] = {}] /\ stored' = [stored EXCEPT ![i] = NIL]
        /\ UNCHANGED <<dialer, index, conns, has, pc, idx, conn, state, failed>>
    BY <1>4 DEF DialFails, Deliver, pool, regs, net
  <2>2. PoolTypeOK'
    BY <2>1 DEF PoolTypeOK
  <2>3. Home'
    BY <2>1, SMT DEF PoolTypeOK, Home
  <2>4. Dialled' /\ Holds' /\ ClosedOnlyIfFailed'
    BY <2>1, SMT DEF PoolTypeOK, Home, Dialled, Holds, ClosedOnlyIfFailed
  <2> QED
    BY <2>2, <2>3, <2>4
<1>5. ASSUME NEW p \in Caller, TakeConn(p) PROVE PoolInv'
  <2>1. /\ pc[p] = "wait" /\ box[p] # NIL /\ box' = [box EXCEPT ![p] = NIL]
        /\ UNCHANGED <<dialer, index, conns, has, flight, stored, idx, state, failed>>
    BY <1>5 DEF TakeConn, pool, group, net
  <2>2. CASE box[p] # "failed"
    <3>1. conn' = [conn EXCEPT ![p] = box[p]] /\ pc' = [pc EXCEPT ![p] = "stream"] /\ box[p] \in Conn
      BY <1>5, <2>1, <2>2 DEF TakeConn, Goto, PoolTypeOK
    <3>2. PoolTypeOK'
      BY <2>1, <3>1 DEF PoolTypeOK
    <3>3. Home'
      BY <2>1, <3>1, SMT DEF PoolTypeOK, Home
    <3>4. Dialled' /\ Holds' /\ ClosedOnlyIfFailed'
      BY <2>1, <3>1, SMT DEF PoolTypeOK, Dialled, Holds, ClosedOnlyIfFailed
    <3> QED
      BY <3>2, <3>3, <3>4
  <2>3. CASE box[p] = "failed"
    <3>1. conn' = conn /\ pc' = [pc EXCEPT ![p] = "error"]
      BY <1>5, <2>3 DEF TakeConn, Goto
    <3>2. PoolTypeOK'
      BY <2>1, <3>1 DEF PoolTypeOK
    <3>3. Home'
      BY <2>1, <3>1, SMT DEF PoolTypeOK, Home
    <3>4. Dialled' /\ Holds' /\ ClosedOnlyIfFailed'
      BY <2>1, <3>1, SMT DEF PoolTypeOK, Dialled, Holds, ClosedOnlyIfFailed
    <3> QED
      BY <3>2, <3>3, <3>4
  <2> QED
    BY <2>2, <2>3
<1>6. ASSUME NEW p \in Caller, GiveUp(p) \/ OpenStream(p) \/ StreamFails(p) PROVE PoolInv'
  <2>1. /\ UNCHANGED <<dialer, index, conns, has, flight, stored, idx, conn, box, state>> /\ failed \subseteq failed'
        /\ pc[p] \in {"wait", "stream"}
        /\ \/ pc' = [pc EXCEPT ![p] = "error"] \/ pc' = [pc EXCEPT ![p] = "ok"]
           \/ pc' = [pc EXCEPT ![p] = "close"] /\ pc[p] = "stream" /\ conn[p] \in failed'
    BY <1>6 DEF GiveUp, OpenStream, StreamFails, Goto, pool, group, regs, net
  <2>2. PoolTypeOK'
    BY <2>1 DEF PoolTypeOK
  <2>3. Home' /\ Dialled'
    BY <2>1, SMT DEF PoolTypeOK, Home, Dialled
  <2>4. Holds' /\ ClosedOnlyIfFailed'
    BY <2>1, SMT DEF PoolTypeOK, Holds, ClosedOnlyIfFailed
  <2> QED
    BY <2>2, <2>3, <2>4
<1>7. ASSUME NEW p \in Caller, CloseSlot(p) PROVE PoolInv'
  <2>1. /\ pc[p] = "close" /\ has' = has \ {idx[p]} /\ state' = [state EXCEPT ![Broken(p)] = "closed"]
        /\ pc' = [pc EXCEPT ![p] = "join"]
        /\ UNCHANGED <<dialer, index, conns, flight, stored, idx, conn, box, failed>>
    BY <1>7 DEF CloseSlot, Emptied, Goto, group
  <2>2. Broken(p) \in {conns[idx[p]], conn[p]} /\ Broken(p) \in Conn /\ idx[p] \in Slot
    BY <2>1, SMT DEF Broken, Holds, PoolTypeOK
  <2>3. \A i \in Slot : conns[i] = Broken(p) => i = idx[p]
    BY <2>2, SMT DEF Home
  <2>4. PoolTypeOK'
    BY <2>1, <2>2 DEF PoolTypeOK
  <2>5. Home' /\ Holds'
    BY <2>1, SMT DEF PoolTypeOK, Home, Holds
  <2>6. Dialled'
    BY <2>1, <2>2, <2>3, SMT DEF PoolTypeOK, Dialled
  <2>7. ClosedOnlyIfFailed'
    BY <2>1 DEF PoolTypeOK, Holds, ClosedOnlyIfFailed, Broken
  <2> QED
    BY <2>4, <2>5, <2>6, <2>7
<1>8. ASSUME UNCHANGED <<dialer, index, conns, has, flight, stored, pc, idx, conn, box, state, failed>> PROVE PoolInv'
  <2>1. PoolTypeOK'
    BY <1>8 DEF PoolTypeOK
  <2>2. Home'
    BY <1>8 DEF Home
  <2>3. Dialled' /\ Holds' /\ ClosedOnlyIfFailed'
    BY <1>8 DEF Dialled, Holds, ClosedOnlyIfFailed
  <2> QED
    BY <2>1, <2>2, <2>3
<1>9. ASSUME NEW p \in Caller, ContextEnds(p) PROVE PoolInv'
  BY <1>8, <1>9 DEF ContextEnds, pool, group, regs, net
<1>10. ASSUME NEW x \in Conn, PeerDies(x) PROVE PoolInv'
  BY <1>8, <1>10 DEF PeerDies, pool, group, regs
<1>11. CASE UNCHANGED vars
  BY <1>8, <1>11 DEF vars
<1>12. ASSUME NEW i \in Slot, DialReturnsConn(i) PROVE PoolInv'
  <2>0. /\ stored[i] # NIL
        /\ box' = [p \in Caller |-> IF p \in flight[i] THEN stored[i] ELSE box[p]]
        /\ flight' = [flight EXCEPT ![i] = {}] /\ stored' = [stored EXCEPT ![i] = NIL]
        /\ UNCHANGED <<dialer, index, conns, has, pc, idx, conn, state, failed>>
    BY <1>12 DEF DialReturnsConn, Deliver, pool, regs, net
  <2>1. conns[i] = stored[i] /\ conns[i] \in Conn
    BY <2>0, SMT DEF Home, PoolTypeOK
  <2>2. PoolTypeOK'
    BY <2>0, <2>1 DEF PoolTypeOK
  <2>3. Home'
    BY <2>0, <2>1, SMT DEF PoolTypeOK, Home
  <2>4. Dialled' /\ ClosedOnlyIfFailed'
    BY <2>0, <2>1, SMT DEF PoolTypeOK, Dialled, ClosedOnlyIfFailed
  <2>5. Holds'
    BY <2>0, <2>1, SMT DEF PoolTypeOK, Home, Holds
  <2> QED
    BY <2>2, <2>3, <2>4, <2>5
<1> QED
  BY <1>1, <1>2, <1>3, <1>4, <1>5, <1>6, <1>7, <1>9, <1>10, <1>11, <1>12 DEF Next, Step, Dial

\* getConn never hands out a connection that was closed, with either dialer and however
\* many dials, closes and retries of one slot overlap.
THEOREM SlotsStayUsable == Spec => []SlotUsable
<1>1. PoolInv => SlotUsable
  BY DEF PoolInv, Dialled, SlotUsable
<1> QED
  BY <1>1, InitPoolInv, NextPoolInv, PTL DEF Spec

\* quicDialer never closes a connection that worked for everybody.
THEOREM OnlyFailedOnesClosed == Spec => []ClosedOnlyIfFailed
<1>1. PoolInv => ClosedOnlyIfFailed
  BY DEF PoolInv
<1> QED
  BY <1>1, InitPoolInv, NextPoolInv, PTL DEF Spec

----------------------------------------------------------------------------
(* The servers. *)
GroupTypeOK ==
    /\ role \in {"client", "server"}
    /\ main \in {"init", "proxy", "run", "failed", "returned"}
    /\ user \in Place \cup {"idle", "undo"} /\ turn \in Nat \ {0}
    /\ srv \in [Srv -> {"idle", "listen", "config", "store", "serve"} \cup Ended]
    /\ running \in [Srv -> BOOLEAN]
    /\ ln \in [Srv -> {"none", "bound", "open", "closed"}]
    /\ closer \in [Srv -> Place \cup {"none", "wait"}]
    /\ upAtClose \in BOOLEAN

\* A Close has cleared the flag of server s, and goes on to its listener.
AboutToClose(s) == closer[s] = "stop" \/ (user = "stop" /\ turn = s)

Flags ==
    \A s \in Srv :
        /\ running[s] => srv[s] = "serve"
        /\ srv[s] \in {"serve", "returned"} /\ ~running[s] => ln[s] = Shut(s) \/ AboutToClose(s)

\* Start and the servers it starts.
Started ==
    \A s \in Srv :
        /\ main \in {"init", "proxy"} => srv[s] = "idle"
        /\ main \in {"failed", "returned"} => srv[s] \in Ended \cup {"idle"}

\* The proxy and the enhancer.
Settings ==
    /\ main = "init" \/ role = "server" => proxy = FALSE /\ tun = FALSE
    /\ main = "proxy" => role = "client" /\ proxy = FALSE
    /\ main = "failed" => proxy = FALSE /\ tun = FALSE
    /\ upAtClose => main \notin {"init", "proxy"} /\ user # "idle"
    /\ upAtClose /\ user \in Place => proxy = FALSE /\ tun = FALSE
    /\ turn > N => user \in Place

GroupInv == GroupTypeOK /\ Flags /\ Started /\ Settings

LEMMA InitGroupInv == GroupInit => GroupInv
<1> SUFFICES ASSUME GroupInit PROVE GroupInv
  OBVIOUS
<1>1. GroupTypeOK
  <2>1. role \in {"client", "server"} /\ main = "init" /\ user = "idle" /\ turn = 1
    BY DEF GroupInit
  <2>2. srv \in [Srv -> {"idle"}] /\ ln \in [Srv -> {"none"}] /\ closer \in [Srv -> {"none"}]
    BY DEF GroupInit
  <2>3. running \in [Srv -> BOOLEAN] /\ upAtClose \in BOOLEAN
    BY DEF GroupInit
  <2> QED
    BY <2>1, <2>2, <2>3, SMT DEF GroupTypeOK
<1>2. Flags /\ Started
  BY DEF GroupInit, Flags, Started
<1>3. Settings
  BY GroupAssumption, SMT DEF GroupInit, Settings, Place
<1> QED
  BY <1>1, <1>2, <1>3 DEF GroupInv

\* One step of a Close by either closer keeps the flags.
LEMMA CloseKeepsFlags ==
    ASSUME GroupTypeOK, Flags, NEW s \in Srv, NEW a \in Place, NEW b \in Place, CloseStep(s, a, b),
           UNCHANGED <<srv, kind>>,
           a = "stop" => AboutToClose(s), b = "stop" => AboutToClose(s)',
           \A r \in Srv \ {s} : AboutToClose(r) => AboutToClose(r)',
           a # "stop" /\ AboutToClose(s) => AboutToClose(s)'
    PROVE  /\ Flags'
           /\ running' \in [Srv -> BOOLEAN] /\ ln' \in [Srv -> {"none", "bound", "open", "closed"}]
<1>1. CASE a \in {"test", "drain"}
  <2>1. running' = running /\ ln' = ln
    BY <1>1 DEF CloseStep
  <2> QED
    BY <1>1, <2>1 DEF Flags, GroupTypeOK, Shut
<1>2. CASE a = "clear"
  <2>1. running' = [running EXCEPT ![s] = FALSE] /\ ln' = ln /\ b = "stop"
    BY <1>2 DEF CloseStep
  <2> QED
    BY <1>2, <2>1 DEF Flags, GroupTypeOK, Shut
<1>3. CASE a = "stop"
  <2>1. ln' = [ln EXCEPT ![s] = Shut(s)] /\ running' = running
    BY <1>3 DEF CloseStep
  <2> QED
    BY <1>3, <2>1 DEF Flags, GroupTypeOK, Shut
<1>4. a # "out"
  BY DEF CloseStep
<1> QED
  BY <1>1, <1>2, <1>3, <1>4 DEF Place

LEMMA NextGroupInv == GroupInv /\ [GroupNext]_groupVars => GroupInv'
<1> SUFFICES ASSUME GroupTypeOK, Flags, Started, Settings, [GroupNext]_groupVars PROVE GroupInv'
  BY DEF GroupInv
<1> USE DEF GroupInv
<1>1. CASE InitEnhancer
  <2>1. GroupTypeOK' /\ Flags' /\ Started'
    BY <1>1 DEF InitEnhancer, closing, conf, GroupTypeOK, Flags, Shut, Started, AboutToClose
  <2>2. Settings'
    BY <1>1 DEF InitEnhancer, closing, conf, Settings
  <2> QED
    BY <2>1, <2>2
<1>2. CASE SetSystemProxy
  <2>1. GroupTypeOK' /\ Flags' /\ Started'
    BY <1>2 DEF SetSystemProxy, closing, conf, GroupTypeOK, Flags, Shut, Started, AboutToClose
  <2>2. Settings'
    BY <1>2 DEF SetSystemProxy, closing, conf, Settings
  <2> QED
    BY <2>1, <2>2
<1>3. CASE StartServer
  <2>1. GroupTypeOK' /\ Flags' /\ Started'
    BY <1>3 DEF StartServer, closing, conf, GroupTypeOK, Flags, Shut, Started, AboutToClose
  <2>2. Settings'
    BY <1>3 DEF StartServer, closing, conf, Settings
  <2> QED
    BY <2>1, <2>2
<1>4. ASSUME NEW s \in Srv, Starting(s) PROVE GroupInv'
  <2>1. GroupTypeOK'
    <3>1. /\ UNCHANGED <<role, main, user, turn, upAtClose>>
          /\ running' = running \/ \E b \in BOOLEAN : running' = [running EXCEPT ![s] = b]
          /\ ln' = ln \/ (\E l \in {"bound", "open"} : ln' = [ln EXCEPT ![s] = l])
          /\ closer' = closer \/ closer' = [closer EXCEPT ![s] = "wait"]
          /\ \E w \in {"config", "store", "serve"} \cup Ended : srv' = [srv EXCEPT ![s] = w]
      BY <1>4 DEF Starting, Listen, Configure, StoreRunning, ServeReturns, Fresh, Fail, client, closing, conf, Ended
    <3>2. srv' \in [Srv -> {"idle", "listen", "config", "store", "serve"} \cup Ended]
      BY <3>1 DEF GroupTypeOK
    <3>3. running' \in [Srv -> BOOLEAN]
      BY <3>1 DEF GroupTypeOK
    <3>4. ln' \in [Srv -> {"none", "bound", "open", "closed"}]
      BY <3>1 DEF GroupTypeOK
    <3>5. closer' \in [Srv -> Place \cup {"none", "wait"}]
      BY <3>1 DEF GroupTypeOK
    <3> QED
      BY <3>1, <3>2, <3>3, <3>4, <3>5 DEF GroupTypeOK
  <2>2. Flags'
    BY <1>4, SMT DEF Starting, Listen, Configure, StoreRunning, ServeReturns, Fail, client, closing, conf,
                GroupTypeOK, Flags, Shut, AboutToClose, Ended
  <2>3. Started'
    BY <1>4 DEF Starting, Listen, Configure, StoreRunning, ServeReturns, Fail, client, closing, conf,
                GroupTypeOK, Started, Ended
  <2>4. Settings'
    <3>1. UNCHANGED <<role, main, proxy, tun, upAtClose, user, turn>>
      BY <1>4 DEF Starting, Listen, Configure, StoreRunning, ServeReturns, client, closing, conf
    <3> QED
      BY <3>1 DEF Settings, Place
  <2> QED
    BY <2>1, <2>2, <2>3, <2>4
<1>5. ASSUME NEW s \in Srv, ContextDone(s) PROVE GroupInv'
  <2>1. GroupTypeOK' /\ Flags' /\ Started'
    BY <1>5 DEF ContextDone, client, conf, GroupTypeOK, Flags, Shut, Started, AboutToClose, Place
  <2>2. Settings'
    BY <1>5 DEF ContextDone, client, conf, Settings
  <2> QED
    BY <2>1, <2>2
<1>6. ASSUME NEW s \in Srv, CloserSteps(s) PROVE GroupInv'
  <2>1. PICK b \in Place : CloseStep(s, closer[s], b) /\ closer' = [closer EXCEPT ![s] = b]
    BY <1>6 DEF CloserSteps
  <2>2. UNCHANGED <<client, user, turn, srv>>
    BY <1>6 DEF CloserSteps
  <2>3. closer[s] \in Place
    BY <2>1 DEF CloseStep, Place
  <2>4. Flags' /\ running' \in [Srv -> BOOLEAN] /\ ln' \in [Srv -> {"none", "bound", "open", "closed"}]
    BY <2>1, <2>2, <2>3, CloseKeepsFlags DEF AboutToClose, GroupTypeOK, client, conf
  <2>5. GroupTypeOK' /\ Started'
    BY <2>1, <2>2, <2>4 DEF GroupTypeOK, Started, client, conf
  <2>6. Settings'
    BY <2>2 DEF Settings, client, conf
  <2> QED
    BY <2>4, <2>5, <2>6
<1>7. CASE WaitReturns
  <2>1. GroupTypeOK' /\ Flags' /\ Started'
    BY <1>7 DEF WaitReturns, Stopped, closing, conf, GroupTypeOK, Flags, Shut, Started, AboutToClose, Ended
  <2>2. Settings'
    BY <1>7 DEF WaitReturns, closing, conf, Settings
  <2> QED
    BY <2>1, <2>2
<1>8. CASE Interrupt
  <2>1. GroupTypeOK' /\ Flags' /\ Started'
    BY <1>8 DEF Interrupt, conf, GroupTypeOK, Flags, Shut, Started, AboutToClose, Place
  <2>2. upAtClose' => main \notin {"init", "proxy"}
    <3>1. 1 \in Srv
      BY GroupAssumption, SMT DEF Srv
    <3> QED
      BY <1>8, <3>1 DEF Interrupt, Started
  <2>3. user' # "idle" /\ (user' \in Place => role = "server") /\ turn <= N
    BY <1>8, GroupAssumption, SMT DEF Interrupt, Settings, Place, GroupTypeOK
  <2>4. Settings'
    BY <1>8, <2>2, <2>3, GroupAssumption, SMT DEF Interrupt, conf, Settings, GroupTypeOK
  <2> QED
    BY <2>1, <2>4
<1>9. CASE UndoProxy
  <2>1. GroupTypeOK' /\ Flags' /\ Started'
    BY <1>9, SMT DEF UndoProxy, conf, GroupTypeOK, Flags, Shut, Started, AboutToClose, Place
  <2>2. Settings'
    BY <1>9, GroupAssumption DEF UndoProxy, conf, Settings, Place
  <2> QED
    BY <2>1, <2>2
<1>10. CASE UserCloses
  <2>1. PICK b \in Place : /\ CloseStep(turn, user, b)
                           /\ user' = IF b = "out" /\ turn < N THEN "test" ELSE b
                           /\ turn' = IF b = "out" THEN turn + 1 ELSE turn
    BY <1>10 DEF UserCloses
  <2>2. UNCHANGED <<client, closer, srv>> /\ user \in Place /\ turn <= N
    BY <1>10 DEF UserCloses
  <2>3. user' \in Place /\ turn' \in Nat \ {0}
    BY <2>1, <2>2, SMT DEF Place, GroupTypeOK
  <2>4. turn \in Srv
    BY <2>2, GroupAssumption, SMT DEF GroupTypeOK, Srv
  <2>5. Flags' /\ running' \in [Srv -> BOOLEAN] /\ ln' \in [Srv -> {"none", "bound", "open", "closed"}]
    BY <2>1, <2>2, <2>4, CloseKeepsFlags DEF AboutToClose, GroupTypeOK, client, conf
  <2>6. GroupTypeOK' /\ Started'
    BY <2>1, <2>2, <2>3, <2>5 DEF GroupTypeOK, Started, client, conf
  <2>7. Settings'
    BY <2>2, <2>3 DEF Settings, client, conf, Place
  <2> QED
    BY <2>5, <2>6, <2>7
<1>11. ASSUME NEW s \in Srv, UdpStep(s) \/ Peer(s) PROVE GroupInv'
  <2>1. UNCHANGED <<conf, main, proxy, tun, upAtClose, closing, srv, running, ln>>
    BY <1>11 DEF UdpStep, Peer, PeerComes, HandshakeComplete, PeerGoes, client
  <2> QED
    BY <2>1 DEF conf, closing, GroupTypeOK, Flags, Shut, Started, Settings, AboutToClose
<1>12. ASSUME NEW s \in Srv, ServeFails(s) PROVE GroupInv'
  <2>1. /\ running' = [running EXCEPT ![s] = FALSE] /\ ln' = [ln EXCEPT ![s] = "closed"]
        /\ srv' = [srv EXCEPT ![s] = "failed"] /\ srv[s] = "serve"
        /\ UNCHANGED <<conf, main, proxy, tun, upAtClose, closing>>
    BY <1>12 DEF ServeFails, Fail, client
  <2> QED
    BY <2>1 DEF conf, closing, GroupTypeOK, Flags, Shut, Started, Settings, AboutToClose, Ended
<1>13. CASE UNCHANGED groupVars
  BY <1>13 DEF groupVars, GroupTypeOK, Flags, Shut, Started, Settings, AboutToClose
<1> QED
  BY <1>1, <1>2, <1>3, <1>4, <1>5, <1>6, <1>7, <1>8, <1>9, <1>10, <1>11, <1>12, <1>13
  DEF GroupNext, Client, User, Stopping

\* Who has an open listener.
Opened ==
    \A s \in Srv :
        /\ ln[s] = "open" =>
              srv[s] \in {"config", "store", "serve", "returned"} \/ (srv[s] = "failed" /\ kind[s] # "tcp")
        /\ ln[s] = "bound" => kind[s] = "quic"

LEMMA NextOpened == GroupInv /\ Opened /\ [GroupNext]_groupVars => Opened'
<1> SUFFICES ASSUME GroupTypeOK, Started, Opened, [GroupNext]_groupVars PROVE Opened'
  BY DEF GroupInv
<1>1. CASE Client
  <2>1. UNCHANGED <<ln, kind>> /\ (srv' = srv \/ main \in {"init", "proxy"})
    BY <1>1 DEF Client, InitEnhancer, SetSystemProxy, StartServer, WaitReturns, conf
  <2> QED
    BY <2>1 DEF Opened, Started
<1>2. ASSUME NEW s \in Srv, Starting(s) PROVE Opened'
  <2>1. UNCHANGED kind
    BY <1>2 DEF Starting, Listen, Configure, StoreRunning, ServeReturns, client, conf
  <2> QED
    BY <1>2, <2>1, SMT DEF Starting, Listen, Configure, StoreRunning, ServeReturns, Fresh, Fail, Opened, GroupTypeOK
<1>3. ASSUME NEW s \in Srv, Stopping(s) PROVE Opened'
  BY <1>3, SMT DEF Stopping, ContextDone, CloserSteps, CloseStep, Shut, client, conf, Opened, GroupTypeOK
<1>4. CASE User
  BY <1>4 DEF User, UndoProxy, UserCloses, CloseStep, Shut, client, conf, Opened, GroupTypeOK
<1>5. CASE UNCHANGED <<ln, srv, kind>>
  BY <1>5 DEF Opened
<1>6. ASSUME NEW s \in Srv, UdpStep(s) \/ Peer(s) PROVE UNCHANGED <<ln, srv, kind>>
  BY <1>6 DEF UdpStep, Peer, PeerComes, HandshakeComplete, PeerGoes, client, conf
<1>7. ASSUME Interrupt \/ UNCHANGED groupVars PROVE UNCHANGED <<ln, srv, kind>>
  BY <1>7 DEF Interrupt, groupVars, conf
<1>8. ASSUME NEW s \in Srv, ServeFails(s) PROVE Opened'
  BY <1>8 DEF ServeFails, Fail, client, conf, Opened, GroupTypeOK
<1> QED
  BY <1>1, <1>2, <1>3, <1>4, <1>5, <1>6, <1>7, <1>8 DEF GroupNext

\* When Start has returned, however the servers' starts, a failure and an interrupt
\* overlapped, no server says it runs, nothing accepts connections, and the only sockets
\* left open are those of servers whose configuration failed and of quic servers.
THEOREM NothingIsLeftRunning == GroupSpec => []NothingLeftRunning
<1>1. GroupInit => Opened
  BY DEF GroupInit, Opened
<1>2. GroupInv /\ Opened => NothingLeftRunning
  BY DEF GroupInv, GroupTypeOK, Flags, Started, Opened, NothingLeftRunning, Shut, AboutToClose, Ended
<1> QED
  BY <1>1, <1>2, InitGroupInv, NextGroupInv, NextOpened, PTL DEF GroupSpec

\* A Start that failed, and a Close of servers that were up, leave neither the system
\* proxy nor the enhancer behind.
THEOREM SettingsAreUndone == GroupSpec => []ClientUndone
<1>1. GroupInv => ClientUndone
  BY DEF GroupInv, Settings, ClientUndone
<1> QED
  BY <1>1, InitGroupInv, NextGroupInv, PTL DEF GroupSpec
=============================================================================
