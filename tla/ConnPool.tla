------------------------------ MODULE ConnPool ------------------------------
(***************************************************************************)
(* transport.connPool and the two dialers built on it, quicDialer and      *)
(* sshDialer.  A dial takes the connection in the slot the pool's index    *)
(* points at, or dials one: callers that dial for the same slot at the     *)
(* same time share one dial (singleflight), which runs with the context of *)
(* the caller that started it.  Then the caller opens a stream on the      *)
(* connection; if that fails it closes the slot, dials again for the same  *)
(* slot and tries once more.                                               *)
(*                                                                         *)
(* The two dialers differ in what they close: quicDialer.openStreamConn    *)
(* the connection that failed, sshDialer.dial the one now in the slot.     *)
(***************************************************************************)
EXTENDS Integers, FiniteSets

CONSTANTS Caller,       \* goroutines calling Dial once each
          Conn,         \* connections that can be dialled
          Size,         \* the number of slots
          NIL

ASSUME PoolSizeAssumption == Size \in Nat \ {0} /\ NIL \notin Conn /\ "failed" \notin Conn \cup {NIL}

Slot == 0 .. Size - 1
Retries == 1

VARIABLES dialer,   \* "quic" or "ssh"
          index,    \* connPool.index
          conns,    \* connPool.conns: the connection of each slot
          has,      \* the slots whose flag has is set
          flight,   \* connPool.connGroup: who waits for the dial of each slot
          stored,   \* the connection a dial of the slot has stored and not yet returned
          reselect, \* the slots whose dial was not started by a retry
          pc,       \* where each caller is
          idx,      \* its slot
          conn,     \* its connection
          fails,    \* how often a stream failed
          box,      \* what singleflight has put in its channel
          ctxDone,  \* the callers whose context is done
          state,    \* each connection: "unused", "open", "closed"
          alive,    \* the connections whose peer still answers
          failed    \* the connections on which opening a stream failed

vars == <<dialer, index, conns, has, flight, stored, reselect, pc, idx, conn, fails, box, ctxDone, state, alive, failed>>
net == <<state, alive, failed>>
pool == <<index, conns, has>>
regs == <<idx, conn, fails>>
group == <<flight, stored, reselect>>

Goto(p, l) == pc' = [pc EXCEPT ![p] = l]

----------------------------------------------------------------------------
(* selIndex: the next slot. *)
selIndex(i) == (i + 1) % Size

(* getConn: the connection of the current slot, under the lock. *)
GetConn(p) ==
    /\ pc[p] = "idle"
    /\ idx' = [idx EXCEPT ![p] = index]
    /\ IF index \in has
       THEN /\ conn' = [conn EXCEPT ![p] = conns[index]]
            /\ index' = selIndex(index) /\ Goto(p, "stream")
       ELSE Goto(p, "join") /\ UNCHANGED <<conn, index>>
    /\ UNCHANGED <<dialer, conns, has, group, fails, box, ctxDone, net>>

(* getConnWithIndex: DoChan starts a dial or joins the running one.  Only  *)
(* the first dial of a caller reselects the index, not its retry.          *)
JoinDial(p) ==
    /\ pc[p] = "join"
    /\ flight' = [flight EXCEPT ![idx[p]] = @ \cup {p}]
    /\ reselect' = IF flight[idx[p]] = {} /\ fails[p] = 0 THEN reselect \cup {idx[p]} ELSE reselect
    /\ Goto(p, "wait")
    /\ UNCHANGED <<dialer, pool, stored, regs, box, ctxDone, net>>

(* connGroup: everybody who waits for the dial gets its result. *)
Deliver(i, r) ==
    /\ box' = [p \in Caller |-> IF p \in flight[i] THEN r ELSE box[p]]
    /\ flight' = [flight EXCEPT ![i] = {}] /\ reselect' = reselect \ {i}
    /\ stored' = [stored EXCEPT ![i] = NIL]

(* dialFn succeeds: under the lock the slot gets the connection and the    *)
(* index moves on; the group delivers it later.                            *)
DialSucceeds(i, x) ==
    /\ flight[i] # {} /\ stored[i] = NIL /\ state[x] = "unused"
    /\ state' = [state EXCEPT ![x] = "open"]
    /\ alive' = alive \cup {x}
    /\ conns' = [conns EXCEPT ![i] = x] /\ has' = has \cup {i}
    /\ index' = IF i \in reselect THEN selIndex(i) ELSE index
    /\ stored' = [stored EXCEPT ![i] = x]
    /\ UNCHANGED <<dialer, flight, reselect, pc, regs, box, ctxDone, failed>>

DialReturnsConn(i) ==
    /\ stored[i] # NIL
    /\ Deliver(i, stored[i])
    /\ UNCHANGED <<dialer, pool, pc, regs, ctxDone, net>>

(* dialFn fails: the server, the network, or the leader's context. *)
DialFails(i) ==
    /\ flight[i] # {} /\ stored[i] = NIL
    /\ Deliver(i, "failed")
    /\ UNCHANGED <<dialer, pool, pc, regs, ctxDone, net>>

(* Mutated: a caller whose dial failed dials again. *)
TakeConnRetries(p) ==
    /\ pc[p] = "wait" /\ box[p] # NIL
    /\ IF box[p] # "failed"
       THEN Goto(p, "stream") /\ conn' = [conn EXCEPT ![p] = box[p]]
       ELSE Goto(p, "join") /\ UNCHANGED conn
    /\ box' = [box EXCEPT ![p] = NIL]
    /\ UNCHANGED <<dialer, pool, group, idx, fails, ctxDone, net>>

(* The select of getConnWithIndex. *)
TakeConn(p) ==
    /\ pc[p] = "wait" /\ box[p] # NIL
    /\ IF box[p] # "failed"
       THEN Goto(p, "stream") /\ conn' = [conn EXCEPT ![p] = box[p]]
       ELSE Goto(p, "error") /\ UNCHANGED conn
    /\ box' = [box EXCEPT ![p] = NIL]
    /\ UNCHANGED <<dialer, pool, group, idx, fails, ctxDone, net>>

GiveUp(p) ==
    /\ pc[p] = "wait" /\ p \in ctxDone
    /\ Goto(p, "error")
    /\ UNCHANGED <<dialer, pool, group, regs, box, ctxDone, net>>

(* OpenStreamSync, or DialContext of the ssh client. *)
OpenStream(p) ==
    /\ pc[p] = "stream" /\ state[conn[p]] = "open" /\ conn[p] \in alive
    /\ Goto(p, "ok")
    /\ UNCHANGED <<dialer, pool, group, regs, box, ctxDone, net>>

(* It fails or times out: give up after the retry, else close and retry. *)
StreamFails(p) ==
    /\ pc[p] = "stream"
    /\ failed' = failed \cup {conn[p]}
    /\ Goto(p, IF fails[p] >= Retries THEN "error" ELSE "close")
    /\ UNCHANGED <<dialer, pool, group, regs, box, ctxDone, state, alive>>

(* The slot without its connection, and the connection closeFn closes;     *)
(* mutated, the flag stays, and the slot's connection is closed.           *)
EmptiedNot(i) == has
Emptied(i) == has \ {i}
BrokenInSlot(p) == conns[idx[p]]
Broken(p) == IF dialer = "ssh" THEN conns[idx[p]] ELSE conn[p]

(* connPool.close, with the dialer's closeFn. *)
CloseSlot(p) ==
    /\ pc[p] = "close"
    /\ has' = Emptied(idx[p])
    /\ state' = [state EXCEPT ![Broken(p)] = "closed"]
    /\ fails' = [fails EXCEPT ![p] = @ + 1]
    /\ Goto(p, "join")
    /\ UNCHANGED <<dialer, index, conns, group, idx, conn, box, ctxDone, alive, failed>>

(* The environment: contexts end, peers stop answering. *)
ContextEnds(p) ==
    /\ pc[p] \notin {"idle", "ok", "error"} /\ p \notin ctxDone
    /\ ctxDone' = ctxDone \cup {p}
    /\ UNCHANGED <<dialer, pool, group, pc, regs, box, net>>

PeerDies(x) ==
    /\ x \in alive
    /\ alive' = alive \ {x}
    /\ UNCHANGED <<dialer, pool, group, pc, regs, box, ctxDone, state, failed>>

Init ==
    /\ dialer \in {"quic", "ssh"} /\ index = 0
    /\ conns = [i \in Slot |-> NIL] /\ has = {}
    /\ flight = [i \in Slot |-> {}] /\ stored = [i \in Slot |-> NIL] /\ reselect = {}
    /\ pc = [p \in Caller |-> "idle"]
    /\ idx = [p \in Caller |-> 0] /\ conn = [p \in Caller |-> NIL]
    /\ fails = [p \in Caller |-> 0]
    /\ box = [p \in Caller |-> NIL]
    /\ ctxDone = {} /\ alive = {} /\ failed = {}
    /\ state = [x \in Conn |-> "unused"]

Step(p) == GetConn(p) \/ JoinDial(p) \/ TakeConn(p) \/ GiveUp(p)
             \/ OpenStream(p) \/ StreamFails(p) \/ CloseSlot(p)
Dial(i) == DialFails(i) \/ DialReturnsConn(i) \/ \E x \in Conn : DialSucceeds(i, x)

Next ==
    \/ \E p \in Caller : Step(p) \/ ContextEnds(p)
    \/ \E i \in Slot : Dial(i)
    \/ \E x \in Conn : PeerDies(x)

Spec == Init /\ [][Next]_vars

(* Callers are scheduled, and the context every caller dials with ends     *)
(* after 30 s (the opening of a stream and a retry after 15 s).  Nothing   *)
(* says that a dial ends: ssh.NewClientConn is given no context and no     *)
(* deadline, and a server that accepts and stays silent holds it for ever. *)
FairSpec == Spec /\ \A p \in Caller : WF_vars(Step(p)) /\ WF_vars(ContextEnds(p))

----------------------------------------------------------------------------
(* A slot that has a connection has one nobody closed: getConn never hands *)
(* out a connection closed by the caller that found it broken, whatever    *)
(* dials and closes of the slot overlap.                                   *)
SlotUsable == \A i \in has : state[conns[i]] = "open"

(* quicDialer only closes connections that failed for somebody: a caller's *)
(* retry does not take down the connection another caller has dialled for  *)
(* the slot in the meantime.                                               *)
ClosedOnlyIfFailed ==
    dialer = "quic" => \A x \in Conn : state[x] = "closed" => x \in failed

(* Every caller of Dial comes back with a stream or an error, after one    *)
(* retry and no more, and also when the dial it waits for, its own or that *)
(* of another caller, never ends.                                          *)
DialReturns == \A p \in Caller : pc[p] = "join" ~> pc[p] \in {"ok", "error"}
=============================================================================
