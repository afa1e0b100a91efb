------------------------------- MODULE UdpNat -------------------------------
(***************************************************************************)
(* relay.NatmapUDPRelayer.relayUDP: the UDP relay of the shadowsocks       *)
(* server (RelayToServer, where each datagram names its target) and of a   *)
(* tunnel to one target (DirectRelayToServer).  The main loop reads the    *)
(* datagrams of all sources from one inbound socket and gives each source  *)
(* an outbound socket, kept in the map cache under the source's address.   *)
(* Each outbound socket has a goroutine (handleDstToRelayer) that relays   *)
(* the replies and, after an idle timeout or an error, closes the socket   *)
(* and removes it from the map.                                            *)
(*                                                                         *)
(* One relayUDP runs per relayer.  The map is read and written under the   *)
(* relayer's lock; the steps between two critical sections interleave.     *)
(***************************************************************************)
EXTENDS Integers, FiniteSets

CONSTANTS Source,   \* client addresses
          Peer,     \* server addresses
          Target,   \* targets of the datagrams (one of them for the UDP tunnel)
          Sock,     \* outbound sockets
          NIL

ASSUME NatAssumption == Target \subseteq Peer /\ NIL \notin Sock

VARIABLES pc,      \* where the main loop is
          cur,     \* its locals: srcAddr, targetAddr, dstConn
          cache,   \* the map, from sources to sockets
          open,    \* the open sockets
          sock,    \* each socket: whose is it, its handler's target
          hpc,     \* where each socket's handler is
          conns,   \* the sockets the deferred function has still to close
          got,     \* the remotes whose datagrams reached each source
          addressed \* the targets of the datagrams of each source

natVars == <<pc, cur, cache, open, sock, hpc, conns, got, addressed>>
ghost == <<got, addressed>>

NoCur == [src |-> NIL, target |-> NIL, dst |-> NIL]
Free == { s \in Sock \ open : hpc[s] = "none" }

----------------------------------------------------------------------------
(* conn.ReadFrom, udpReadFromSrc and the lookup under the read lock. *)
ReadDatagram(a, t) ==
    /\ pc = "read"
    /\ cur' = [src |-> a, target |-> t, dst |-> cache[a]]
    /\ addressed' = [addressed EXCEPT ![a] = @ \cup {t}]
    /\ pc' = IF cache[a] = NIL THEN "listen" ELSE "send"
    /\ UNCHANGED <<cache, open, sock, hpc, conns, got>>

(* transport.ListenLocalUDP: a new socket, or an error and the next datagram. *)
ListenLocalUDP(s) ==
    /\ pc = "listen" /\ s \in Free
    /\ open' = open \cup {s}
    /\ sock' = [sock EXCEPT ![s] = [src |-> cur.src, target |-> cur.target]]
    /\ cur' = [src |-> cur.src, target |-> cur.target, dst |-> s]
    /\ pc' = "store"
    /\ UNCHANGED <<cache, hpc, conns, got, addressed>>

ListenFails ==
    /\ pc = "listen"
    /\ pc' = "read" /\ cur' = NoCur
    /\ UNCHANGED <<cache, open, sock, hpc, conns, ghost>>

(* The map entry under the lock, and the start of the handler. *)
StoreConn ==
    /\ pc = "store"
    /\ cache' = [cache EXCEPT ![cur.src] = cur.dst]
    /\ hpc' = [hpc EXCEPT ![cur.dst] = "read"]
    /\ pc' = "send"
    /\ UNCHANGED <<cur, open, sock, conns, ghost>>

(* dstConn.WriteTo: lost, without notice, when the handler closed the socket. *)
SendDatagram ==
    /\ pc = "send"
    /\ pc' = "read" /\ cur' = NoCur
    /\ UNCHANGED <<cache, open, sock, hpc, conns, got, addressed>>

(* Mutated: no socket is collected. *)
ReadFailsForgets ==
    pc = "read" /\ conns' = {} /\ pc' = "close all" /\ UNCHANGED <<cur, cache, open, sock, hpc, ghost>>

(* The inbound socket fails or is closed: the deferred function collects   *)
(* the sockets of the map, then closes them one by one.                    *)
ReadFails ==
    /\ pc = "read"
    /\ conns' = { cache[a] : a \in Source } \ {NIL}
    /\ pc' = "close all"
    /\ UNCHANGED <<cur, cache, open, sock, hpc, ghost>>

CloseConn(s) ==
    /\ pc = "close all" /\ s \in conns
    /\ conns' = conns \ {s}
    /\ open' = open \ {s}
    /\ UNCHANGED <<pc, cur, cache, sock, hpc, ghost>>

RelayReturns ==
    /\ pc = "close all" /\ conns = {}
    /\ pc' = "done"
    /\ UNCHANGED <<cur, cache, open, sock, hpc, conns, ghost>>

(* Mutated: the sender is not compared with the target. *)
HandlerReadAny(s, r) ==
    /\ hpc[s] = "read" /\ s \in open
    /\ got' = [got EXCEPT ![sock[s].src] = @ \cup {r}]
    /\ UNCHANGED <<pc, cur, cache, open, sock, hpc, conns, addressed>>

(* handleDstToRelayer: a datagram from the handler's target is relayed;    *)
(* those of other remotes are filtered out.                                *)
HandlerRead(s, r) ==
    /\ hpc[s] = "read" /\ s \in open
    /\ r = sock[s].target
    /\ got' = [got EXCEPT ![sock[s].src] = @ \cup {r}]
    /\ UNCHANGED <<pc, cur, cache, open, sock, hpc, conns, addressed>>

(* Mutated: the socket is not closed before the entry goes. *)
HandlerFailsOpen(s) ==
    hpc[s] = "read" /\ hpc' = [hpc EXCEPT ![s] = "delete"]
    /\ UNCHANGED <<pc, cur, cache, open, sock, conns, ghost>>

(* Its read fails (30 seconds of silence, or the socket is closed): it     *)
(* closes the socket, and in a second step removes the map entry.          *)
HandlerFails(s) ==
    /\ hpc[s] = "read"
    /\ open' = open \ {s}
    /\ hpc' = [hpc EXCEPT ![s] = "delete"]
    /\ UNCHANGED <<pc, cur, cache, sock, conns, ghost>>

HandlerDeletes(s) ==
    /\ hpc[s] = "delete"
    /\ cache' = [cache EXCEPT ![sock[s].src] = NIL]
    /\ hpc' = [hpc EXCEPT ![s] = "none"]
    /\ UNCHANGED <<pc, cur, open, sock, conns, ghost>>

NatInit ==
    /\ pc = "read" /\ cur = NoCur /\ conns = {} /\ open = {}
    /\ cache = [a \in Source |-> NIL]
    /\ sock = [s \in Sock |-> [src |-> NIL, target |-> NIL]]
    /\ hpc = [s \in Sock |-> "none"]
    /\ got = [a \in Source |-> {}] /\ addressed = [a \in Source |-> {}]

Main ==
    \/ \E a \in Source, t \in Target : ReadDatagram(a, t)
    \/ \E s \in Sock : ListenLocalUDP(s) \/ CloseConn(s)
    \/ ListenFails \/ StoreConn \/ SendDatagram \/ ReadFails \/ RelayReturns

Handler(s) == HandlerFails(s) \/ HandlerDeletes(s) \/ \E r \in Peer : HandlerRead(s, r)

NatNext == Main \/ \E s \in Sock : Handler(s)

NatSpec == NatInit /\ [][NatNext]_natVars

(* Both kinds of goroutine are scheduled, and a handler whose socket is    *)
(* closed gets an error from its next read.                                *)
NatFairSpec ==
    /\ NatSpec
    /\ WF_natVars(RelayReturns \/ \E s \in Sock : CloseConn(s))
    /\ \A s \in Sock : WF_natVars(s \notin open /\ HandlerFails(s)) /\ WF_natVars(HandlerDeletes(s))

----------------------------------------------------------------------------
(* The map is exactly the running handlers: each has the entry of its own  *)
(* source, so the delete at its end never removes the socket of another,   *)
(* and no entry outlives its handler.  An open socket is in the map, or    *)
(* the main loop is about to store it: a handler closes its socket before  *)
(* it removes the entry, so the deferred function of relayUDP finds every  *)
(* open socket.                                                            *)
CacheIsHandlers ==
    /\ \A a \in Source, s \in Sock :
          cache[a] = s <=> hpc[s] # "none" /\ sock[s].src = a
    /\ \A s \in Sock : s \in open =>
          cache[sock[s].src] = s \/ (pc = "store" /\ cur.dst = s)

(* A source only hears from a remote it has itself addressed (the filter   *)
(* of handleDstToRelayer), also when its socket belonged to another source *)
(* before.                                                                 *)
OnlySolicited == \A a \in Source : got[a] \subseteq addressed[a]

(* relayUDP, on its way out: "close all packet conns".  Once it has        *)
(* returned, every outbound socket is closed and its entry removed.        *)
AllConnsClosed ==
    pc = "close all" ~> pc = "done" /\ \A s \in Sock : s \notin open /\ hpc[s] = "none"
=============================================================================
