------------------------------ MODULE Inbound ------------------------------
(***************************************************************************)
(* One accepted TCP connection from accept to close: server.Conn.serve     *)
(* calls the handler of its server, which is socks5Server, httpProxyServer, *)
(* mixedServer (it looks at the first byte and calls one of the two),      *)
(* tcpTunServer, or the serverHandler of a shadowsocks server.  The        *)
(* handler reads what its protocol wants from the client, asks the rules,  *)
(* registers a tracker, and calls the relay of module StreamRelay.         *)
(* In the interception mode it calls HandleMIMT of module Mitm instead.    *)
(*                                                                         *)
(* What the client sends is the choice of the action that reads it.        *)
(***************************************************************************)
EXTENDS Mitm

CONSTANTS Confs,            \* the servers to look at
          EnableStatistic   \* statistic.EnableStatistic

ServerKind == {"mixed", "socks", "http", "tun", "server"}

ASSUME InboundAssumption ==
    /\ Confs \subseteq [kind : ServerKind, auth : BOOLEAN, mitm : BOOLEAN]
    /\ \A c \in Confs : c.kind \in {"tun", "server"} => ~c.auth /\ ~c.mitm
    /\ EnableStatistic \in BOOLEAN

VARIABLES conf,     \* the kind of server, whether users must authenticate, and whether
                    \* connections are intercepted
          stage,    \* where the handler is
          proto,    \* the handler: a mixed server decides with the first byte
          valid,    \* Auth.Validate accepted the user
          accepted, \* Ruler.Match accepted the target
          told,     \* the last reply to the client
          tracked,  \* the tracker of the connection is in the TrackerManager
          lost      \* chunks that only the bufio.Reader of ReadRequest has seen

handler == <<conf, stage, proto, valid, accepted, told, tracked, lost>>
vars == <<handler, addons, relay>>

Return == stage' = "returned"
Tell(r) == told' = r

(* io.ReadFull, Peek or ReadRequest fails, or what was read makes no sense. *)
ReadFails ==
    /\ stage \in {"peek", "greeting", "auth", "request", "head", "address"}
    /\ Return
    /\ UNCHANGED <<conf, proto, valid, accepted, told, tracked, lost, relay>>

(* mixedServer.handleTCPConn: Peek(1); the byte stays in the BufioConn. *)
Peek ==
    /\ stage = "peek"
    /\ \/ proto' = "socks" /\ stage' = "greeting"
       \/ proto' = "http" /\ stage' = "head"
    /\ UNCHANGED <<conf, valid, accepted, told, tracked, lost, relay>>

----------------------------------------------------------------------------
(* socks5Server.handshake.  negotiate: the method is the server's choice.  *)
Greeting ==
    /\ stage = "greeting"
    /\ Tell("method")
    /\ stage' = IF conf.auth THEN "auth" ELSE "request"
    /\ UNCHANGED <<conf, proto, valid, accepted, tracked, lost, relay>>

Authenticate ==
    /\ stage = "auth"
    /\ \/ Tell("granted") /\ valid' = TRUE /\ stage' = "request"
       \/ Tell("denied") /\ Return /\ UNCHANGED valid
    /\ UNCHANGED <<conf, proto, accepted, tracked, lost, relay>>

(* request: a fake address without a record ends it without a reply, as    *)
(* does a UDP socket that cannot be opened; the rules are asked before     *)
(* the command is looked at.                                               *)
Request ==
    /\ stage = "request"
    /\ \/ Return /\ UNCHANGED <<accepted, told>>
       \/ Tell("failure") /\ Return /\ UNCHANGED accepted
       \/ /\ accepted' = TRUE
          /\ \/ Tell("success") /\ stage' \in {"select", "associate"}
             \/ Tell("failure") /\ Return
             \/ UNCHANGED told /\ Return
    /\ UNCHANGED <<conf, proto, valid, tracked, lost, relay>>

(* handleCmdUdpAssociate after its reply: Ruler.Select, a tracker, and the *)
(* packet relay, which returns at its own time: the goroutine that reads   *)
(* the TCP connection only ends itself.                                    *)
Associate ==
    /\ stage = "associate"
    /\ \/ Return /\ UNCHANGED tracked
       \/ stage' = "packets" /\ tracked' = EnableStatistic
    /\ UNCHANGED <<conf, proto, valid, accepted, told, lost, relay>>

PacketsEnd ==
    /\ stage = "packets" /\ Return /\ tracked' = FALSE
    /\ UNCHANGED <<conf, proto, valid, accepted, told, lost, relay>>

----------------------------------------------------------------------------
(* ReadRequest of the HTTP server.  The bufio.Reader may take chunks that  *)
(* came with the request and is dropped with them.                         *)
ReadAhead ==
    \E n \in 0 .. sent["up"] :
        /\ lost' = n
        /\ read' = [read EXCEPT !["up"] = n]

(* Mutated: the tunnel is reported before the user was looked at. *)
readRequestEarly ==
    /\ stage = "head" /\ ReadAhead
    /\ accepted' = TRUE /\ Tell("success")
    /\ \/ valid' = conf.auth /\ stage' = "select"
       \/ Return /\ UNCHANGED valid
    /\ UNCHANGED <<conf, proto, tracked, main, next, dial, src, copier, errs, sent, written, eof, rbuf>>

(* readRequest: a request to the proxy itself is answered and ends here;   *)
(* a target the rules reject (an intercepting server does not ask them)    *)
(* and credentials that do not decode end it without an answer; a wrong    *)
(* user is told so.  CONNECT is answered at once, any other request is     *)
(* written to a buffer in front of the connection, or kept for HandleMIMT. *)
readRequest ==
    /\ stage = "head" /\ ReadAhead
    /\ \/ /\ \/ Tell("home") /\ UNCHANGED accepted
             \/ UNCHANGED <<told, accepted>>
             \/ accepted' = ~conf.mitm /\ UNCHANGED told
             \/ conf.auth /\ accepted' = ~conf.mitm /\ Tell("denied")
          /\ Return /\ UNCHANGED <<valid, sent, rbuf>>
       \/ /\ accepted' = ~conf.mitm /\ valid' = conf.auth /\ stage' = "select"
          /\ \/ Tell("success") /\ UNCHANGED <<sent, rbuf>>
             \/ conf.mitm /\ UNCHANGED <<told, sent, rbuf>>
             \/ /\ ~conf.mitm
                /\ rbuf' = "request" /\ sent' = [sent EXCEPT !["up"] = @ + 1]
                /\ UNCHANGED told
    /\ UNCHANGED <<conf, proto, tracked, main, next, dial, src, copier, errs, written, eof>>

----------------------------------------------------------------------------
(* tcpTunServer.ServeTCP: the rules accept the configured target, or not. *)
Tunnel ==
    /\ stage = "tun"
    /\ \/ Return /\ UNCHANGED accepted
       \/ stage' = "select" /\ accepted' = TRUE
    /\ UNCHANGED <<conf, proto, valid, told, tracked, lost, relay>>

(* Ruler.Select, the tracker, and Selector.Select(proxy).Invoke. *)
SelectFails ==
    /\ stage = "select" /\ ~conf.mitm /\ Return
    /\ UNCHANGED <<conf, proto, valid, accepted, told, tracked, lost, relay>>

Select ==
    /\ stage = "select" /\ ~conf.mitm /\ stage' = "relay"
    /\ tracked' = EnableStatistic
    /\ \E then \in {"copy", "header"} : StartDial(then)
    /\ UNCHANGED <<conf, proto, valid, accepted, told, lost, flow>>

(* The intercepting server's handler. *)
Intercept ==
    /\ stage = "select" /\ conf.mitm /\ stage' = "relay"
    /\ HandleMITM(told = "success")
    /\ UNCHANGED <<conf, proto, valid, accepted, told, tracked, lost, flow>>

(* ProxyTCPRelayer.RelayToServer of the shadowsocks server: the address in *)
(* front of the stream is dialled.                                         *)
Address ==
    /\ stage = "address" /\ stage' = "relay"
    /\ StartDial("copy")
    /\ UNCHANGED <<conf, proto, valid, accepted, told, tracked, lost, flow>>

(* tcpTracker.Close removes the tracker and closes the connection. *)
Closes ==
    /\ RelayCloses
    /\ tracked' = (tracked /\ main # "close src")
    /\ UNCHANGED <<conf, stage, proto, valid, accepted, told, lost>>

(* The deferred calls of the handler: the tracker is removed (not by the   *)
(* HTTP server), the buffer is emptied and goes back to the pool.          *)
(* Mutated: the removal is forgotten.                                      *)
RemainingAll == tracked
Remaining == tracked /\ proto = "http"

HandlerReturns ==
    /\ stage = "relay" /\ main \in {"returned", "error"}
    /\ Return /\ tracked' = Remaining
    /\ rbuf' = IF rbuf = "request" THEN "drained" ELSE rbuf
    /\ UNCHANGED <<conf, proto, valid, accepted, told, lost>>
    /\ UNCHANGED <<main, next, dial, src, copier, errs, sent, read, written, eof>>

(* Another connection takes the buffer from the pool while the copying     *)
(* goroutine of this one has not yet seen its end.                         *)
BufferReused ==
    /\ stage \in {"returned", "closed"} /\ rbuf = "drained" /\ rbuf' = "other"
    /\ UNCHANGED <<handler, main, next, dial, src, copier, errs, sent, read, written, eof>>

(* Mutated: serve leaves the connection to its handler. *)
ServeLeaves ==
    /\ stage = "returned" /\ stage' = "closed"
    /\ UNCHANGED <<conf, proto, valid, accepted, told, tracked, lost, relay>>

(* The deferred function of serve; onceCloseConn ignores a second Close.   *)
ServeCloses ==
    /\ stage = "returned" /\ stage' = "closed"
    /\ src' = "closed"
    /\ UNCHANGED <<conf, proto, valid, accepted, told, tracked, lost>>
    /\ UNCHANGED <<main, next, dial, copier, errs, flow>>

----------------------------------------------------------------------------
First(kind) ==
    CASE kind = "mixed" -> "peek" [] kind = "socks" -> "greeting" [] kind = "http" -> "head"
      [] kind = "tun" -> "tun" [] kind = "server" -> "address"

Init ==
    /\ RelayInit
    /\ conf \in Confs
    /\ addons = <<>>
    /\ stage = First(conf.kind) /\ proto = conf.kind
    /\ valid = FALSE /\ accepted = FALSE /\ told = "none" /\ tracked = FALSE /\ lost = 0

Reading == ReadFails \/ Peek \/ Greeting \/ Authenticate \/ Request \/ readRequest \/ Address
Handling == Associate \/ Tunnel \/ SelectFails \/ Select \/ Intercept \/ HandlerReturns \/ ServeCloses
Relaying == SendAddress \/ RelayReceives

(* Of an interception only the websocket messages are counted. *)
Peers == \E d \in Dir : ((conf.mitm => next = "ws") /\ PeerSends(d)) \/ PeerFinishes(d)

Next ==
    \/ (Reading \/ Handling \/ PacketsEnd \/ Closes \/ BufferReused) /\ UNCHANGED addons
    \/ /\ \/ \E f \in Racer : Dialing(f)
          \/ \E d \in Dir : Copying(d) \/ CopyBreaks(d)
          \/ Relaying \/ Peers
       /\ UNCHANGED <<handler, addons>>
    \/ Intercepting /\ UNCHANGED handler

Spec == Init /\ [][Next]_vars

(* Goroutines are scheduled, and a dial ends, for it runs with a deadline; *)
(* not the dial of an interception, which may go through a SOCKS5 proxy.   *)
(* A read of the handshake ends when the client has finished, or the       *)
(* server, where it is the one read from.  The short replies of the        *)
(* handshake find an empty send buffer.  Other writes have no deadline:    *)
(* one to a connection that stays open may block for ever.  The peers need *)
(* not do anything, and a packet relay need not end.                       *)
Serving ==
    /\ main \notin {"header", "write"}
    /\ \/ (("client" \in eof /\ Reading) \/ Handling \/ Closes) /\ UNCHANGED addons
       \/ Relaying /\ UNCHANGED <<handler, addons>>
       \/ /\ \/ Onward
             \/ "client" \in eof /\ FromClient
             \/ "server" \in eof /\ FromServer
          /\ UNCHANGED handler

DialsOn(f) == Dialing(f) /\ (racer[f] = "dialing" => ~conf.mitm)
CopiesOn(d) == (Copying(d) \/ Pumping(d)) /\ (copier[d] = "write" => ~OutboundOpen(d))

FairSpec ==
    /\ Spec
    /\ WF_vars(Serving)
    /\ \A f \in Racer : WF_vars(DialsOn(f) /\ UNCHANGED <<handler, addons>>)
    /\ \A d \in Dir : WF_vars(CopiesOn(d) /\ UNCHANGED <<handler, addons>>)

----------------------------------------------------------------------------
(* Nobody is told success, relayed or given a UDP association unless the   *)
(* rules accepted the target and, where users must authenticate, the user  *)
(* was validated: socks.go and http.go check in different orders, and a    *)
(* mixed server reaches both (and checks users, though the comment at      *)
(* mixed.go:19 says otherwise).  An intercepting HTTP server skips the     *)
(* rules.                                                                  *)
(* Whoever was refused is not relayed, and no request goes out or response *)
(* comes back that an addon rejects which no addon before it cut off.      *)
AdmittedOnly ==
    /\ told = "success" \/ stage \in {"select", "associate", "packets", "relay"} =>
          \/ proto = "server"
          \/ (accepted \/ (conf.mitm /\ proto = "http")) /\ (conf.auth => valid)
    /\ told \in {"denied", "failure", "home"} => main = "idle"
    /\ main \in {"round trip", "answer", "write"} =>
          \A i \in DOMAIN addons : addons[i] \in {"reject", "late"} =>
             \E j \in 1 .. (i - 1) : addons[j] \in {"abort", "reject"}

(* An outbound connection outlives its handler in two cases only: the      *)
(* address for a proxy does not parse (relay/tcp.go), and a TLS handshake  *)
(* failed after the dial of the interception (proxy/mitm.go).              *)
OutboundClosed ==
    stage \in {"returned", "closed"} /\ Dst = "open" =>
        main = "error" /\ next \in {"copy", "tls up"}

(* A direction that ended with the peer's end of file has carried over all *)
(* the peer had sent, also when the other direction ended at the same time *)
(* (but for what ReadRequest of the HTTP server had already buffered).     *)
EofIsComplete ==
    \A d \in Dir : copier[d] = "eof" =>
        written[d] + (IF d = "up" THEN lost ELSE 0) = sent[d]

(* No tracker outlives its handler, whichever way the handler ends; the    *)
(* one exception is an HTTP connection whose relay failed before it copied: *)
(* there the removal is left to a Close that nobody calls.                 *)
TrackerGone ==
    stage \in {"returned", "closed"} /\ tracked => proto = "http" /\ main = "error"

(* The buffer of a plain HTTP request goes back to the pool while the      *)
(* copying goroutine may still read it.  What it reads then belongs to     *)
(* another connection, but the outbound connection is closed by that time, *)
(* so another client's request is never sent to this one's server.         *)
NoStrayRequest == copier["up"] = "write other" => Dst = "closed"

(* No dial, write, handshake or answer of the other side is waited for     *)
(* for ever.                                                               *)
NobodyBlocks ==
    /\ []<>(main \notin {"dial", "header", "tls up", "round trip", "write", "ws dial"})
    /\ \A d \in Dir : []<>(copier[d] # "write")

(* A client that has finished sending frees its connection, wherever the   *)
(* handler is, unless the other side holds the handler up: nothing else is *)
(* waited for.  Only a UDP association lives on.                           *)
ClientGone == NobodyBlocks => ("client" \in eof ~> src = "closed" \/ stage = "packets")
=============================================================================
