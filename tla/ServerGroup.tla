----------------------------- MODULE ServerGroup -----------------------------
(***************************************************************************)
(* The life of the program's servers: server.ServerGroup over the servers  *)
(* of package server (TcpServer, also under the obfs, http, socks, mixed   *)
(* and tunnel servers; QuicServer, SshServer, WsServer, GrpcServer), and   *)
(* the programs that run them: Start and Close of ss.ShadowsocksClient,    *)
(* whose servers are all TCP servers, and of ss.ShadowsocksServer, called  *)
(* by cmd/local.go and cmd/server.go from two goroutines.                  *)
(*                                                                         *)
(* ServerGroup.Start runs every Server.Start in an errgroup.  The first    *)
(* error cancels the group's context, and closeWithContextDoneErr, one per *)
(* started server, then closes its server.  Close, on an interrupt, closes *)
(* the servers one after another.                                          *)
(***************************************************************************)
EXTENDS Integers, FiniteSets

CONSTANTS N,       \* the number of servers in the group
          Tun,     \* the client runs a tun device
          Udp,     \* servers of a shadowsocks server that relay UDP as well
          MayFail  \* servers and the enhancer may fail to start

Srv == 1 .. N
ASSUME GroupAssumption ==
    N \in Nat \ {0} /\ {Tun, MayFail} \subseteq BOOLEAN /\ Udp \subseteq Srv

Kind == {"tcp", "quic", "ssh", "ws", "grpc"}    \* the obfs server is a tcp server

VARIABLES role,      \* the program: "client" or "server"
          kind,      \* the kind of each server, as configured
          main,      \* Start of the client or the server
          user,      \* its Close, once the interrupt has come
          turn,      \* the server ServerGroup.Close is at
          srv,       \* Server.Start of each server
          running,   \* the flag running of each server
          ln,        \* its listener: "none", "open", "closed", or the bare UDP socket "bound"
          peers,     \* a peer: 1 a grpc stream, or an ssh or quic handshake; 2 in QuicServer.conns
          closer,    \* closeWithContextDoneErr of each server
          cause,     \* the context: "none" (not done), "error" or "canceled"
          proxy,     \* the system proxy is set
          tun,       \* the flag running of the enhancer
          udp,       \* the UDP relay of each server: "none", "listen", "open", "ended"
          upAtClose  \* every server was up when the interrupt came

groupVars == <<role, kind, main, user, turn, srv, running, ln, peers, closer, cause, proxy, tun, udp, upAtClose>>
conf == <<role, kind>>
client == <<conf, main, proxy, tun, udp, upAtClose>>
closing == <<user, turn, closer>>

Ended == {"failed", "returned"}
(* A goroutine of the errgroup is done; mutated, as soon as it serves. *)
StoppedOrUp(s) == srv[s] \in Ended \cup {"serve"}
Stopped(s) == srv[s] \in Ended

----------------------------------------------------------------------------
(* ShadowsocksClient.Start: the enhancer, the system proxy, the servers. *)
InitEnhancer ==
    /\ main = "init" /\ role = "client"
    /\ \/ tun' = Tun /\ main' = "proxy"
       \/ MayFail /\ Tun /\ main' = "failed" /\ UNCHANGED tun
    /\ UNCHANGED <<conf, closing, srv, running, ln, peers, cause, proxy, udp, upAtClose>>

SetSystemProxy ==
    /\ main = "proxy"
    /\ proxy' = TRUE
    /\ main' = "run"
    /\ srv' = [s \in Srv |-> "listen"]
    /\ UNCHANGED <<conf, closing, running, ln, peers, cause, tun, udp, upAtClose>>

(* ShadowsocksServer.Start: the UDP relays and the servers. *)
StartServer ==
    /\ main = "init" /\ role = "server"
    /\ main' = "run"
    /\ srv' = [s \in Srv |-> "listen"]
    /\ udp' = [s \in Srv |-> IF s \in Udp THEN "listen" ELSE "none"]
    /\ UNCHANGED <<conf, closing, running, ln, peers, cause, proxy, tun, upAtClose>>

(* udpRelayer.start in a goroutine of its own: its errors are dropped, and *)
(* it relays until a read fails.                                           *)
UdpStep(s) ==
    /\ \/ udp[s] = "listen" /\ udp' = [udp EXCEPT ![s] = "open"]
       \/ udp[s] \in {"listen", "open"} /\ MayFail /\ udp' = [udp EXCEPT ![s] = "ended"]
    /\ UNCHANGED <<conf, main, proxy, tun, upAtClose, closing, srv, running, ln, peers, cause>>

(* Server.Start up to the listener; an error is the group's first or not. *)
Fail(s) ==
    /\ srv' = [srv EXCEPT ![s] = "failed"]
    /\ cause' = IF cause = "none" THEN "error" ELSE cause

(* A quic listener sits on a UDP socket of its own: the socket is opened   *)
(* first, and closing the listener leaves it open.                         *)
Fresh(s) == IF kind[s] = "quic" THEN "bound" ELSE "open"
Shut(s) == IF kind[s] = "quic" THEN "bound" ELSE "closed"

Listen(s) ==
    /\ srv[s] = "listen"
    /\ \/ ln' = [ln EXCEPT ![s] = Fresh(s)] /\ srv' = [srv EXCEPT ![s] = "config"]
          /\ UNCHANGED cause
       \/ MayFail /\ Fail(s) /\ UNCHANGED ln
    /\ UNCHANGED <<client, closing, running, peers>>

(* The TLS or ssh configuration, or quic.ListenEarly, after the socket is  *)
(* open; an error leaves the socket open.                                  *)
Configure(s) ==
    /\ srv[s] = "config"
    /\ \/ srv' = [srv EXCEPT ![s] = "store"] /\ ln' = [ln EXCEPT ![s] = "open"] /\ UNCHANGED cause
       \/ MayFail /\ kind[s] # "tcp" /\ Fail(s) /\ UNCHANGED ln
    /\ UNCHANGED <<client, closing, running, peers>>

(* s.running.Store(true); go closeWithContextDoneErr(ctx, s) *)
StoreRunning(s) ==
    /\ srv[s] = "store"
    /\ running' = [running EXCEPT ![s] = TRUE]
    /\ closer' = [closer EXCEPT ![s] = "wait"]
    /\ srv' = [srv EXCEPT ![s] = "serve"]
    /\ UNCHANGED <<client, user, turn, ln, peers, cause>>

(* The loop ends: Accept fails, of quic also because its context is done,  *)
(* and running is false; http.Server.Serve and grpc.Server.Serve return    *)
(* after Shutdown and GracefulStop.  The loop of ssh is in the handshake   *)
(* of its peer, and Serve of grpc waits for its streams.                   *)
ServeReturns(s) ==
    /\ srv[s] = "serve" /\ (kind[s] \in {"grpc", "ssh"} => peers[s] = 0)
    /\ ln[s] = Shut(s) \/ (kind[s] = "quic" /\ cause # "none")
    /\ kind[s] \in {"tcp", "quic", "ssh"} => ~running[s]
    /\ running' = [running EXCEPT ![s] = FALSE]
    /\ srv' = [srv EXCEPT ![s] = "returned"]
    /\ UNCHANGED <<client, closing, ln, peers, cause>>

(* Serve of ws and grpc returns an error of its own while nobody has shut  *)
(* it down, and has closed its listener.                                   *)
ServeFails(s) ==
    /\ srv[s] = "serve" /\ kind[s] \in {"ws", "grpc"} /\ ln[s] = "open" /\ MayFail
    /\ running' = [running EXCEPT ![s] = FALSE]
    /\ ln' = [ln EXCEPT ![s] = "closed"]
    /\ Fail(s)
    /\ UNCHANGED <<client, closing, peers>>

(* A grpc stream comes and goes; an accepted ssh connection goes through   *)
(* ssh.NewServerConn in the accept loop itself, a quic connection through  *)
(* its handshake in a goroutine of its own, which then lists it in conns,  *)
(* if need be after Close has emptied that list.                           *)
PeerComes(s) ==
    /\ kind[s] \in {"grpc", "ssh", "quic"} /\ srv[s] = "serve" /\ ln[s] = "open" /\ peers[s] = 0
    /\ peers' = [peers EXCEPT ![s] = 1]
    /\ UNCHANGED <<client, closing, srv, running, ln, cause>>

HandshakeComplete(s) ==
    /\ kind[s] = "quic" /\ peers[s] = 1
    /\ peers' = [peers EXCEPT ![s] = 2]
    /\ UNCHANGED <<client, closing, srv, running, ln, cause>>

PeerGoes(s) ==
    /\ peers[s] # 0
    /\ peers' = [peers EXCEPT ![s] = 0]
    /\ UNCHANGED <<client, closing, srv, running, ln, cause>>

(* Server.Close: test the flag, clear it, close the listener, and for grpc *)
(* wait for its streams, for quic close the connections in conns.          *)
(* CloseStep(s, a, b) moves its caller from a to b.                        *)
CloseStep(s, a, b) ==
    \/ a = "test" /\ b = (IF running[s] THEN "clear" ELSE "out") /\ UNCHANGED <<running, ln, peers>>
    \/ a = "clear" /\ b = "stop" /\ running' = [running EXCEPT ![s] = FALSE] /\ UNCHANGED <<ln, peers>>
    \/ a = "stop" /\ b = "drain" /\ ln' = [ln EXCEPT ![s] = Shut(s)] /\ UNCHANGED <<running, peers>>
    \/ /\ a = "drain" /\ b = "out" /\ (kind[s] = "grpc" => peers[s] = 0)
       /\ peers' = [peers EXCEPT ![s] = IF @ = 2 THEN 0 ELSE @]
       /\ UNCHANGED <<running, ln>>

Place == {"test", "clear", "stop", "drain", "out"}

(* Mutated: the test of the cause is inverted. *)
ContextDoneInverted(s) ==
    /\ closer[s] = "wait" /\ cause # "none"
    /\ closer' = [closer EXCEPT ![s] = IF cause = "error" THEN "out" ELSE "test"]
    /\ UNCHANGED <<client, user, turn, srv, running, ln, peers, cause>>

(* closeWithContextDoneErr: <-ctx.Done(), then close if there was an error. *)
ContextDone(s) ==
    /\ closer[s] = "wait" /\ cause # "none"
    /\ closer' = [closer EXCEPT ![s] = IF cause = "error" THEN "test" ELSE "out"]
    /\ UNCHANGED <<client, user, turn, srv, running, ln, peers, cause>>

CloserSteps(s) ==
    \E b \in Place :
        /\ CloseStep(s, closer[s], b)
        /\ closer' = [closer EXCEPT ![s] = b]
        /\ UNCHANGED <<client, user, turn, srv, cause>>

(* errgroup.Wait returns when all have; on an error the client undoes the  *)
(* proxy and the enhancer, of which a server has none.                     *)
WaitReturns ==
    /\ main = "run" /\ \A s \in Srv : Stopped(s)
    /\ IF cause = "error"
       THEN main' = "failed" /\ proxy' = FALSE /\ tun' = FALSE /\ UNCHANGED cause
       ELSE main' = "returned" /\ cause' = "canceled" /\ UNCHANGED <<proxy, tun>>
    /\ UNCHANGED <<conf, closing, srv, running, ln, peers, udp, upAtClose>>

(* The interrupt: Close of the client undoes the proxy and the enhancer,   *)
(* then ServerGroup.Close takes the servers in order.                      *)
Interrupt ==
    /\ user = "idle"
    /\ user' = IF role = "client" THEN "undo" ELSE "test"
    /\ upAtClose' = \A s \in Srv : srv[s] = "serve"
    /\ UNCHANGED <<conf, main, proxy, tun, udp, turn, closer, srv, running, ln, peers, cause>>

(* Mutated: the enhancer is left running. *)
UndoProxyOnly ==
    user = "undo" /\ proxy' = FALSE /\ user' = "test" /\ turn' = 1
    /\ UNCHANGED <<conf, main, tun, udp, upAtClose, closer, srv, running, ln, peers, cause>>

UndoProxy ==
    /\ user = "undo"
    /\ proxy' = FALSE /\ tun' = FALSE
    /\ user' = "test" /\ turn' = 1
    /\ UNCHANGED <<conf, main, udp, upAtClose, closer, srv, running, ln, peers, cause>>

(* Mutated: Close returns after the first server. *)
UserClosesFirst ==
    /\ user \in Place /\ turn <= N
    /\ \E b \in Place :
          CloseStep(turn, user, b) /\ user' = b /\ turn' = IF b = "out" THEN N + 1 ELSE turn
    /\ UNCHANGED <<client, closer, srv, cause>>

UserCloses ==
    /\ user \in Place /\ turn <= N
    /\ \E b \in Place :
          /\ CloseStep(turn, user, b)
          /\ user' = IF b = "out" /\ turn < N THEN "test" ELSE b
          /\ turn' = IF b = "out" THEN turn + 1 ELSE turn
    /\ UNCHANGED <<client, closer, srv, cause>>

GroupInit ==
    /\ \/ role = "client" /\ kind = [s \in Srv |-> "tcp"]
       \/ role = "server" /\ kind \in [Srv -> Kind]
    /\ main = "init" /\ user = "idle" /\ turn = 1 /\ cause = "none"
    /\ srv = [s \in Srv |-> "idle"] /\ running = [s \in Srv |-> FALSE]
    /\ ln = [s \in Srv |-> "none"] /\ peers = [s \in Srv |-> 0]
    /\ closer = [s \in Srv |-> "none"]
    /\ proxy = FALSE /\ tun = FALSE /\ udp = [s \in Srv |-> "none"] /\ upAtClose = FALSE

Starting(s) == Listen(s) \/ Configure(s) \/ StoreRunning(s) \/ ServeReturns(s)
Peer(s) == PeerComes(s) \/ HandshakeComplete(s) \/ PeerGoes(s)
Stopping(s) == ContextDone(s) \/ CloserSteps(s)
Client == InitEnhancer \/ SetSystemProxy \/ StartServer \/ WaitReturns
User == UndoProxy \/ UserCloses

GroupNext ==
    \/ Client \/ User \/ Interrupt
    \/ \E s \in Srv : Starting(s) \/ Stopping(s) \/ ServeFails(s) \/ UdpStep(s) \/ Peer(s)

GroupSpec == GroupInit /\ [][GroupNext]_groupVars

(* Every goroutine is scheduled.  Nothing says that a peer ever goes. *)
GroupFairSpec ==
    /\ GroupSpec
    /\ WF_groupVars(Client) /\ WF_groupVars(User)
    /\ \A s \in Srv : WF_groupVars(Starting(s)) /\ WF_groupVars(Stopping(s))

----------------------------------------------------------------------------
(* When Start has returned, no server says it runs, and no listener is     *)
(* open but one that a Close is about to close, and that of a server whose *)
(* configuration failed after the socket was open (a plain TCP server has  *)
(* none to fail).  The UDP socket under a quic listener is open for good:  *)
(* neither Close nor a failed ListenEarly closes it.                       *)
NothingLeftRunning ==
    main \in {"failed", "returned"} =>
        \A s \in Srv :
            /\ ~running[s]
            /\ ln[s] \in {"open", "bound"} =>
                  \/ srv[s] = "failed" /\ kind[s] # "tcp"
                  \/ kind[s] = "quic" /\ ln[s] = "bound"
                  \/ closer[s] = "stop" \/ (user = "stop" /\ turn = s)

(* Once Start has failed, or Close has been through all servers that were  *)
(* up, neither the system proxy nor a running enhancer is left behind.     *)
ClientUndone ==
    main = "failed" \/ (upAtClose /\ turn > N) => ~proxy /\ ~tun

(* No grpc stream and no ssh handshake stays for ever. *)
PeersGo == \A s \in Srv : []<>(kind[s] \in {"grpc", "ssh"} => peers[s] = 0)

(* closeWithContextDoneErr: when one server fails, to start or while it    *)
(* serves, every other one stops and Start returns the error, whether the  *)
(* failure comes before, between or after the other servers' own starts.   *)
FailureStopsAll == PeersGo => (cause = "error" ~> main = "failed")

(* An interrupt that comes when all servers are up stops them all, and     *)
(* Start returns: ServerGroup.Close reaches every server in its turn.      *)
CloseStopsAll == PeersGo => (upAtClose ~> main \in {"failed", "returned"})
=============================================================================
