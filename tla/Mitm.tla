-------------------------------- MODULE Mitm --------------------------------
(***************************************************************************)
(* proxy/mitm.go with proxy-addons: the interception of one connection.    *)
(* The handler dials the target (StreamRelay's dial), for TLS inside the   *)
(* handshake with the client, reads one HTTP request, and either passes it *)
(* on and its response back, or upgrades both sides to websockets and      *)
(* pumps messages until one side ends.  Addons see every request, response *)
(* and message and may reject it.                                          *)
(*                                                                         *)
(* `main` says where the handler is.  What the client and the server send  *)
(* is the choice of the action that reads it.                              *)
(***************************************************************************)
EXTENDS StreamRelay, Sequences

CONSTANTS Chains,       \* the chains of addons to look at
          AbortIndex    \* abortIndex, 63 in the code

(* An addon leaves the chain alone, aborts it, rejects the flow, or calls  *)
(* Next and rejects afterwards.                                            *)
Addon == {"pass", "abort", "reject", "late"}

(* In a longer chain the index that stops it would be one of the chain. *)
ASSUME MitmAssumption ==
    AbortIndex \in Nat /\ \A chain \in Chains : chain \in Seq(Addon) /\ Len(chain) <= AbortIndex + 1

VARIABLE addons     \* what the addons do to the request or response last seen
----------------------------------------------------------------------------
(* contextT.next and abort: the addons that run, where i is the index,     *)
(* counted from 0.  A nested Next runs the rest of the chain, so the loop  *)
(* around it finds the index at the end.                                   *)
Ran(chain) ==
    LET From[i \in 0 .. AbortIndex + 1] ==
            IF i >= Len(chain) THEN {}
            ELSE {i + 1} \cup From[1 + IF chain[i + 1] \in {"abort", "reject"} THEN AbortIndex ELSE i]
    IN From[0]

(* Context.error after Next. *)
Rejected(chain) == \E i \in Ran(chain) : chain[i] \in {"reject", "late"}

----------------------------------------------------------------------------
Goto(from, to) ==
    main = from /\ main' \in to /\ UNCHANGED <<next, dial, src, copier, errs, flow, addons>>

(* HandleMIMT: a plain request is dialled for at once. *)
HandleMITM(connect) ==
    /\ main = "idle"
    /\ IF connect THEN main' = "peek" /\ UNCHANGED <<next, dial, src, copier, errs>>
       ELSE StartDial("addons")

(* handleConnectMethodRequestAndResponse: the first bytes tell TLS, whose  *)
(* ClientHello leads to the dial in GetConfigForClient (useProxyDial, to   *)
(* the target or a SOCKS5 proxy), from anything else.                      *)
Peeks ==
    \/ main = "peek" /\ StartDial("tls up") /\ UNCHANGED <<flow, addons>>
    \/ main = "peek" /\ StartDial("request") /\ UNCHANGED <<flow, addons>>
    \/ Goto("peek", {"error"})

(* getServerResponseCert after the dial: the handshake with the server, and *)
(* a certificate for the client, from the pool or a new one.               *)
getServerResponseCert == Goto("tls up", {"tls down", "error"})

(* tlsServerConn.Handshake ends; only now is the deferred close in place.  *)
ClientHandshake == Goto("tls down", {"request", "error"})

readHTTPRequestForConnect == Goto("request", {"addons", "upgrade", "mitm close"})

(* The chain runs, and what it does not reject goes on. *)
RunChain(from, to) ==
    /\ main = from /\ addons' \in Chains
    /\ main' = IF Rejected(addons') THEN "mitm close" ELSE to
    /\ UNCHANGED <<next, dial, src, copier, errs, flow>>

(* MutableHTTPInterceptor: the chain for the request and a copy of it,     *)
(* which may fail; the round trip; the chain for the response.  What is    *)
(* rejected or fails gets no response.                                     *)
RequestAddons == RunChain("addons", "round trip") \/ Goto("addons", {"mitm close"})
RoundTrip == Goto("round trip", {"answer", "mitm close"})
ResponseAddons == RunChain("answer", "write")
WriteResponse == Goto("write", {"mitm close"})

(* handleCommonWSRequstAndResponse: the client is told 101 before the      *)
(* server is asked.                                                        *)
Upgrade == Goto("upgrade", {"ws dial", "mitm close"})
WsDial ==
    \/ Goto("ws dial", {"mitm close"})
    \/ /\ main = "ws dial" /\ main' = "ws" /\ next' = "ws"
       /\ UNCHANGED <<dial, src, copier, errs, flow, addons>>

(* The two goroutines: a message is read; its chain may reject it; the     *)
(* error of a write is ignored, and only a read that fails ends the loop.  *)
WsReads(d) ==
    /\ next = "ws" /\ copier[d] = "read" /\ InboundOpen(d) /\ read[d] < sent[d]
    /\ read' = [read EXCEPT ![d] = @ + 1]
    /\ copier' = [copier EXCEPT ![d] = "write"]
    /\ UNCHANGED <<main, next, dial, src, errs, sent, written, eof, rbuf>>

WsWrites(d) ==
    /\ next = "ws" /\ copier[d] = "write"
    /\ \/ \E chain \in Chains : Rejected(chain) /\ UNCHANGED written
       \/ /\ \E chain \in Chains : ~Rejected(chain)
          /\ written' = IF OutboundOpen(d) THEN [written EXCEPT ![d] = @ + 1] ELSE written
    /\ copier' = [copier EXCEPT ![d] = "read"]
    /\ UNCHANGED <<main, next, dial, src, errs, sent, read, eof, rbuf>>

WsEnds(d) ==
    /\ next = "ws" /\ copier[d] = "read"
    /\ ~InboundOpen(d) \/ (Peer(d) \in eof /\ read[d] = sent[d])
    /\ Finish(d, "failed")

WsBreaks(d) == next = "ws" /\ copier[d] = "read" /\ Finish(d, "failed")

WsReceives ==
    /\ main = "ws" /\ errs > 0 /\ errs' = errs - 1 /\ main' = "mitm close"
    /\ UNCHANGED <<next, dial, src, copier, flow, addons>>

(* Mutated: only the websocket path closes the connection. *)
MitmClosesWs ==
    /\ main = "mitm close" /\ main' = "returned" /\ addons' = <<>>
    /\ result' = [result EXCEPT ![winner] = IF next = "ws" THEN "closed" ELSE @]
    /\ UNCHANGED <<next, racer, failed, winner, src, copier, errs, flow>>

(* defer clientConn.Close(), or dstConn.Close() in HandleMIMT. *)
MitmCloses ==
    /\ main = "mitm close" /\ main' = "returned" /\ addons' = <<>>
    /\ result' = [result EXCEPT ![winner] = "closed"]
    /\ UNCHANGED <<next, racer, failed, winner, src, copier, errs, flow>>

(* Steps that wait for the client, for the server, and for nobody. *)
FromClient == Peeks \/ ClientHandshake \/ readHTTPRequestForConnect
FromServer == getServerResponseCert \/ RoundTrip \/ WsDial
Onward == RequestAddons \/ ResponseAddons \/ WriteResponse \/ Upgrade \/ WsReceives \/ MitmCloses
Pumping(d) == WsReads(d) \/ WsWrites(d) \/ WsEnds(d)

Intercepting ==
    \/ FromClient \/ FromServer \/ Onward
    \/ \E d \in Dir : (Pumping(d) \/ WsBreaks(d)) /\ UNCHANGED addons
=============================================================================
