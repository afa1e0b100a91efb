----------------------------- MODULE StreamRelay -----------------------------
(***************************************************************************)
(* The relay of one TCP connection: TCPDirectRelayer.RelayToServer and     *)
(* ProxyTCPRelayer.RelayToProxyServer / RelayToServer.  The relay dials    *)
(* the other side, with an outbound interface over IPv4 and IPv6 at once   *)
(* (tcpDialer.dualStackDialContext); a client-side proxy relay sends the   *)
(* remote address first; then two goroutines copy, one each way            *)
(* (IoCopyBidirectionalForStream), and the first to finish ends the relay. *)
(*                                                                         *)
(* The streams are counted in chunks of at most MaxChunks each way.  The   *)
(* handler that calls the relay is in module Inbound; for a plain HTTP     *)
(* request it passes a ConnWithReader, which reads a buffer of the pool    *)
(* with the request first and then the connection.                         *)
(***************************************************************************)
EXTENDS Integers, FiniteSets

CONSTANTS DualStack,  \* TRUE when an outbound interface is configured
          MaxChunks   \* chunks each peer may send

ASSUME RelayAssumption == DualStack \in BOOLEAN /\ MaxChunks \in Nat

Racer == IF DualStack THEN {"tcp4", "tcp6"} ELSE {"tcp"}
Dir == {"up", "down"}    \* client to server, server to client
Peer(d) == IF d = "up" THEN "client" ELSE "server"

VARIABLES main,     \* the relay function
          next,     \* what the dial is followed by: "copy"; "header", the address for
                    \* a proxy; a step of the interception (module Mitm), later "ws"
          racer,    \* the goroutines of the dial
          result,   \* what each of them has: "none", "error" or a connection's state
          failed,   \* the results with an error the dial has received
          winner,   \* the racer whose connection is the outbound one
          src,      \* the inbound connection: "open" or "closed"
          copier,   \* the two goroutines that copy
          errs,     \* the number of results in errCh
          sent, read, written,  \* chunks sent by the peer, read and written, each way
          eof,      \* the peers that have finished sending
          rbuf      \* the buffer in front of the inbound connection, while it is read:
                    \* it holds the "request", is "drained", or holds data of an "other"

dial == <<racer, result, failed, winner>>
flow == <<sent, read, written, eof, rbuf>>
relay == <<main, next, dial, src, copier, errs, flow>>

NoWinner == "none"
Dst == IF winner = NoWinner THEN "none" ELSE result[winner]
InboundOpen(d) == IF d = "up" THEN src = "open" ELSE Dst = "open"
Started == next = "copy" /\ main \notin {"dial", "error"}
OutboundOpen(d) == IF d = "up" THEN Dst = "open" ELSE src = "open"

----------------------------------------------------------------------------
(* DialTCP is called. *)
StartDial(then) ==
    /\ main' = "dial" /\ next' = then
    /\ racer' = [f \in Racer |-> "dialing"]
    /\ UNCHANGED <<result, failed, winner, src, copier, errs>>

(* startRacer: dialSingle returns a connection or an error. *)
RacerDials(f) ==
    /\ racer[f] = "dialing"
    /\ \E r \in {"open", "error"} : result' = [result EXCEPT ![f] = r]
    /\ racer' = [racer EXCEPT ![f] = "send"]
    /\ UNCHANGED <<main, next, failed, winner, src, copier, errs, flow>>

(* results <- result, taken by the loop of dualStackDialContext: the first *)
(* connection is returned, an error only when both have failed.            *)
DialReceives(f) ==
    /\ main = "dial" /\ racer[f] = "send"
    /\ racer' = [racer EXCEPT ![f] = "done"]
    /\ IF result[f] = "open"
       THEN winner' = f /\ main' = next /\ UNCHANGED failed
       ELSE /\ failed' = failed \cup {f}
            /\ main' = IF failed' = Racer THEN "error" ELSE "dial"
            /\ UNCHANGED winner
    /\ UNCHANGED <<next, result, src, copier, errs, flow>>

(* Mutated: the late connection is not closed. *)
RacerLateLeaks(f) ==
    main # "dial" /\ racer[f] = "send" /\ racer' = [racer EXCEPT ![f] = "done"]
    /\ UNCHANGED <<main, next, result, failed, winner, src, copier, errs, flow>>

(* case <-returned: too late, the connection is closed again. *)
RacerLate(f) ==
    /\ main # "dial" /\ racer[f] = "send"
    /\ racer' = [racer EXCEPT ![f] = "done"]
    /\ result' = [result EXCEPT ![f] = IF @ = "open" THEN "closed" ELSE @]
    /\ UNCHANGED <<main, next, failed, winner, src, copier, errs, flow>>

(* ParseAddress of the remote address, whose failure ends the relay, and   *)
(* dstConn.Write of it, whose error is ignored.                            *)
SendAddress ==
    /\ main = "header"
    /\ main' \in {"copy", "error"} /\ next' = "copy"
    /\ UNCHANGED <<dial, src, copier, errs, flow>>

(* The peers send, and finish sending. *)
Connected(d) == d = "down" => winner # NoWinner

PeerSends(d) ==
    /\ sent[d] < MaxChunks /\ Peer(d) \notin eof /\ Connected(d)
    /\ sent' = [sent EXCEPT ![d] = @ + 1]
    /\ UNCHANGED <<main, next, dial, src, copier, errs, read, written, eof, rbuf>>

PeerFinishes(d) ==
    /\ Peer(d) \notin eof /\ Connected(d)
    /\ eof' = eof \cup {Peer(d)}
    /\ UNCHANGED <<main, next, dial, src, copier, errs, sent, read, written, rbuf>>

(* io.CopyBuffer: read a chunk, then write it.  The chunk may come from    *)
(* the buffer in front, whether or not the connection is open.             *)
AtConn(d) == d = "up" => rbuf = "none"

CopyReads(d) ==
    /\ Started /\ copier[d] = "read" /\ AtConn(d) /\ InboundOpen(d) /\ read[d] < sent[d]
    /\ read' = [read EXCEPT ![d] = @ + 1]
    /\ copier' = [copier EXCEPT ![d] = "write"]
    /\ UNCHANGED <<main, next, dial, src, errs, sent, written, eof, rbuf>>

CopyReadsBuffer ==
    /\ Started /\ copier["up"] = "read"
    /\ \/ /\ rbuf = "request" /\ rbuf' = "drained"
          /\ read' = [read EXCEPT !["up"] = @ + 1]
          /\ copier' = [copier EXCEPT !["up"] = "write"]
       \/ /\ rbuf = "other" /\ rbuf' = "drained"
          /\ copier' = [copier EXCEPT !["up"] = "write other"] /\ UNCHANGED read
       \/ rbuf = "drained" /\ rbuf' = "none" /\ UNCHANGED <<read, copier>>
    /\ UNCHANGED <<main, next, dial, src, errs, sent, written, eof>>

CopyWrites(d) ==
    /\ Started /\ copier[d] = "write" /\ OutboundOpen(d)
    /\ written' = [written EXCEPT ![d] = @ + 1]
    /\ copier' = [copier EXCEPT ![d] = "read"]
    /\ UNCHANGED <<main, next, dial, src, errs, sent, read, eof, rbuf>>

(* The copy ends: the peer finished, or one of the connections is closed. *)
Finish(d, how) ==
    /\ copier' = [copier EXCEPT ![d] = how]
    /\ errs' = errs + 1
    /\ UNCHANGED <<main, next, dial, src, flow>>

(* Mutated: the end of the stream is taken before the data in front of it. *)
CopyEndsEarly(d) ==
    /\ Started /\ copier[d] = "read" /\ AtConn(d)
    /\ \/ InboundOpen(d) /\ Peer(d) \in eof /\ Finish(d, "eof")
       \/ ~InboundOpen(d) /\ Finish(d, "failed")

CopyEnds(d) ==
    /\ Started
    /\ \/ /\ copier[d] = "read" /\ AtConn(d) /\ InboundOpen(d)
          /\ Peer(d) \in eof /\ read[d] = sent[d]
          /\ Finish(d, "eof")
       \/ copier[d] = "read" /\ AtConn(d) /\ ~InboundOpen(d) /\ Finish(d, "failed")
       \/ copier[d] \in {"write", "write other"} /\ ~OutboundOpen(d) /\ Finish(d, "failed")

(* A connection is reset by its peer. *)
CopyBreaks(d) ==
    Started /\ copier[d] \in {"read", "write"} /\ (copier[d] = "read" => AtConn(d)) /\ Finish(d, "failed")

(* return <-errCh, and the deferred calls in reverse order. *)
RelayReceives ==
    /\ main = "copy" /\ errs > 0
    /\ errs' = errs - 1
    /\ main' = "close src"
    /\ UNCHANGED <<next, dial, src, copier, flow>>

(* Mutated: the outbound connection is not closed. *)
RelayClosesSrc ==
    /\ \/ main = "close src" /\ src' = "closed" /\ main' = "close dst"
       \/ main = "close dst" /\ main' = "returned" /\ UNCHANGED src
    /\ UNCHANGED <<next, dial, copier, errs, flow>>

RelayCloses ==
    \/ /\ main = "close src" /\ src' = "closed" /\ main' = "close dst"
       /\ UNCHANGED <<next, dial, copier, errs, flow>>
    \/ /\ main = "close dst" /\ result' = [result EXCEPT ![winner] = "closed"]
       /\ main' = "returned"
       /\ UNCHANGED <<next, racer, failed, winner, src, copier, errs, flow>>

RelayInit ==
    /\ main = "idle" /\ next = "none"
    /\ racer = [f \in Racer |-> "idle"] /\ result = [f \in Racer |-> "none"]
    /\ failed = {} /\ winner = NoWinner /\ src = "open" /\ errs = 0 /\ eof = {}
    /\ copier = [d \in Dir |-> "read"] /\ rbuf = "none"
    /\ sent = [d \in Dir |-> 0] /\ read = [d \in Dir |-> 0] /\ written = [d \in Dir |-> 0]

Dialing(f) == RacerDials(f) \/ DialReceives(f) \/ RacerLate(f)
Copying(d) == CopyReads(d) \/ (d = "up" /\ CopyReadsBuffer) \/ CopyWrites(d) \/ CopyEnds(d)

----------------------------------------------------------------------------
Losers == {f \in Racer : result[f] = "open" /\ main # "dial" /\ winner # f}

(* The loser of the race does not leak: every connection dialled, other    *)
(* than the one returned, is closed in the end (case <-returned).          *)
LoserClosed == Losers # {} ~> \A f \in Racer \ {winner} : result[f] # "open"

(* The end of one direction ends the relay: both connections are closed,   *)
(* the other goroutine stops, and the relay returns.                       *)
EndsTogether ==
    (\E d \in Dir : copier[d] \in {"eof", "failed"}) ~>
        /\ main = "returned" /\ src = "closed" /\ Dst = "closed"
        /\ \A d \in Dir : copier[d] \in {"eof", "failed"}
=============================================================================
