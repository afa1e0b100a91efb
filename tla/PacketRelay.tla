----------------------------- MODULE PacketRelay -----------------------------
(***************************************************************************)
(* relay.IoCopyBidirectionalForPacket, as UDPDirectRelayer.RelayToServer   *)
(* and ProxyUDPRelayer.RelayToProxyServer call it: one goroutine relays    *)
(* the client's datagrams to the outbound socket, a second one, which      *)
(* first waits to learn the client's address, relays the answers.  The     *)
(* first of them to fail ends the relay, and the relay closes both sockets *)
(* to make the other one fail.                                             *)
(*                                                                         *)
(* A tunnelled or SOCKS5 client, the relay, the shadowsocks server of the  *)
(* modes "ss" and "socks+ss" and the remote endpoints are composed: what a *)
(* datagram is at the far end is part of the state.  The outbound socket   *)
(* is not connected: any address may send to it.                           *)
(*                                                                         *)
(* With a stream cipher, both goroutines use the buffer of the packetConn  *)
(* around the outbound socket: WriteTo encrypts into it, ReadFrom receives *)
(* into it.  That of an aead cipher is for WriteTo alone.                  *)
(***************************************************************************)
EXTENDS Datagrams

CONSTANTS Mode,      \* the modes of the relay under study
          Server,    \* where the shadowsocks server may be
          Remote,    \* the remote endpoints
          Ciphers    \* the ciphers and protocols of the node

ASSUME RelayAssumption ==
    /\ Mode \subseteq {"direct", "ss", "socks", "socks+ss"}
    /\ Server \cup Remote \subseteq Endpoint
    /\ Ciphers \subseteq {"none", "stream", "aead", "auth_aes128", "auth_chain"}

VARIABLES mode, ss, remote,  \* the mode, the server, the tunnel's remote
          cipher,            \* what the node encrypts with; "none" without a server
          up, down,          \* the two goroutines
          main,              \* the function itself; "panicked" when the program has ended
          addrCh,            \* srcAddrCh: "empty", "full", "taken"
          addrClosed,        \* srcAddrCh has been closed
          once,              \* the sync.Once has run
          errs,              \* the number of errors in errCh
          srcOpen, dstOpen,  \* the two sockets
          buf,               \* packetConn.buf
          sending, arrived,  \* what WriteTo sends and ReadFrom received: [to, b]
          raced,             \* buf was overwritten while in use
          asked, reached,    \* requests, as the client and as the remotes know them
          answered, heard    \* answers, as their senders and as the client know them

conf == <<mode, ss, remote, cipher>>
chans == <<addrCh, addrClosed, once, errs>>
data == <<asked, reached, answered, heard>>
bufs == <<buf, sending, arrived, raced>>
vars == <<conf, up, down, main, chans, srcOpen, dstOpen, bufs, data>>

Nothing == [to |-> {}, b |-> <<>>]
Socks == mode \in {"socks", "socks+ss"}
ViaServer == mode \in {"ss", "socks+ss"}

(* A stream cipher is between the relay and the server. *)
Shared == cipher \notin {"none", "aead"}

(* The buffer when a goroutine that put b there uses it: if the other one  *)
(* has written since, that one's datagram or a mixture.                    *)
InBuffer(b) == IF ~Shared \/ buf = b THEN {b} ELSE {buf, Junk}

(* Once used, what is left there is not read again. *)
Leave(inUse) == buf' = IF inUse THEN buf ELSE <<>>

(* What reaches a remote when the relay sends b to the endpoints to. *)
Arrives(to, b) ==
    IF to = {} THEN {}
    ELSE LET m == IF ViaServer THEN serverReadFromSrc(ssrServerReadFrom(cipher, b)) ELSE [to |-> to, b |-> b]
         IN { <<a, m.b>> : a \in m.to }

(* What a client takes from a datagram: for SOCKS5 the sender and the data. *)
Taken(b) ==
    IF ~Socks THEN <<ResolveUDPAddr(remote), b>>
    ELSE LET as == AddressAt(From(b, 3))
         IN IF as = {} THEN <<ResolveUDPAddr(remote), b>>
            ELSE LET a == CHOOSE x \in as : TRUE IN <<a, From(b, 3 + AddrLen(a))>>

(* What is known of the requests and the answers is kept until two uses of *)
(* the buffer overlap: nothing is claimed of the datagrams from then on.   *)
Note(known, new) == IF raced THEN known ELSE known \cup new

----------------------------------------------------------------------------
(* srcConn.ReadFrom: the client sends p to r (a tunnel has one remote).    *)
(* dstConn.WriteTo encrypts the datagram into the buffer...                *)
UpRelays(r, p) ==
    /\ up = "read" /\ srcOpen /\ (~Socks => r = remote)
    /\ addrCh' = IF once THEN addrCh ELSE "full"
    /\ once' = TRUE
    /\ asked' = Note(asked, {<<ResolveUDPAddr(r), Data(p)>>})
    /\ LET b == IF Socks THEN Reserved \o ParseAddress(r) \o Data(p) ELSE Data(p)
           m == udpReadFromSrc(mode, remote, ss, b)
           c == WriteTo(cipher, "up", m.b)
       IN  /\ sending' = [to |-> m.to, b |-> c]
           /\ buf' = IF Shared THEN c ELSE buf
    /\ raced' = (raced \/ (Shared /\ down = "decrypt"))
    /\ up' = "send"
    /\ UNCHANGED <<conf, down, main, addrClosed, errs, srcOpen, dstOpen, arrived, reached, answered, heard>>

(* ... and sends what is there; it may be lost, or its name not resolve. *)
UpSends ==
    /\ up = "send"
    /\ \/ UNCHANGED reached
       \/ dstOpen /\ \E b \in InBuffer(sending.b) : reached' = Note(reached, Arrives(sending.to, b))
    /\ sending' = Nothing
    /\ up' = "read"
    /\ Leave(down = "decrypt")
    /\ UNCHANGED <<conf, down, main, chans, srcOpen, dstOpen, arrived, raced, asked, answered, heard>>

(* Mutated: the channel stays open. *)
UpFailsSilently ==
    up = "read" /\ errs' = errs + 1 /\ up' = "stopped"
    /\ UNCHANGED <<conf, down, main, addrCh, addrClosed, once, srcOpen, dstOpen, bufs, data>>

(* Its read fails: an error, 30 seconds of silence, or the socket is closed. *)
UpFails ==
    /\ up = "read"
    /\ addrClosed' = TRUE
    /\ errs' = errs + 1
    /\ up' = "stopped"
    /\ UNCHANGED <<conf, down, main, addrCh, once, srcOpen, dstOpen, bufs, data>>

(* srcAddr, ok = <-srcAddrCh: the address if it is there, else the close. *)
DownLearns ==
    /\ down = "wait"
    /\ \/ addrCh = "full" /\ addrCh' = "taken" /\ down' = "read"
       \/ addrCh # "full" /\ addrClosed /\ down' = "stopped" /\ UNCHANGED addrCh
    /\ UNCHANGED <<conf, up, main, addrClosed, once, errs, srcOpen, dstOpen, bufs, data>>

(* dstConn.ReadFrom returns a datagram b of the sender from; it lies in    *)
(* the buffer of a stream cipher.                                          *)
Receive(from, b) ==
    /\ down = "read" /\ dstOpen
    /\ arrived' = [to |-> {from}, b |-> b]
    /\ buf' = IF Shared THEN b ELSE buf
    /\ raced' = (raced \/ (Shared /\ up = "send"))
    /\ down' = "decrypt"
    /\ UNCHANGED <<conf, up, main, chans, srcOpen, dstOpen, sending, asked, reached, heard>>

FromServer(a, q) == ssrServerWriteTo(cipher, "down", serverWriteToSrc(a, Data(q)))

(* a sends q: to the relay, asked or not; or, after a request, to the      *)
(* server, which relays it.                                                *)
DownReceives(a, q) ==
    /\ IF ViaServer THEN /\ raced \/ \E x \in reached : x[1] = a
                         /\ Receive(ResolveUDPAddr(ss), FromServer(a, q))
                    ELSE Receive(a, Data(q))
    /\ answered' = Note(answered, {<<a, Data(q)>>})

(* Another address than the server's sends to the relay: data, bytes that  *)
(* no key fits, or what the server would have sent.                        *)
DownReceivesOther(a, q) ==
    /\ ViaServer /\ a # ResolveUDPAddr(ss)
    /\ \E b \in {Data(q), Junk, FromServer(a, q)} : Receive(a, b)
    /\ UNCHANGED answered

(* Mutated: nothing is filtered. *)
FilteredNot(from) == FALSE

(* serverAddr != "" && addr.String() != serverAddr: the sender is not the  *)
(* server, as it is written in the configuration; "" without a server.     *)
Filtered(from) == ViaServer /\ from # ss

(* The datagram is decrypted, filtered and goes to the client; one that    *)
(* cannot be decoded ends the goroutine.                                   *)
DownRelays ==
    /\ down = "decrypt"
    /\ \E b \in InBuffer(arrived.b), from \in arrived.to :
          LET p == ReadFrom(cipher, b)
              out == IF Filtered(from) THEN Short ELSE udpWriteToSrc(mode, from, p)
          IN  /\ p # Panic /\ (p # Short => out # Panic)
              /\ heard' = IF p # Short /\ out # Short /\ srcOpen THEN Note(heard, {Taken(out)}) ELSE heard
              /\ down' = IF p = Short THEN "stopped" ELSE "read"
              /\ errs' = IF p = Short THEN errs + 1 ELSE errs
    /\ arrived' = Nothing
    /\ Leave(up = "send")
    /\ UNCHANGED <<conf, up, main, addrCh, addrClosed, once, srcOpen, dstOpen, sending, raced,
                   asked, reached, answered>>

(* A panic in the goroutine ends the program, and the sockets with it. *)
DownPanics ==
    /\ down = "decrypt"
    /\ \E b \in InBuffer(arrived.b), from \in arrived.to :
          LET p == ReadFrom(cipher, b)
          IN  p = Panic \/ (p # Short /\ ~Filtered(from) /\ udpWriteToSrc(mode, from, p) = Panic)
    /\ up' = "stopped" /\ down' = "stopped" /\ main' = "panicked"
    /\ srcOpen' = FALSE /\ dstOpen' = FALSE
    /\ UNCHANGED <<conf, chans, bufs, data>>

DownFails ==
    /\ down = "read"
    /\ errs' = errs + 1
    /\ down' = "stopped"
    /\ UNCHANGED <<conf, up, main, addrCh, addrClosed, once, srcOpen, dstOpen, bufs, data>>

(* return <-errCh, then the deferred calls in reverse order. *)
MainReceives ==
    /\ main = "wait" /\ errs > 0
    /\ errs' = errs - 1
    /\ main' = "close dst"
    /\ UNCHANGED <<conf, up, down, addrCh, addrClosed, once, srcOpen, dstOpen, bufs, data>>

MainCloses ==
    /\ \/ main = "close dst" /\ main' = "close src" /\ dstOpen' = FALSE /\ UNCHANGED srcOpen
       \/ main = "close src" /\ main' = "returned" /\ srcOpen' = FALSE /\ UNCHANGED dstOpen
    /\ UNCHANGED <<conf, up, down, chans, bufs, data>>

Init ==
    /\ mode \in Mode /\ ss \in Server /\ remote \in Remote
    /\ ViaServer \/ ss = (CHOOSE s \in Server : TRUE)
    /\ Socks => remote = (CHOOSE r \in Remote : TRUE)
    /\ cipher \in IF ViaServer THEN Ciphers ELSE {"none"}
    /\ buf = <<>> /\ sending = Nothing /\ arrived = Nothing /\ raced = FALSE
    /\ up = "read" /\ down = "wait" /\ main = "wait"
    /\ addrCh = "empty" /\ addrClosed = FALSE /\ once = FALSE /\ errs = 0
    /\ srcOpen = TRUE /\ dstOpen = TRUE
    /\ asked = {} /\ reached = {} /\ answered = {} /\ heard = {}

Next ==
    \/ \E r \in Remote, p \in Payload : UpRelays(r, p)
    \/ \E a \in Address, q \in Payload : DownReceives(a, q) \/ DownReceivesOther(a, q)
    \/ UpSends \/ DownRelays \/ DownPanics \/ UpFails \/ DownLearns \/ DownFails \/ MainReceives \/ MainCloses

Spec == Init /\ [][Next]_vars

(* The goroutines are scheduled, and a read of a closed socket fails; so   *)
(* does a read that hears nothing for 30 seconds, but nobody has to be     *)
(* silent that long.                                                       *)
FairSpec ==
    /\ Spec
    /\ WF_vars(MainReceives) /\ WF_vars(MainCloses) /\ WF_vars(DownLearns)
    /\ WF_vars(UpSends) /\ WF_vars(DownRelays \/ DownPanics)
    /\ WF_vars(~srcOpen /\ UpFails) /\ WF_vars(~dstOpen /\ DownFails)

----------------------------------------------------------------------------
(* A request that reaches a remote is one the client made: the same target *)
(* and the same data, whatever headers udpReadFromSrc and the server have  *)
(* removed and added on the way, and the ciphers with them.  Two uses of   *)
(* the buffer of a stream cipher that overlap are excepted: what is sent   *)
(* then is a mixture of both datagrams.                                    *)
RequestsIntact == raced \/ reached \subseteq asked

(* What the client takes for an answer is one: it was sent by the endpoint *)
(* the client takes for the sender, and nothing is cut off or left over    *)
(* from the headers; what other addresses send to the socket never gets    *)
(* through ("filter illegal data from the outside world").  A direct       *)
(* tunnel passes no serverAddr and filters nothing: there the data is what *)
(* somebody sent, and no more is claimed.  A tunnel through the server     *)
(* ("buf: {remote address} {UDP data}", "return: {UDP data}") is only      *)
(* covered when both have addresses of one family: udpWriteToSrc cuts by   *)
(* the length of the server's address, and the header holds the remote's.  *)
AnswersIntact ==
    (mode = "ss" => (ResolveUDPAddr(ss) \in V4 <=> ResolveUDPAddr(remote) \in V4)) =>
        raced \/ \A h \in heard :
                     \/ h \in answered
                     \/ mode = "direct" /\ \E a \in Address : <<a, h[2]>> \in answered

(* "an error occurred on endpoint and the other endpoint needs to be close *)
(* at the same time": once a goroutine fails, both end, both sockets are   *)
(* closed and the relay returns, or the program has ended.  The one that   *)
(* never learned the client's address is no exception.                     *)
EndsTogether ==
    (up = "stopped" \/ down = "stopped") ~>
        up = "stopped" /\ down = "stopped" /\ main \in {"returned", "panicked"} /\ ~srcOpen /\ ~dstOpen
=============================================================================
