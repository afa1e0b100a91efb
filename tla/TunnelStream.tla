---------------------------- MODULE TunnelStream ----------------------------
(***************************************************************************)
(* The byte stream between a client and a shadowsocks server: the cipher   *)
(* connection of ss.makeStreamConn (aead.streamConn, stream.StreamConn or  *)
(* none) over the connection of the transport (plain TCP, ObfsConn,        *)
(* WebsocketConn, GrpcStreamConn).  Each end has one goroutine that reads  *)
(* and one that writes.  TCP cuts the stream anywhere, the callers' read   *)
(* buffers have any size, and an end may close or die within a Write.      *)
(*                                                                         *)
(* The application of each end writes the units 1, 2, ... in order.  A     *)
(* unit on the wire carries its value and the nonce (aead) or the position *)
(* in the key stream (stream) it was encrypted with.                       *)
(* SsrStream adds the layers of ShadowsocksR and composes the whole.       *)
(***************************************************************************)
EXTENDS Integers, Sequences

CONSTANTS MaxClient, MaxServer,  \* units the application of each end writes
          MaxObfs,               \* ... no more than this over ObfsConn
          MaxSsr,                \* ... each end of ShadowsocksR
          MaxPayload             \* bufferpool.MaxTcpBufferSize

ASSUME TunnelAssumption ==
    /\ MaxClient \in Nat /\ MaxServer \in Nat /\ MaxObfs \in Nat /\ MaxSsr \in Nat
    /\ MaxPayload \in Nat \ {0}

End == {"client", "server"}
Peer(e) == IF e = "client" THEN "server" ELSE "client"

VARIABLES conf,     \* cipher, transport, protocol, and whether both ends agree on the obfs host
          written,  \* the number of units the application has handed to Write
          w,        \* the writing half: [ready, seq, wbuf]
          wire,     \* what each end has sent and the other not yet read
          link,     \* "open", "closed" by this end, or "died" within a Write
          r,        \* the reading half: [ready, seq, size, have, left, rbuf]
          up,       \* the handshake of a masking transport: "no", "drain" (answer awaited), "yes"
          got,      \* what Read has returned
          ended     \* how reading ended: "no", "eof", "error"

tunnelVars == <<conf, written, w, wire, link, r, up, got, ended>>

Ssr == conf.protocol # "none"
Obfs == conf.transport = "obfs"
Masked == conf.transport \in {"obfs", "http", "random", "tls"}
Framed == conf.transport \in {"ws", "grpc"}   \* messages keep their boundaries

Unit(k, v, n) == [kind |-> k, val |-> v, seq |-> n]
Salt == <<Unit("salt", 0, 0)>>                            \* a salt or an IV
Header == <<Unit("line", 0, 0), Unit("blank", 0, 0)>>     \* an HTTP request or response
Least(a, b) == IF a < b THEN a ELSE b
MaxUnits(e) ==
    LET n == IF e = "client" THEN MaxClient ELSE MaxServer
    IN  IF Ssr THEN MaxSsr ELSE IF Obfs THEN Least(n, MaxObfs) ELSE n

Take(s, n) == SubSeq(s, 1, n)
Skip(s, n) == SubSeq(s, n + 1, Len(s))

----------------------------------------------------------------------------
(* Writing. *)

(* Conn.Write of the transport.  ObfsConn.Write sends what wbuf holds in   *)
(* front of the bytes; WebsocketConn and GrpcStreamConn send one message.  *)
Sent(e, b) == IF Framed THEN Append(wire[e], b) ELSE wire[e] \o w[e].wbuf \o b

(* streamWriter.ReadFrom of aead: size and payload, each sealed with the   *)
(* next nonce.  streamWriter.Write of stream: the next key stream bytes.   *)
Encrypt(e, p) ==
    LET n == w[e].seq IN
    CASE conf.cipher = "aead" ->
            <<Unit("size", Len(p), n), Unit("tag", 0, n)>>
              \o [i \in DOMAIN p |-> Unit("data", p[i], n + 1)] \o <<Unit("tag", 0, n + 1)>>
      [] conf.cipher = "stream" -> [i \in DOMAIN p |-> Unit("data", p[i], n + i)]
      [] OTHER -> [i \in DOMAIN p |-> Unit("data", p[i], 0)]

Used(k) == CASE conf.cipher = "aead" -> 2 [] conf.cipher = "stream" -> k [] OTHER -> 0

(* The next k units the application writes. *)
Payload(e, k) == [i \in 1..k |-> written[e] + i]

CanWrite(e) == link[e] = "open" /\ ~Ssr /\ (Obfs => up[e] # "no")

(* initWriter: the salt or IV goes out in a Write of its own. *)
InitWriter(e) ==
    /\ CanWrite(e) /\ ~w[e].ready /\ written[e] < MaxUnits(e)
    /\ wire' = [wire EXCEPT ![e] = Sent(e, Salt)]
    /\ w' = [w EXCEPT ![e].ready = TRUE, ![e].wbuf = <<>>]
    /\ UNCHANGED <<conf, written, link, r, up, got, ended>>

(* One round of ReadFrom, or of the loop in Write. *)
WriteChunk(e) ==
    /\ CanWrite(e) /\ w[e].ready
    /\ \E k \in 1..Least(MaxPayload, MaxUnits(e) - written[e]) :
          /\ wire' = [wire EXCEPT ![e] = Sent(e, Encrypt(e, Payload(e, k)))]
          /\ w' = [w EXCEPT ![e].seq = @ + Used(k), ![e].wbuf = <<>>]
          /\ written' = [written EXCEPT ![e] = @ + k]
    /\ UNCHANGED <<conf, link, r, up, got, ended>>

(* The application is done: streamWriter.ReadFrom of stream writes the     *)
(* empty last read as well, which is a message of its own over websocket   *)
(* and grpc.  Then the connection is closed.                               *)
Close(e) ==
    /\ link[e] = "open"
    /\ link' = [link EXCEPT ![e] = "closed"]
    /\ wire' = IF Framed /\ conf.cipher = "stream" /\ w[e].ready
               THEN [wire EXCEPT ![e] = Sent(e, <<>>)] ELSE wire
    /\ UNCHANGED <<conf, written, w, r, up, got, ended>>

(* The process ends within a Write: TCP carries over a part of the chunk.  *)
Dies(e) ==
    /\ CanWrite(e) /\ w[e].ready /\ ~Framed
    /\ \E k \in 1..Least(MaxPayload, MaxUnits(e) - written[e]) :
          LET all == Encrypt(e, Payload(e, k)) IN
          /\ \E n \in 0..(Len(all) - 1) :
                wire' = [wire EXCEPT ![e] = Sent(e, Take(all, n))]
          /\ written' = [written EXCEPT ![e] = @ + k]
    /\ link' = [link EXCEPT ![e] = "died"]
    /\ UNCHANGED <<conf, w, r, up, got, ended>>

----------------------------------------------------------------------------
(* Reading. *)

(* Mutated: what does not fit the buffer is forgotten. *)
TransportReadForgets(e, k) ==
    LET in == wire[Peer(e)] IN
    IF in = <<>> THEN {}
    ELSE IF Framed THEN {[bytes |-> Take(Head(in), Least(k, Len(Head(in)))), rbuf |-> <<>>, wire |-> Tail(in)]}
    ELSE {[bytes |-> Take(in, n), rbuf |-> <<>>, wire |-> Skip(in, n)] : n \in 1..Least(k, Len(in))}

(* What Conn.Read of the transport may return for a buffer of k units: the *)
(* leftovers first, then any part of the TCP stream, or as much of the     *)
(* next message as fits.                                                   *)
TransportRead(e, k) ==
    LET in == wire[Peer(e)]
        Part(b, rest) == [bytes |-> Take(b, Least(k, Len(b))), rbuf |-> Skip(b, k), wire |-> rest]
    IN  IF r[e].rbuf # <<>> THEN {Part(r[e].rbuf, in)}
        ELSE IF in = <<>> \/ conf.transport = "tls" THEN {}
        ELSE IF Framed THEN {Part(Head(in), Tail(in))}
        ELSE {[bytes |-> Take(in, n), rbuf |-> <<>>, wire |-> Skip(in, n)] : n \in 1..Least(k, Len(in))}

CanRead(e) == link[e] = "open" /\ ended[e] = "no" /\ (Masked => up[e] = "yes")

(* ObfsConn.Handshake of the client, by the first Read or Write: the       *)
(* request waits in wbuf for the first Write.                              *)
ClientHandshake ==
    /\ Obfs /\ up["client"] = "no" /\ link["client"] = "open"
    /\ up' = [up EXCEPT !["client"] = "drain"]
    /\ w' = [w EXCEPT !["client"].wbuf = Header]
    /\ UNCHANGED <<conf, written, wire, link, r, got, ended>>

(* bufio.Reader.fill for an HTTP header: have is what the reader holds.    *)
(* Once the blank line is there, what follows it goes to rbuf.             *)
Fill(e, Done(_, _)) ==
    /\ link[e] = "open" /\ ended[e] = "no"
    /\ \E n \in 1..Len(wire[Peer(e)]) :
          LET have == r[e].have \o Take(wire[Peer(e)], n)
              end == {i \in DOMAIN have : have[i].kind = "blank"}
              rest == Skip(wire[Peer(e)], n)
          IN  IF end = {}
              THEN /\ r' = [r EXCEPT ![e].have = have]
                   /\ wire' = [wire EXCEPT ![Peer(e)] = rest]
                   /\ UNCHANGED <<w, up, ended>>
              ELSE \E i \in end : Done(Skip(have, i), rest)
    /\ UNCHANGED <<conf, written, link, got>>

(* serverHandshake.  A request for another host is answered with 503 and   *)
(* an error.  Otherwise the response goes out at once, or, when payload    *)
(* came with the request, with the first Write.                            *)
ServerAnswers(payload, rest) ==
    LET e == "server"
        now == ~conf.sameHost \/ payload = <<>>
    IN  /\ r' = [r EXCEPT ![e].have = <<>>, ![e].rbuf = payload]
        /\ wire' = [wire EXCEPT !["client"] = rest, ![e] = IF now THEN @ \o Header ELSE @]
        /\ w' = [w EXCEPT ![e].wbuf = IF now THEN <<>> ELSE Header]
        /\ up' = [up EXCEPT ![e] = IF conf.sameHost THEN "yes" ELSE "no"]
        /\ ended' = [ended EXCEPT ![e] = IF conf.sameHost THEN "no" ELSE "error"]

ServerHandshake == Obfs /\ up["server"] = "no" /\ Fill("server", ServerAnswers)

(* drainHeader of the client: what came with the response goes to rbuf. *)
HeaderDrained(payload, rest) ==
    /\ r' = [r EXCEPT !["client"].have = <<>>, !["client"].rbuf = payload]
    /\ wire' = [wire EXCEPT !["server"] = rest]
    /\ up' = [up EXCEPT !["client"] = "yes"]
    /\ UNCHANGED <<w, ended>>

DrainHeader == Obfs /\ up["client"] = "drain" /\ Fill("client", HeaderDrained)

(* io.ReadFull of n units over the transport. *)
ReadFull(e, n, Then(_, _)) ==
    \E t \in TransportRead(e, n - Len(r[e].have)) :
        LET have == r[e].have \o t.bytes
            half == [r[e] EXCEPT !.have = IF Len(have) = n THEN <<>> ELSE have, !.rbuf = t.rbuf]
        IN  /\ wire' = [wire EXCEPT ![Peer(e)] = t.wire]
            /\ IF Len(have) = n THEN Then(have, half)
               ELSE r' = [r EXCEPT ![e] = half] /\ UNCHANGED <<got, ended>>

(* initReader: the salt or IV of the peer. *)
SaltRead(e, have, half) ==
    /\ r' = [r EXCEPT ![e] = [half EXCEPT !.ready = TRUE]]
    /\ UNCHANGED <<got, ended>>

InitReader(e) ==
    /\ CanRead(e) /\ ~r[e].ready
    /\ LET Then(have, half) == SaltRead(e, have, half) IN ReadFull(e, 1, Then)
    /\ UNCHANGED <<conf, written, w, link, up>>

(* AEAD.Open with the reader's nonce succeeds on one whole sealed block.   *)
Opens(e, have, kind) ==
    /\ \A i \in DOMAIN have : have[i].seq = r[e].seq
    /\ \A i \in 1..(Len(have) - 1) : have[i].kind = kind
    /\ have[Len(have)].kind = "tag"

Refuse(e, half) ==
    /\ r' = [r EXCEPT ![e] = half]
    /\ ended' = [ended EXCEPT ![e] = "error"]
    /\ UNCHANGED got

(* streamReader.read of aead, first block: the size of the second. *)
SizeRead(e, have, half) ==
    IF Opens(e, have, "size")
    THEN /\ r' = [r EXCEPT ![e] = [half EXCEPT !.size = have[1].val, !.seq = @ + 1]]
         /\ UNCHANGED <<got, ended>>
    ELSE Refuse(e, half)

AeadSize(e) ==
    /\ CanRead(e) /\ conf.cipher = "aead" /\ r[e].ready /\ r[e].left = <<>> /\ r[e].size = 0
    /\ LET Then(have, half) == SizeRead(e, have, half) IN ReadFull(e, 2, Then)
    /\ UNCHANGED <<conf, written, w, link, up>>

(* ... second block; streamReader.Read returns what fits the caller's      *)
(* buffer of k units and keeps the rest.  WriteTo is the case that all fits. *)
DataRead(e, have, half) ==
    IF Opens(e, have, "data")
    THEN LET p == [i \in 1..(Len(have) - 1) |-> have[i].val] IN
         \E k \in 1..Len(p) :
            /\ got' = [got EXCEPT ![e] = @ \o Take(p, k)]
            /\ r' = [r EXCEPT ![e] = [half EXCEPT !.size = 0, !.seq = @ + 1, !.left = Skip(p, k)]]
            /\ UNCHANGED ended
    ELSE Refuse(e, half)

AeadData(e) ==
    /\ CanRead(e) /\ conf.cipher = "aead" /\ r[e].size > 0
    /\ LET Then(have, half) == DataRead(e, have, half) IN ReadFull(e, r[e].size + 1, Then)
    /\ UNCHANGED <<conf, written, w, link, up>>

ReadLeft(e) ==
    /\ CanRead(e) /\ r[e].left # <<>>
    /\ \E k \in 1..Len(r[e].left) :
          /\ got' = [got EXCEPT ![e] = @ \o Take(r[e].left, k)]
          /\ r' = [r EXCEPT ![e].left = Skip(@, k)]
    /\ UNCHANGED <<conf, written, w, wire, link, up, ended>>

(* streamReader.Read and WriteTo of stream, or Read without a cipher: a    *)
(* byte decrypted with another key stream byte is garbage.                 *)
Garbage == 0
Decrypt(e, b) ==
    [i \in DOMAIN b |->
        IF b[i].kind = "data" /\ (conf.cipher = "stream" => b[i].seq = r[e].seq + i)
        THEN b[i].val ELSE Garbage]

ReadBytes(e) ==
    /\ CanRead(e) /\ conf.cipher # "aead" /\ r[e].ready
    /\ conf.protocol \in {"none", "origin"}
    /\ \E k \in 1..MaxPayload : \E t \in TransportRead(e, k) :
          /\ got' = [got EXCEPT ![e] = @ \o Decrypt(e, t.bytes)]
          /\ r' = [r EXCEPT ![e].rbuf = t.rbuf,
                            ![e].seq = @ + (IF conf.cipher = "stream" THEN Len(t.bytes) ELSE 0)]
          /\ wire' = [wire EXCEPT ![Peer(e)] = t.wire]
    /\ UNCHANGED <<conf, written, w, link, up, ended>>

(* The peer is gone and all it sent was read.  io.ReadFull reports EOF when *)
(* it had nothing yet; ReadString reports it always; a websocket never      *)
(* reports it, for Close sends no close frame.                              *)
EndSeen(e) ==
    IF conf.transport = "ws" \/ (r[e].have # <<>> /\ up[e] # "drain") THEN "error" ELSE "eof"

(* Mutated: leftovers are not looked at before the end is reported. *)
ReadEndsEarly(e) ==
    /\ link[e] = "open" /\ ended[e] = "no" /\ link[Peer(e)] # "open"
    /\ wire[Peer(e)] = <<>>
    /\ ended' = [ended EXCEPT ![e] = EndSeen(e)]
    /\ UNCHANGED <<conf, written, w, wire, link, r, up, got>>

ReadEnds(e) ==
    /\ link[e] = "open" /\ ended[e] = "no" /\ link[Peer(e)] # "open"
    /\ wire[Peer(e)] = <<>> /\ r[e].rbuf = <<>> /\ r[e].left = <<>>
    /\ ended' = [ended EXCEPT ![e] = EndSeen(e)]
    /\ UNCHANGED <<conf, written, w, wire, link, r, up, got>>

(* The connection is reset once the peer is gone; what was under way is lost. *)
ReadFails(e) ==
    /\ link[e] = "open" /\ ended[e] = "no" /\ link[Peer(e)] # "open"
    /\ ended' = [ended EXCEPT ![e] = "error"]
    /\ UNCHANGED <<conf, written, w, wire, link, r, up, got>>

----------------------------------------------------------------------------
SsConf == [cipher : {"none", "stream", "aead"}, transport : {"tcp", "obfs", "ws", "grpc"},
           sameHost : BOOLEAN, protocol : {"none"}]

(* makeStreamConn wraps the transport's connection, by the cipher of the node. *)
TunnelInit ==
    /\ conf.transport # "obfs" => conf.sameHost
    /\ written = [e \in End |-> 0]
    /\ w = [e \in End |-> [ready |-> conf.cipher = "none", seq |-> 0, wbuf |-> <<>>]]
    /\ r = [e \in End |-> [ready |-> conf.cipher = "none", seq |-> 0, size |-> 0,
                           have |-> <<>>, left |-> <<>>, rbuf |-> <<>>]]
    /\ wire = [e \in End |-> <<>>] /\ link = [e \in End |-> "open"]
    /\ up = [e \in End |-> "no"]
    /\ got = [e \in End |-> <<>>] /\ ended = [e \in End |-> "no"]

Writing(e) == InitWriter(e) \/ WriteChunk(e)
Reading(e) == InitReader(e) \/ AeadSize(e) \/ AeadData(e) \/ ReadLeft(e) \/ ReadBytes(e)
Handshake == ClientHandshake \/ ServerHandshake \/ DrainHeader
=============================================================================
