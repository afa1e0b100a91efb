------------------------------ MODULE SsrStream ------------------------------
(***************************************************************************)
(* ShadowsocksR.StreamConn: an obfuscation (http, random_head,             *)
(* tls1.2_ticket_auth) under the stream cipher and a protocol (origin,     *)
(* auth_sha1_v4, auth_aes128, auth_chain) over it, composed with           *)
(* TunnelStream.  The repository has the client only: the server end is    *)
(* its mirror image, and reads whatever has arrived.                       *)
(*                                                                         *)
(* random_head and tls1.2_ticket_auth hold back what is written until the  *)
(* server has answered their first message.  The goroutine that reads the  *)
(* answer sends it, with no lock against the one that writes.              *)
(***************************************************************************)
EXTENDS TunnelStream

LOCAL INSTANCE SequencesExt

CONSTANTS MaxFrame,   \* the most data of a frame: 8100 or 2800 bytes
          MaxPad      \* the most padding of a frame

ASSUME SsrAssumption == MaxFrame \in Nat \ {0} /\ MaxPad \in Nat

VARIABLES pr,     \* protocol.Conn: [hasSentHeader, packID, recvID, underDecoded]
          ob,     \* the client's obfs connection: [buf, hold, flush, cut]
          under,  \* tls1.2_ticket_auth: underDecoded
          raced   \* a Write met the end of the handshake half way

ssrVars == <<pr, ob, under, raced>>
vars == <<tunnelVars, ssrVars>>

Tls == conf.transport = "tls"
Held == conf.transport \in {"random", "tls"}
Auth == conf.protocol \notin {"none", "origin"}

----------------------------------------------------------------------------
(* Encoding. *)

(* A frame says how long its padding and its data are, and is sealed with  *)
(* a checksum.  Both are keyed by the number of the frame (auth_aes128) or *)
(* by the hash of the frame before (auth_chain); auth_sha1_v4 has one key. *)
Frame(p, id, pad) ==
    <<Unit("head", [id |-> id, pad |-> pad, len |-> Len(p)], 0)>>
      \o [i \in 1..pad |-> Unit("pad", 0, 0)]
      \o p \o <<Unit("mac", id, 0)>>

(* getRandDataLength and getRandLength: chosen at random, or by the hash of *)
(* the frame before, which both ends know.                                 *)
Pads == 0..MaxPad

(* putAuthData, putEncryptedData: who connects, in front of the first frame. *)
AuthHeader == <<Unit("auth", 0, 0)>>

(* packData of auth_sha1_v4. *)
Sha1Pack(e, p, i, pad) == Frame(p, 0, pad)

(* packData of auth_aes128: the packet with the auth data is not counted.  *)
AesPack(e, p, i, pad) == Frame(p, pr[e].packID + i - 1, pad)

(* packData of auth_chain_a and _b: the first frame of the server begins   *)
(* with two bytes that are not data.                                       *)
ChainPack(e, p, i, pad) ==
    LET id == pr[e].packID + i - 1
    IN  Frame(IF e = "server" /\ id = 1 THEN <<Unit("mss", 0, 0)>> \o p ELSE p, id, pad)

Pack(e, p, i, pad) ==
    CASE conf.protocol = "auth_sha1_v4" -> Sha1Pack(e, p, i, pad)
      [] conf.protocol = "auth_aes128" -> AesPack(e, p, i, pad)
      [] conf.protocol = "auth_chain" -> ChainPack(e, p, i, pad)

(* Encode cuts a Write into frames; the first d units of the first Write   *)
(* (getDataLength) go into the packet with the auth data.                  *)
Pieces(p) ==
    [i \in 1..((Len(p) + MaxFrame - 1) \div MaxFrame) |->
        SubSeq(p, (i - 1) * MaxFrame + 1, Least(i * MaxFrame, Len(p)))]

Cut(first, p, d) == IF first THEN <<Take(p, d)>> \o Pieces(Skip(p, d)) ELSE Pieces(p)

Encode(e, p, d, pad) ==
    LET first == ~pr[e].hasSentHeader
        cut == Cut(first, p, d)
    IN  [bytes |-> (IF first THEN AuthHeader ELSE <<>>)
                     \o FlattenSeq([i \in DOMAIN cut |-> Pack(e, cut[i], i, pad)]),
         frames |-> Len(cut)]

(* What protocol.Conn.Write may hand to the cipher for the units p. *)
Encodings(e, p) ==
    LET data == [i \in DOMAIN p |-> Unit("data", p[i], 0)] IN
    IF Auth THEN {Encode(e, data, d, pad) : d \in 1..Len(p), pad \in Pads}
    ELSE {[bytes |-> data, frames |-> 0]}

(* streamWriter.Write: the next bytes of the key stream. *)
KeyStream(e, b) == [i \in DOMAIN b |-> [b[i] EXCEPT !.seq = w[e].seq + i]]

----------------------------------------------------------------------------
(* Writing. *)

(* packData of tls1.2_ticket_auth. *)
Record(b) == IF Tls THEN <<Unit("record", Len(b), 0)>> \o b ELSE b

(* httpConn.Write: the first bytes, which are the IV, are part of the URL. *)
HttpRequest(b) == <<Unit("line", 0, 0)>> \o b \o <<Unit("blank", 0, 0)>>

(* The head of random_head, the client hello of tls1.2_ticket_auth. *)
Hello == <<Unit("line", 0, 0)>>

(* The server speaks once it knows the target. *)
MayWrite(e) == Ssr /\ link[e] = "open" /\ (e = "server" => got[e] # <<>>)

(* The IV is the first Write of the cipher.  random_head and               *)
(* tls1.2_ticket_auth send a head of their own and keep it in their buffer.*)
SsrInitWriter(e) ==
    /\ MayWrite(e) /\ ~w[e].ready /\ written[e] < MaxUnits(e)
    /\ w' = [w EXCEPT ![e].ready = TRUE, ![e].wbuf = <<>>]
    /\ IF e = "client" /\ Masked
       THEN /\ up' = [up EXCEPT ![e] = "drain"]
            /\ wire' = [wire EXCEPT ![e] = @ \o (IF Held THEN Hello ELSE HttpRequest(Salt))]
            /\ ob' = IF Held THEN [ob EXCEPT !.buf = Record(Salt)] ELSE ob
       ELSE /\ wire' = [wire EXCEPT ![e] = @ \o w[e].wbuf \o Record(Salt)]
            /\ UNCHANGED <<up, ob>>
    /\ UNCHANGED <<conf, written, link, r, got, ended, pr, under, raced>>

(* A Write of k units down to the obfuscation, with the bytes it is given. *)
Written(e, k, enc) ==
    /\ written' = [written EXCEPT ![e] = @ + k]
    /\ w' = [w EXCEPT ![e].seq = @ + Len(enc.bytes)]
    /\ pr' = [pr EXCEPT ![e].packID = @ + enc.frames, ![e].hasSentHeader = TRUE]

(* The buffer of random_head and tls1.2_ticket_auth is in use. *)
Holding(e) == e = "client" /\ Held /\ up[e] # "yes"

(* The obfuscation passes the bytes on: the handshake is over. *)
SsrWrite(e) ==
    /\ MayWrite(e) /\ w[e].ready /\ ~Holding(e) /\ ob.hold = <<>>
    /\ \E k \in 1..Least(MaxPayload, MaxUnits(e) - written[e]) :
       \E enc \in Encodings(e, Payload(e, k)) :
          /\ Written(e, k, enc)
          /\ wire' = [wire EXCEPT ![e] = @ \o Record(KeyStream(e, enc.bytes))]
    /\ raced' = (raced \/ (e = "client" /\ ob.flush # <<>>))
    /\ UNCHANGED <<conf, link, r, up, got, ended, ob, under>>

(* Write has found the handshake unfinished (handshakeStatus, rawTransSent)... *)
HoldTests ==
    /\ MayWrite("client") /\ w["client"].ready /\ Holding("client") /\ ob.hold = <<>>
    /\ \E k \in 1..Least(MaxPayload, MaxUnits("client") - written["client"]) :
       \E enc \in Encodings("client", Payload("client", k)) :
          /\ Written("client", k, enc)
          /\ ob' = [ob EXCEPT !.hold = Record(KeyStream("client", enc.bytes))]
    /\ raced' = (raced \/ ob.flush # <<>>)
    /\ UNCHANGED <<conf, wire, link, r, up, got, ended, under>>

(* ... and appends to the buffer.  Write of random_head sends the buffer   *)
(* itself if the answer has come by now.                                   *)
HoldAppends ==
    /\ link["client"] = "open" /\ ob.hold # <<>>
    /\ LET all == ob.buf \o ob.hold
           send == conf.transport = "random" /\ up["client"] # "drain"
       IN  /\ ob' = [ob EXCEPT !.hold = <<>>, !.buf = IF send THEN <<>> ELSE all]
           /\ wire' = IF send THEN [wire EXCEPT !["client"] = @ \o all] ELSE wire
           /\ up' = IF send THEN [up EXCEPT !["client"] = "yes"] ELSE up
    /\ UNCHANGED <<conf, written, w, link, r, got, ended, pr, under, raced>>

(* The server ends within a Write. *)
SsrDies ==
    /\ MayWrite("server") /\ w["server"].ready
    /\ \E k \in 1..Least(MaxPayload, MaxUnits("server") - written["server"]) :
       \E enc \in Encodings("server", Payload("server", k)) :
          LET all == Record(KeyStream("server", enc.bytes)) IN
          /\ Written("server", k, enc)
          /\ \E n \in 0..(Len(all) - 1) :
                wire' = [wire EXCEPT !["server"] = @ \o Take(all, n)]
    /\ link' = [link EXCEPT !["server"] = "died"]
    /\ UNCHANGED <<conf, r, up, got, ended, ob, under, raced>>
----------------------------------------------------------------------------
(* The handshake of the obfuscation. *)

(* The server (external).  http answers with its first Write, random_head  *)
(* and tls1.2_ticket_auth at once.                                         *)
SsrServerHandshake ==
    LET in == wire["client"]
        Bare(u) == u.kind \notin {"line", "blank"}
    IN  /\ Ssr /\ Masked /\ up["server"] = "no" /\ link["server"] = "open" /\ ended["server"] = "no"
        /\ in # <<>>
        /\ up' = [up EXCEPT !["server"] = "yes"]
        /\ IF Held
           THEN /\ wire' = [wire EXCEPT !["client"] = Tail(in), !["server"] = @ \o Header]
                /\ UNCHANGED <<w, r>>
           ELSE /\ wire' = [wire EXCEPT !["client"] = <<>>]
                /\ r' = [r EXCEPT !["server"].rbuf = SelectSeq(in, Bare)]
                /\ w' = [w EXCEPT !["server"].wbuf = Header]
        /\ UNCHANGED <<conf, written, link, got, ended, ssrVars>>

AwaitsAnswer == Ssr /\ up["client"] = "drain" /\ link["client"] = "open" /\ ended["client"] = "no"

(* httpConn.Read: what follows the blank line is kept for the next Read.   *)
(* Without one in the bytes of the first Read, it reports io.EOF.          *)
HttpAnswer ==
    /\ AwaitsAnswer /\ ~Held
    /\ \E n \in 1..Len(wire["server"]) :
          LET in == Take(wire["server"], n)
              end == {i \in 1..n : in[i].kind = "blank"}
          IN  /\ wire' = [wire EXCEPT !["server"] = Skip(@, n)]
              /\ ob' = [ob EXCEPT !.cut = (end = {})]
              /\ IF end = {}
                 THEN ended' = [ended EXCEPT !["client"] = "eof"] /\ UNCHANGED <<r, up>>
                 ELSE /\ \E i \in end : r' = [r EXCEPT !["client"].rbuf = Skip(in, i)]
                      /\ up' = [up EXCEPT !["client"] = "yes"]
                      /\ UNCHANGED ended
    /\ UNCHANGED <<conf, written, w, link, got, pr, under, raced>>

(* Mutated: what was held back is not sent with the last message. *)
TlsAnswerKeeps ==
    /\ AwaitsAnswer /\ Tls
    /\ \E n \in 1..Len(wire["server"]) :
          /\ wire' = [wire EXCEPT !["server"] = Skip(@, n)]
          /\ IF Take(wire["server"], n) = Header
             THEN /\ ob' = [ob EXCEPT !.flush = <<Unit("finished", 0, 0)>>]
                  /\ up' = [up EXCEPT !["client"] = "yes"]
                  /\ raced' = (raced \/ ob.hold # <<>>)
                  /\ UNCHANGED ended
             ELSE /\ ob' = [ob EXCEPT !.cut = TRUE]
                  /\ ended' = [ended EXCEPT !["client"] = "error"]
                  /\ UNCHANGED <<up, raced>>
    /\ UNCHANGED <<conf, written, w, link, r, got, pr, under>>

(* tls12TicketConn.Read takes the bytes of one Read for the whole answer.  *)
(* Its Write(nil) empties sendBuf behind the client's last message and     *)
(* sets handshakeStatus, and then sends.                                   *)
TlsAnswer ==
    /\ AwaitsAnswer /\ Tls
    /\ \E n \in 1..Len(wire["server"]) :
          /\ wire' = [wire EXCEPT !["server"] = Skip(@, n)]
          /\ IF Take(wire["server"], n) = Header
             THEN /\ ob' = [ob EXCEPT !.flush = <<Unit("finished", 0, 0)>> \o ob.buf, !.buf = <<>>]
                  /\ up' = [up EXCEPT !["client"] = "yes"]
                  /\ raced' = (raced \/ ob.hold # <<>>)
                  /\ UNCHANGED ended
             ELSE /\ ob' = [ob EXCEPT !.cut = TRUE]
                  /\ ended' = [ended EXCEPT !["client"] = "error"]
                  /\ UNCHANGED <<up, raced>>
    /\ UNCHANGED <<conf, written, w, link, r, got, pr, under>>

(* randomHeadConn.Read drops what it reads first, be it an error.  It sets *)
(* rawTransRecv, and its Write(nil) begins to send the buffer.             *)
RandomAnswer ==
    /\ AwaitsAnswer /\ conf.transport = "random"
    /\ \E n \in 0..Len(wire["server"]) :
          /\ n = 0 => wire["server"] = <<>> /\ link["server"] # "open"
          /\ wire' = [wire EXCEPT !["server"] = Skip(@, n)]
          /\ ob' = [ob EXCEPT !.flush = ob.buf, !.cut = (n \notin {0, Len(Header)})]
    /\ up' = [up EXCEPT !["client"] = "recv"]
    /\ raced' = (raced \/ ob.hold # <<>>)
    /\ UNCHANGED <<conf, written, w, link, r, got, ended, pr, under>>

(* The held bytes are out; random_head forgets its buffer only now. *)
Flush ==
    /\ link["client"] = "open" /\ ob.flush # <<>>
    /\ wire' = [wire EXCEPT !["client"] = @ \o ob.flush]
    /\ ob' = [ob EXCEPT !.flush = <<>>, !.buf = IF Tls THEN @ ELSE <<>>]
    /\ up' = [up EXCEPT !["client"] = "yes"]
    /\ UNCHANGED <<conf, written, w, link, r, got, ended, pr, under, raced>>

----------------------------------------------------------------------------
(* Reading. *)

(* The client's Read ends anywhere in the stream. *)
Reads(e, s) == IF e = "client" THEN 1..Len(s) ELSE {Len(s)} \ {0}

(* What underDecoded of tls1.2_ticket_auth begins with. *)
Whole(s) == s # <<>> /\ (Head(s).kind = "record" => Len(s) > Head(s).val)

(* The loop of tls12TicketConn.Read, one record at a time. *)
TlsRecord(e) ==
    LET s == under[e]
        n == IF Head(s).kind = "record" THEN Head(s).val ELSE 0
    IN  /\ CanRead(e) /\ Tls /\ Whole(s)
        /\ under' = [under EXCEPT ![e] = Skip(s, n + 1)]
        /\ IF Head(s).kind \in {"record", "finished"}
           THEN r' = [r EXCEPT ![e].rbuf = @ \o SubSeq(s, 2, n + 1)] /\ UNCHANGED ended
           ELSE ended' = [ended EXCEPT ![e] = "error"] /\ UNCHANGED r
        /\ UNCHANGED <<conf, written, w, wire, link, up, got, pr, ob, raced>>

TlsRead(e) ==
    /\ CanRead(e) /\ Tls /\ r[e].rbuf = <<>> /\ ~Whole(under[e]) /\ ob.flush = <<>>
    /\ \E n \in Reads(e, wire[Peer(e)]) :
          /\ under' = [under EXCEPT ![e] = @ \o Take(wire[Peer(e)], n)]
          /\ wire' = [wire EXCEPT ![Peer(e)] = Skip(@, n)]
    /\ UNCHANGED <<conf, written, w, link, r, up, got, ended, pr, ob, raced>>

(* The first frame of underDecoded, for the number it must have: not there *)
(* yet, wrong, or whole.                                                   *)
Size(s) == Head(s).val.pad + Head(s).val.len + 2
Outcome(s, id) ==
    CASE s = <<>> -> "short"
      [] s # <<>> /\ (Head(s).kind # "head" \/ Head(s).val.id # id) -> "wrong"
      [] OTHER -> IF Size(s) > Len(s) THEN "short"
                  ELSE IF s[Size(s)].kind = "mac" /\ s[Size(s)].val = id THEN "whole" ELSE "wrong"

Expected(e) == IF conf.protocol = "auth_sha1_v4" THEN 0 ELSE pr[e].recvID

(* One round of the loop in Decode: a wrong frame is an error, a whole one *)
(* goes to decoded without its padding and its first skip units.           *)
Decode(e, skip) ==
    LET s == pr[e].underDecoded
        data == SubSeq(s, Head(s).val.pad + 2 + skip, Size(s) - 1)
    IN  /\ CanRead(e) /\ Outcome(s, Expected(e)) # "short"
        /\ IF Outcome(s, Expected(e)) = "wrong"
           THEN /\ pr' = [pr EXCEPT ![e].underDecoded = <<>>]
                /\ ended' = [ended EXCEPT ![e] = "error"]
                /\ UNCHANGED r
           ELSE /\ pr' = [pr EXCEPT ![e].underDecoded = Skip(s, Size(s)), ![e].recvID = @ + 1]
                /\ r' = [r EXCEPT ![e].left = @ \o [i \in DOMAIN data |-> data[i].val]]
                /\ UNCHANGED ended
        /\ UNCHANGED <<conf, written, w, wire, link, up, got, ob, under, raced>>

Sha1Decode(e) == conf.protocol = "auth_sha1_v4" /\ Decode(e, 0)
AesDecode(e) == conf.protocol = "auth_aes128" /\ Decode(e, 0)
ChainDecode(e) ==
    /\ conf.protocol = "auth_chain"
    /\ Decode(e, IF e = "client" /\ pr[e].recvID = 1 THEN 1 ELSE 0)

(* The first packet of the client (external). *)
Authenticated(b) == IF b # <<>> /\ Head(b).kind = "auth" THEN Tail(b) ELSE b

(* protocol.Conn.Read: decoded is empty, and underDecoded has no frame.    *)
Decrypted(e, b) ==
    [i \in DOMAIN b |-> IF b[i].seq = r[e].seq + i THEN b[i] ELSE Unit("garbage", 0, 0)]

ProtocolRead(e) ==
    /\ CanRead(e) /\ Auth /\ r[e].ready /\ r[e].left = <<>>
    /\ Outcome(pr[e].underDecoded, Expected(e)) = "short"
    /\ \E t \in TransportRead(e, Len(r[e].rbuf) + Len(wire[Peer(e)])) :
          /\ e = "client" \/ r[e].rbuf # <<>> \/ t.wire = <<>>
          /\ wire' = [wire EXCEPT ![Peer(e)] = t.wire]
          /\ r' = [r EXCEPT ![e].rbuf = t.rbuf, ![e].seq = @ + Len(t.bytes)]
          /\ pr' = [pr EXCEPT ![e].underDecoded = Authenticated(@ \o Decrypted(e, t.bytes))]
    /\ UNCHANGED <<conf, written, w, link, up, got, ended, ob, under, raced>>

----------------------------------------------------------------------------
(* NewSSRClientStreamCipher and ShadowsocksR.StreamConn.  The protocols    *)
(* are checked over plain: they see only the stream of the cipher.         *)
SsrConf ==
    [cipher : {"stream"}, transport : {"http", "random", "tls"}, sameHost : {TRUE}, protocol : {"origin"}]
      \cup [cipher : {"stream"}, transport : {"tcp"}, sameHost : {TRUE},
            protocol : {"auth_sha1_v4", "auth_aes128", "auth_chain"}]

(* The packet with the auth data has the number 0 in auth_aes128. *)
FirstID(writer) == IF conf.protocol = "auth_aes128" /\ writer = "client" THEN 0 ELSE 1

Init ==
    /\ conf \in SsConf \cup SsrConf
    /\ TunnelInit
    /\ pr = [e \in End |-> [hasSentHeader |-> e = "server", underDecoded |-> <<>>,
                            packID |-> FirstID(e), recvID |-> FirstID(Peer(e))]]
    /\ ob = [buf |-> <<>>, hold |-> <<>>, flush |-> <<>>, cut |-> FALSE]
    /\ under = [e \in End |-> <<>>] /\ raced = FALSE

(* The client's reading goroutine sends what was held, or will not look at *)
(* the result of its Read.                                                 *)
Busy(e) == e = "client" /\ (ob.flush # <<>> \/ (conf.transport = "random" /\ up[e] = "drain"))

Undecoded(e) == Whole(under[e]) \/ (Auth /\ Outcome(pr[e].underDecoded, Expected(e)) # "short")

SsrReading(e) ==
    \/ Reading(e) /\ UNCHANGED ssrVars
    \/ TlsRecord(e) \/ TlsRead(e) \/ ProtocolRead(e)
    \/ Sha1Decode(e) \/ AesDecode(e) \/ ChainDecode(e)

Reader(e) == ~Busy(e) /\ SsrReading(e)
ReaderEnds(e) == ~Busy(e) /\ ~Undecoded(e) /\ ReadEnds(e) /\ UNCHANGED ssrVars
ReaderFails(e) == ~Busy(e) /\ ReadFails(e) /\ UNCHANGED ssrVars
Answer == HttpAnswer \/ TlsAnswer \/ RandomAnswer \/ Flush

Next ==
    \/ \E e \in End : Reader(e) \/ ReaderEnds(e) \/ ReaderFails(e) \/ SsrInitWriter(e) \/ SsrWrite(e)
    \/ \E e \in End : (Writing(e) \/ Close(e) \/ Dies(e)) /\ UNCHANGED ssrVars
    \/ Handshake /\ UNCHANGED ssrVars
    \/ SsrServerHandshake \/ Answer \/ HoldTests \/ HoldAppends \/ SsrDies

Spec == Init /\ [][Next]_vars

(* The goroutines that read keep calling Read and are scheduled, and a     *)
(* Write that has begun goes on; nobody has to write, to close or to die.  *)
Scheduled ==
    \/ \E e \in End : Reader(e) \/ ReaderEnds(e)
    \/ Handshake /\ UNCHANGED ssrVars
    \/ SsrServerHandshake \/ Answer \/ HoldAppends

FairSpec == Spec /\ WF_vars(Scheduled)

----------------------------------------------------------------------------
(* The client took a part of the server's answer for the whole of it. *)
AnswerCut(e) == e = "client" /\ ob.cut

(* What Read has returned is what the peer wrote, in order, without gap,   *)
(* repetition, padding or header bytes, wherever TCP cut the stream and    *)
(* whatever the sizes of the buffers (remainbuf, rbuf, wbuf, underDecoded, *)
(* nonces, key stream, packID).  What is written during the handshake of   *)
(* an obfuscation keeps its place, unless the Write met its end.           *)
InOrder ==
    \A e \in End :
        raced \/ AnswerCut(e) \/ (/\ Len(got[e]) <= written[Peer(e)]
                                  /\ got[e] = [i \in DOMAIN got[e] |-> i])

(* An end of file means that all was read, unless the peer died within a   *)
(* Write (a cut between the two blocks of aead reads as a clean end), or   *)
(* closed while an obfuscation held back what it had written.              *)
CleanEndIsWhole ==
    \A e \in End :
        ended[e] = "eof" /\ link[Peer(e)] = "closed"
            => \/ Len(got[e]) = written[Peer(e)]
               \/ raced \/ AnswerCut(e)
               \/ e = "server" /\ Held /\ (up["client"] # "yes" \/ ob.flush # <<>>)

MostUnits(e) ==
    LET n == IF e = "client" THEN MaxClient ELSE MaxServer IN IF n < MaxSsr THEN MaxSsr ELSE n

(* Nothing written stays behind in a buffer of either end or fails to      *)
(* decrypt while both ends keep the connection open: the nonces of reader  *)
(* and writer never part, a header held back goes out with the data, and   *)
(* what an obfuscation held back goes out when the server has answered.    *)
AllArrives ==
    \A e \in End : \A n \in 1..MostUnits(Peer(e)) :
        written[Peer(e)] >= n ~>
            \/ Len(got[e]) >= n
            \/ ~conf.sameHost \/ raced \/ ob.cut \/ \E x \in End : link[x] # "open"
=============================================================================
