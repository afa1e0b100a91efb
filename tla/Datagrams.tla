------------------------------ MODULE Datagrams ------------------------------
(***************************************************************************)
(* The layout of UDP datagrams on their way through the relays: package    *)
(* address, and the functions udpReadFromSrc and udpWriteToSrc of          *)
(* relay/udp.go and relay/udp_natmap.go.                                   *)
(*                                                                         *)
(* A datagram is a sequence of bytes.  A byte of an encoded address is the *)
(* pair of the address and the byte's index, so that bytes of different    *)
(* addresses, and what is left of one cut in the middle, are told apart.   *)
(***************************************************************************)
EXTENDS Integers, Sequences, FiniteSets

CONSTANTS V4, V6,    \* endpoints with an IPv4 and with an IPv6 address
          Name,      \* endpoints given by a domain name
          NameLen,   \* the length of the names
          Resolved,  \* what they resolve to
          Payload    \* the bytes of data

Address == V4 \cup V6
Endpoint == Address \cup Name
ASSUME DatagramAssumption ==
    /\ V4 \cap V6 = {} /\ Name \cap Address = {} /\ Payload \cap Endpoint = {}
    /\ NameLen \in 1 .. 255 /\ Resolved \in [Name -> Address]
    /\ "panic" \notin Payload

Short == << >>                 \* what the functions return with an error
Panic == << <<"panic", 0>> >>  \* a slice out of range ends the program

(* net.ResolveUDPAddr. *)
ResolveUDPAddr(a) == IF a \in Name THEN Resolved[a] ELSE a

(* ParseAddressFromHostPort: type, address and port of an endpoint; a name *)
(* has its length before it.                                               *)
AddrLen(a) ==
    CASE a \in V4 -> 1 + 4 + 2
      [] a \in Name -> 1 + 1 + NameLen + 2
      [] OTHER -> 1 + 16 + 2
ParseAddress(a) == [i \in 1 .. AddrLen(a) |-> <<a, i>>]

Data(p) == << <<p, 0>> >>
Reserved == << <<"rsv", 0>>, <<"rsv", 0>>, <<"rsv", 0>> >>
From(b, n) == SubSeq(b, n + 1, Len(b))

(* ParseAddressFromBuffer: the endpoint at the head, none on an error. *)
AddressAt(b) ==
    { a \in Endpoint : Len(b) >= AddrLen(a) /\ SubSeq(b, 1, AddrLen(a)) = ParseAddress(a) }

----------------------------------------------------------------------------
(* What udpReadFromSrc makes of a datagram b of the client, and where to:  *)
(* for a tunnel to remote ("direct", "ss") and for a SOCKS5 client whose   *)
(* datagrams name their target ("socks", "socks+ss"); the relay talks to   *)
(* the target itself or to the shadowsocks server ss.                      *)
udpReadFromSrc(mode, remote, ss, b) ==
    CASE mode = "direct" -> [to |-> {ResolveUDPAddr(remote)}, b |-> b]
      [] mode = "ss" -> [to |-> {ResolveUDPAddr(ss)}, b |-> ParseAddress(remote) \o b]
      [] mode = "socks" ->
           IF Len(b) < 3 \/ AddressAt(From(b, 3)) = {} THEN [to |-> {}, b |-> Short]
           ELSE LET a == CHOOSE x \in AddressAt(From(b, 3)) : TRUE
                IN [to |-> {ResolveUDPAddr(a)}, b |-> From(b, 3 + AddrLen(a))]
      [] mode = "socks+ss" ->
           IF Len(b) < 3 THEN [to |-> {}, b |-> Short]
           ELSE [to |-> {ResolveUDPAddr(ss)}, b |-> From(b, 3)]

(* What udpWriteToSrc makes of a datagram b that came from src: a tunnel   *)
(* through the server cuts the length of src, without asking whether b is  *)
(* that long.                                                              *)
udpWriteToSrc(mode, src, b) ==
    CASE mode = "direct" -> b
      [] mode = "ss" -> IF Len(b) < AddrLen(src) THEN Panic ELSE From(b, AddrLen(src))
      [] mode = "socks" -> Reserved \o ParseAddress(src) \o b
      [] mode = "socks+ss" -> IF Len(b) < 3 THEN Short ELSE Reserved \o b

(* Mutated: the last byte of the address is left. *)
serverReadLeavesPort(b) ==
    IF AddressAt(b) = {} THEN [to |-> {}, b |-> Short]
    ELSE LET a == CHOOSE x \in AddressAt(b) : TRUE
         IN [to |-> {ResolveUDPAddr(a)}, b |-> From(b, AddrLen(a) - 1)]

(* The same two functions of the shadowsocks server (NatmapUDPRelayer). *)
serverReadFromSrc(b) ==
    IF AddressAt(b) = {} THEN [to |-> {}, b |-> Short]
    ELSE LET a == CHOOSE x \in AddressAt(b) : TRUE
         IN [to |-> {ResolveUDPAddr(a)}, b |-> From(b, AddrLen(a))]
serverWriteToSrc(src, b) == ParseAddress(src) \o b
----------------------------------------------------------------------------
(* The packet connections of the ciphers.  What is encrypted is one block: *)
(* the key it takes to read it, and the bytes.                             *)
Block(k, b) == << <<k, b>> >>
IV(k) == << <<"iv", k>> >>
Mark(m) == << <<m, 0>> >>
Sealed(b, m) == Len(b) > 0 /\ b[Len(b)] = <<m, 0>>
Front(b, n) == SubSeq(b, 1, Len(b) - n)
Noise == [i \in 1 .. 20 |-> <<"noise", i>>]    \* as long as any header and some data
Decrypt(k, block) == IF block[1] = k THEN block[2] ELSE Noise
Junk == IV("mixture") \o Block("mixed", << >>)

(* WriteTo and ReadFrom of stream.packetConn, with the key k of a fresh IV. *)
(* Nothing tells a wrong datagram from a right one, and one shorter than   *)
(* the IV leaves a slice of negative length.                               *)
streamWriteTo(k, b) == IV(k) \o Block(k, b)
streamReadFrom(b) == IF Len(b) < 2 THEN Panic ELSE Decrypt(b[1][2], b[2])

(* WriteTo and ReadFrom of aead.packetConn; Open checks the tag. *)
aeadWriteTo(k, b) == IV(k) \o Block(k, b) \o Mark("tag")
aeadReadFrom(b) == IF Sealed(b, "tag") THEN Decrypt(b[1][2], b[2]) ELSE Short

(* EncodePacket and DecodePacket of ShadowsocksR, over the stream cipher.  *)
(* Only the client's datagrams say who the user is.  DecodePacket takes    *)
(* the mac off before it asks whether there is one.                        *)
aesEncodePacket(b) == b \o Mark("uid") \o Mark("mac")
aesDecodePacket(b) ==
    CASE Len(b) = 0 -> Panic
      [] Sealed(b, "mac") -> Front(b, 1)
      [] OTHER -> Short

(* auth_chain encrypts once more, with a key made from the auth data that  *)
(* follows the padding.                                                    *)
chainEncodePacket(b) == Block("rc4", b) \o Mark("pad") \o Mark("auth") \o Mark("uid") \o Mark("mac")
chainDecodePacket(b) == IF Sealed(b, "mac") THEN Decrypt("rc4", Front(b, 4)[1]) ELSE Short

(* makePacketConn and ShadowsocksR.PacketConn: what WriteTo sends and what *)
(* ReadFrom returns, for the cipher c.                                     *)
WriteTo(c, k, b) ==
    CASE c = "none" -> b
      [] c = "aead" -> aeadWriteTo(k, b)
      [] c = "stream" -> streamWriteTo(k, b)
      [] c = "auth_aes128" -> streamWriteTo(k, aesEncodePacket(b))
      [] c = "auth_chain" -> streamWriteTo(k, chainEncodePacket(b))

ReadFrom(c, b) ==
    CASE c = "none" -> b
      [] c = "aead" -> aeadReadFrom(b)
      [] c = "stream" -> streamReadFrom(b)
      [] c = "auth_aes128" ->
           LET d == streamReadFrom(b) IN IF d = Panic THEN Panic ELSE aesDecodePacket(d)
      [] c = "auth_chain" ->
           LET d == streamReadFrom(b) IN IF d = Panic THEN Panic ELSE chainDecodePacket(d)

(* The server's ends of the two protocols of ShadowsocksR (external). *)
ssrServerReadFrom(c, b) ==
    CASE c = "auth_aes128" -> Front(aesDecodePacket(streamReadFrom(b)), 1)
      [] c = "auth_chain" -> chainDecodePacket(streamReadFrom(b))
      [] OTHER -> ReadFrom(c, b)
ssrServerWriteTo(c, k, b) ==
    IF c = "auth_aes128" THEN streamWriteTo(k, b \o Mark("mac")) ELSE WriteTo(c, k, b)
=============================================================================
