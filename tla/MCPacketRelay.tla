--------------------------- MODULE MCPacketRelay ---------------------------
(* PacketRelay with names of an IPv6 address that is not a server's. *)
EXTENDS PacketRelay

MCResolved == [n \in Name |-> CHOOSE a \in V6 : a \notin Server]
=============================================================================
