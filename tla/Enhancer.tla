------------------------------- MODULE Enhancer -------------------------------
(***************************************************************************)
(* enhancer/handler.go with Resolver.Query and resolver/dns_server.go:      *)
(* applications ask for names, their DNS requests are answered with fake    *)
(* addresses (FakeIP), and their connections to those addresses, which      *)
(* arrive on the TUN device, are turned back into names.  A record's reply  *)
(* is one object that all requests for its host share: a request fills in   *)
(* its own question and packs the message in a later step.                  *)
(***************************************************************************)
EXTENDS FakeIP

CONSTANTS
    App,        \* applications, one request or connection at a time each
    HostsFile,  \* names with an address in the hosts file
    Filtered,   \* DefaultDomainFilter, names that are resolved for real
    Server,     \* DNS servers the applications are set up with
    DnsHijack   \* config.DnsHijack, among them perhaps "any"

VARIABLES
    app,        \* what each application is at, and what it knows
    linked      \* those whose answer is from a record that is still cached; while
                \* relaying, those for which it was when they connected

evars == <<vars, app, linked>>

Idle == [at |-> "idle", name |-> NIL, addr |-> NIL, carries |-> NIL, went |-> NIL]

EnhancerInit ==
    /\ Init
    /\ app = [p \in App |-> Idle] /\ linked = {}

\* Those a step on the caches leaves with their record.
Kept ==
    {p \in linked : app[p].at = "relay" \/ cache'.ent[app[p].name] = cache.ent[app[p].name]}

\* pool.Contains; one address stands for all those outside the prefix.
IsFakeIP(a) == a \in Pool
RealAddr == Size

\* isNeedHijackDNS: the loopback and the fake DNS server always, others by DnsHijack.
isNeedHijackDNS(s) == s \in {"loopback", "fakeDns"} \cup DnsHijack \/ "any" \in DnsHijack

\* record.Reply.SetReply(req): the id and the question of request p, in the reply
\* that every request for this record holds and has not packed.
SetReply(p, h) ==
    [q \in App |-> IF q \in Kept /\ app[q].name = h /\ app[q].at = "reply"
                   THEN [at |-> "reply", name |-> h, addr |-> app[q].addr, carries |-> p, went |-> NIL]
                   ELSE app[q]]

\* hijackDNSForTCP, hijackDNSForUDP and serveDNS call Query.  A type A request for a
\* name in neither file nor filter gets a fake address, unless none is left; other
\* types get a reply without an answer, which changes nothing.
QueryFake(p, h) ==
    /\ app[p].at = "idle"
    /\ \E s \in Server : isNeedHijackDNS(s)
    /\ QueryHit(h) \/ QueryMiss(h)
    /\ IF ~Has(cache', h) THEN linked' = Kept /\ UNCHANGED app
       ELSE /\ linked' = Kept \cup {p}
            /\ app' = [SetReply(p, h) EXCEPT ![p] =
                          [at |-> "reply", name |-> h, addr |-> cache'.ent[h].val,
                           carries |-> p, went |-> NIL]]

\* Query of a name in the hosts file or the filter; and a DNS server that is not
\* hijacked, which knows every name.  The address is a real one, or the lookup fails.
QueryReal(p) ==
    /\ app[p].at = "idle"
    /\ HostsFile \cup Filtered # {} \/ \E s \in Server : ~isNeedHijackDNS(s)
    /\ app' = [app EXCEPT ![p] =
                  [at |-> "known", name |-> NIL, addr |-> RealAddr, carries |-> NIL, went |-> NIL]]
    /\ UNCHANGED <<vars, linked>>

\* The application is back where it started.
Forget(p) == app' = [app EXCEPT ![p] = Idle] /\ linked' = linked \ {p}

\* PackBuffer and the write.  The application drops a reply that carries the id of
\* another request.
Pack(p) ==
    /\ app[p].at = "reply"
    /\ IF app[p].carries # p THEN Forget(p)
       ELSE /\ app' = [app EXCEPT ![p] = [at |-> "known", name |-> app[p].name, addr |-> app[p].addr,
                                          carries |-> NIL, went |-> NIL]]
            /\ UNCHANGED linked
    /\ UNCHANGED vars

\* A connection that is relayed to the host or address w.
Relayed(p, w) ==
    app' = [app EXCEPT ![p] = [at |-> "relay", name |-> app[p].name, addr |-> NIL, carries |-> NIL, went |-> w]]

\* HandleTCPConnection to a real address: the address itself is matched.
ConnectReal(p) ==
    /\ app[p].at = "known" /\ ~IsFakeIP(app[p].addr)
    /\ Relayed(p, RealAddr)
    /\ UNCHANGED <<vars, linked>>

\* HandleTCPConnection to a fake one: IsFakeIP, then FindByIP; an address nobody has
\* is refused.  After that the rules may drop the connection, or Select may fail.
ConnectFake(p) ==
    LET a == app[p].addr IN
    /\ app[p].at = "known" /\ IsFakeIP(a)
    /\ IF Has(ipCache, a) THEN FindByIP(a) ELSE UNCHANGED vars
    /\ \/ app' = [app EXCEPT ![p] = Idle] /\ linked' = Kept \ {p}
       \/ Answer(a) # NIL /\ Relayed(p, Answer(a)) /\ linked' = Kept

\* The relay ends; or the application forgets what it knew, or sends a datagram to a
\* fake address, which HandleUDPConnection discards.
Ends(p) ==
    /\ app[p].at \in {"relay", "known"}
    /\ Forget(p)
    /\ UNCHANGED vars

Background ==
    /\ \/ \E h \in Host : CleanupHost(h)
       \/ \E a \in Pool : CleanupIP(a)
       \/ Tick
    /\ linked' = Kept /\ UNCHANGED app

EnhancerNext ==
    \/ \E p \in App :
          \/ \E h \in Host : QueryFake(p, h)
          \/ QueryReal(p) \/ Pack(p) \/ ConnectReal(p) \/ ConnectFake(p) \/ Ends(p)
    \/ Background

EnhancerSpec == EnhancerInit /\ [][EnhancerNext]_evars
-----------------------------------------------------------------------------
\* A connection to the address an application was told for a host goes to that host,
\* if the record the answer came from was still cached: whatever other requests,
\* expiries and evictions came between Query and HandleTCPConnection.
ReachesHost ==
    \A p \in linked : app[p].at = "relay" => app[p].went = app[p].name

\* A host keeps its address while its record lives, and the address leads back to
\* it: no step changes the address of a live record, only making room for another
\* host removes one, and FindByIP loses one only when ipCache makes room.
StableWhileLive ==
    [][\A h \in Host : Has(cache, h) /\ ~Expired(cache, h, now) =>
          IF ~Has(cache', h) THEN Victims(cache, MaxSize) = {h}
          ELSE /\ cache'.ent[h].val = IPOf(h)
               /\ Answer(IPOf(h)) = h /\ ~Expired(cache, h, now') =>
                     Answer(IPOf(h))' = h \/ Victims(ipCache, MaxSize) = {IPOf(h)}]_evars
=============================================================================
