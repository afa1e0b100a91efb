# mini-ss: models, checks and proofs

mini-ss is a shadowsocks client and server. A client accepts connections (SOCKS5,
HTTP, a TCP or UDP tunnel, a TUN device), decides by rules which node each one
goes to, and relays it there over TCP, QUIC, ssh, websocket or grpc; a server
accepts what clients send and relays it to the targets. This directory models the
parts where goroutines share state, and the life of a connection: the name an
application asks for, the handshake with the client, the rules, the relay or the
interception, and the encrypted stream between client and server.

## The system and the modules

| part of the code | modules | what is modelled |
|---|---|---|
| `util/cache` | `Lists`, `CacheOps`, `SerialCache`, `LruCache` | the LRU cache, one step per lock section; `SerialCache` is the atomic cache it should be |
| `resolver/pool.go`, `fakeip.go` | `IPPool`, `FakeIP`, `FakeIPConc` | fake addresses for host names; `FakeIPConc` composes concurrent queries with `LruCache` |
| `enhancer/handler.go`, `resolver/dns_server.go`, `Resolver.Query` | `Enhancer` | the DNS hijack and the connections of applications, composed with `FakeIP`; a record's reply is one object all its requests share |
| `util/trie` | `DomainTrie` | insertion of domain patterns and search, with wildcards |
| `rule`, `selector`, `BuildRuler` of `config` | `RuleSelect` | all kinds of rules over `DomainTrie`, and the route of a connection over the shared `Ruler.matched` |
| `resolver/resolver.go` | `DnsLookup` | shared lookups over several nameservers |
| `relay/udp_natmap.go` | `UdpNat` | the server's UDP relay |
| `relay/udp.go`, `address`, packet connections of `ss/aead`, `ss/stream`, `ssr/protocol` | `Datagrams`, `PacketRelay` | the client's UDP relay with its filter and its packet ciphers, composed with the server's framing; any address may send to it |
| `transport/conn_pool.go`, QUIC and ssh dialers | `ConnPool` | pooled connections, shared dials, retries |
| `transport/tcp_dialer.go`, `relay/tcp.go` | `StreamRelay` | dual-stack dial and the two copies of a TCP relay |
| `proxy/mitm.go`, `interceptor.go`, `proxy-addons` | `Mitm` | the interception of a connection, over the dial of `StreamRelay`: TLS, a request and its response or websockets, and the chains of addons |
| `ss/socks.go`, `http.go`, `mixed.go`, `tcptun.go`, `ss_server.go`, `server/server_conn.go` | `Inbound` | an accepted connection, composed with `StreamRelay` and `Mitm`: handshake, rules, tracker, relay or interception, close |
| `ss/aead`, `ss/stream`, `connection/obfs.go`, `ws.go`, `grpc.go` | `TunnelStream` | the stream of both ends: cipher connection over transport |
| `ssr/obfs`, `ssr/protocol` | `SsrStream` | the same for ShadowsocksR, composed with `TunnelStream`: obfuscation handshakes, held-back data, frames of the protocols |
| `server`, `ss/ss_client.go`, `ss_server.go`, `cmd/local.go`, `cmd/server.go` | `ServerGroup` | start, failure and close of the servers of a client or a server program |

Variables carry the names of the fields and locals they stand for; `pc`, `main`,
`up` and the like say where a goroutine is. A step ends where another goroutine
can intervene: at a lock, a channel operation, an atomic or unprotected shared
field, or blocking I/O. `PROJECT.json` gives the lines of every definition.
Operators introduced by a comment "Mutated" are plausible wrong versions of the
definition that follows. They are used to confirm that the properties notice them
and are not part of any specification.

## Runs

| run | what it checks | result |
|---|---|---|
| `LruConcurrent` | two callers, cleanup and Stop overlap: `MapWithinList`, `SizeBound`, `ExpiredCollected`, `StopEndsWorkers` | holds |
| `LruSerial` | calls that do not overlap: `ImplementsSerialCache`, `EvictedOnce` | holds |
| `Enhancer` | applications ask and connect, caches overfull: `PoolExact`, `AddressesDistinct`, `NeverMisrouted`, `ReachesHost`, `StableWhileLive` | holds |
| `FakeIPRace` | concurrent queries: `HeldNotAvailable` | fails |
| `RuleSelect` | two connections, every mode, every kind of rule: `MatchedNeverNil`, `UncoveredDropped`, `RoutedWhenAlone` | holds |
| `DnsLookup` | shared lookups: `FailureIsGenuine`, `NobodyForgotten`, and no deadlock | holds |
| `UdpNat` | `CacheIsHandlers`, `OnlySolicited`, `AllConnsClosed` | holds |
| `PacketRelay` | every mode, family and packet cipher, endpoints by address or name, datagrams from anybody: `RequestsIntact`, `AnswersIntact`, `EndsTogether` | holds |
| `ConnPool` | both dialers: `SlotUsable`, `ClosedOnlyIfFailed`, `DialReturns` | holds |
| `Inbound` | a SOCKS or an HTTP server with users, an intercepting mixed server with and without, a tunnel or a shadowsocks server: `AdmittedOnly`, `OutboundClosed`, `TrackerGone`, `NoStrayRequest`, `ClientGone`; its relay: `EofIsComplete`, `LoserClosed`, `EndsTogether` | holds |
| `SsrStream` | every cipher kind over every transport, every obfuscation, every protocol: `InOrder`, `CleanEndIsWhole`, `AllArrives` | holds |
| `ServerGroup` | a client, or a server with every pair of server kinds: `NothingLeftRunning`, `ClientUndone`, `FailureStopsAll`, `CloseStopsAll` | holds |

What a deployment configures is chosen in the initial state, so one run covers all
of it: the rule mode, the relay mode and the families of its endpoints, the dialer
of a pool, the kinds of the servers, the number of nameservers, the cipher, the
transport, the obfuscation and the protocol.

`FakeIPRace` fails because the code disagrees with its own test: two queries for one
host take the same address, and the eviction of one record releases it under the
other. A second disagreement is one of words: a mixed server checks users with the
handlers it is made of, as `AdmittedOnly` says, although the comment of `newMixedServer`
has it that "mixed proxy mode does not support SOCKS and HTTP authentication"
(`ss/mixed.go:19`).

Some properties stop short of what one may expect, because the code does:

- `RoutedWhenAlone` is about connections that do not overlap (the variable `mixed`
  records which ones do) and about the modes global and direct. In the mode match,
  `Ruler.Select` reads the rule that was stored last, and a connection may be sent
  where another one's rule sends it, although the comment of `Select` speaks of
  "the currently matched rules" (`rule/rule.go:136`).
- `TrackerGone` excepts an HTTP connection whose dial failed: the deferred removal
  is commented out in `http.go`, and nobody closes the tracker.
- `ClientGone` excepts a UDP association: the goroutine that waits for its TCP
  connection ends without ending the association. It is conditional on `NobodyBlocks`:
  the other side does not hold a dial, a handshake, a write or an answer up for ever,
  for which the code has no deadline.
- `OutboundClosed` names the two ways in which a dialled connection is left open: an
  address for a proxy that does not parse (`relay/tcp.go`), and a
  TLS handshake with the client that fails after the dial it contains
  (`proxy/mitm.go`, where the deferred close comes later).
- An intercepting HTTP server never asks the rules; `AdmittedOnly` says so. Of the
  addons it says that a flow which one of them rejects goes no further, unless an
  earlier one ended the chain before.
- `NothingLeftRunning` excepts the socket of a server whose configuration (a key, a
  certificate) fails after the socket was opened, and the UDP socket under a QUIC
  listener (`ln` is "bound"), which nothing closes.
- `ReachesHost` is about connections whose record is still cached. After an expiry
  the address may belong to another host, as with any DNS answer that is kept too long.
- `EofIsComplete` is about relays: the pumps of an intercepted websocket end with an
  error only. It allows for what came in one read with an HTTP request: the
  `bufio.Reader` of `ReadRequest` is dropped with it.
- `NoStrayRequest` says that a goroutine which reads a recycled request buffer cannot
  send what it finds. The connection that owns the buffer by then misses it.
- `CleanEndIsWhole` is about peers that closed. One that died between the two blocks
  of an aead chunk looks the same to `io.ReadFull`.
- `AnswersIntact` excludes a tunnel through a server whose address is of another
  family than the remote's: `udpWriteToSrc` cuts the header by the length of the
  server's address, though the datagram holds the remote's. When the datagram is shorter
  than that, the slice is out of range and the program ends (`DownPanics`); so it does on
  a datagram shorter than the IV of a stream cipher. `EndsTogether` allows for this.
- Of a direct tunnel, `AnswersIntact` says only that somebody sent the data: the tunnel
  passes no server address, and the filter of `IoCopyBidirectionalForPacket` lets
  everything through. With a server, the filter compares texts, and a server that is
  configured by name never equals the address of its answers: all are dropped.
- `RequestsIntact` and `AnswersIntact` except relays under a stream cipher in which a
  `WriteTo` met a `ReadFrom` (`raced` in `PacketRelay`): both use `packetConn.buf`.
- `InOrder`, `CleanEndIsWhole` and `AllArrives` except connections in which a `Write`
  met the end of the handshake of random_head or tls1.2_ticket_auth half way (`raced`
  in `SsrStream`): the reading goroutine empties the buffer the writing one appends to.
  They also except a client that received the server's answer in several reads
  (`ob.cut`), for all three obfuscations take the first read for the whole answer.
- `CleanEndIsWhole` further excepts a client that closes before its obfuscation has
  sent what it held back: those bytes are lost.
- `Get` of the cache tests expiry before it takes the lock and may delete an entry
  that a concurrent `Set` has renewed; nothing here says that it does not.
- `OnlySolicited` says what a source does not hear. It also does not hear from any
  remote but the first one its socket was opened for.
- `DialReturns` says that every caller comes back, not that every dial does: the ssh
  handshake has neither context nor deadline, and the caller leaves it when its own
  context ends.
- `DnsLookup` says nothing of time: after the last nameserver was asked and the
  ticker fired, a reply waits until all the others have ended.
- `ClosedOnlyIfFailed` is about QUIC; the ssh dialer closes whatever the slot
  holds. With both, a caller that found the slot empty may dial after another one
  filled it, and the connection it replaces stays open.
- With caches smaller than the number of live hosts, a host may keep a fake
  address that no longer resolves back to it; `StableWhileLive` allows this only when
  `ipCache` makes room.

### Bounds

Two callers are enough for each race between a test and the write after it. Sizes
are the least at which the limit is reached: caches of one or two entries, a prefix
of eight addresses, two slots and three connections. The clock is bounded
(`MaxNow`). `LruConcurrent` has a cache of one entry and two elements, so that an
element a caller still carries can have lost its place to another; the theorems
cover larger ones. `LruSerial` has two callers whose calls do not overlap,
the cleanup and Stop between them. It needs `Expiration = 2`: with 1 a live entry cannot
be renewed to a later time, and a Get that forgets `MoveToBack` would be a stutter
of `SerialCache`. `Enhancer` has two applications
and three hosts, of which two hash to one address, caches of two, a listed and a
filtered name, and one hijacked and one other DNS server. `RuleSelect` has one set of
rules, chosen so that patterns overlap, a branch of the trie ends without data, a
matcher resolves for the next one, and a node does not exist. `DnsLookup` has two callers and one nameserver, or one caller and
two (`MaxLoad`); two of both is not checked. `FakeIPRace` has two hosts. Streams
are counted in chunks: in `Inbound` one each way and the buffered request.
`AbortIndex` is 2 instead of 63, with chains of up to three addons: the longest at which
`abort` still ends a chain (`MitmAssumption`). A mixed
server calls the handlers of a SOCKS and of an HTTP server; the two are also run on their
own, without interception. Trackers are enabled. `SsrStream` has three units one way and one the other, with chunks
of at most two (`MaxPayload`): a chunk and a rest, a read that ends inside a chunk,
and an answer. Over obfs and with ShadowsocksR there are two units (`MaxObfs`,
`MaxSsr`), with one unit a frame (`MaxFrame`) and at most one of padding (`MaxPad`), so
that a Write makes several frames. Obfuscations are checked with the protocol origin
and protocols over plain: each sees only the stream of the layer below. The server end
of ShadowsocksR is not in the repository; it reads whatever has arrived. In
`PacketRelay` what is encrypted is one block that only its key opens; there are two
addresses of each family, a name of one of them, one payload, and the requests and answers
are recorded until two uses of a stream cipher's buffer have overlapped (`Note`).
`ServerGroup` has two servers; a client's are plain TCP servers, a server's of any kind,
the first with a UDP relay.
Symmetry is used in runs without liveness only.

Deadlock is checked for the cache, fake address, rule and DNS models. In
`DnsLookup` callers ask once, so the state graph has no cycles but the final
stutter `Rest`; without deadlock every lookup returns. In the others the relay or
the client ends, so a final state is expected.

### Fairness

Weak fairness of goroutine steps (the Go scheduler), of exchanges and dials that
have a timeout in the code, and of reads on a closed socket; strong fairness of
the exit of the cache's `check`, whose `select` picks at random among ready cases.
In `ConnPool` the callers are scheduled and their contexts end, for all have a timeout;
no dial need end. In `Inbound` a read of the handshake ends once the client, or the
server where it is read, has finished sending; the TCP dial has a deadline, that of an
interception has none, and neither has a write to a connection that stays open; a packet
relay need not end; in `SsrStream` the reading goroutines, the server's
answer to a handshake and a Write that has begun are scheduled, as one weakly fair
disjunction.
Peers are never assumed to send, answer or go away. `FailureStopsAll` and
`CloseStopsAll` are therefore conditional on `PeersGo`: GracefulStop waits for grpc
streams, and an ssh handshake runs inside the accept loop. A `Serve` of websocket or grpc
may fail by itself (`ServeFails`), and nothing says that it does.

## Proofs

TLAPS proves, for every value of the constants allowed by the assumptions:

- `LruCacheProofs`: `TypeOK`, `MapWithinList` and `SizeBound`, from
  `CacheAssumption`. Their conjunction `IInv` is inductive: the bound needs a list
  without repetition, and the map can only lead into the list if the types say
  which element a caller carries across a lock. One lemma each treats deletion,
  touching and insertion; every action is an instance of one of them. For calls that do
  not overlap, also `EvictedOnce` and the refinement `ImplementsSerialCache`, for any
  number of keys and any capacity. `SerialInv` says that at most one lock section is
  under way and that map and list then hold the same entries; `View` maps the list of
  elements to the sequence of entries of `SerialCache`, and each lock section is a step
  or a stutter of it.
- `FakeIPProofs`: `TypeOK`, `PoolExact`, `AddressesDistinct`, `NeverMisrouted` and
  `StableWhileLive`, from `PoolAssumption` and `FakeIPAssumption`. `NeverMisrouted` is not
  inductive: it needs `IPCacheCurrent` (what ipCache says of an address is whom it was
  last given to), and exactness and distinctness need each other, because releasing an
  address that two records shared would break both. `StableWhileLive` needs that the two
  caches keep to their size and that the two records of a host expire together
  (`SameExpiry`). `EnhancerSpec => Spec`, so all of it holds of the composed system; and
  `ReachesHost`, for any number of applications. Its invariant `EInv` adds that the owner
  of an address is the host whose record has it, and that what an application has been
  told still is what the record says while the record lives (`Told`).
- `UdpProofs`: `CacheIsHandlers` and `OnlySolicited`, from `NatAssumption`. They need
  what the main loop knows between its two critical sections (`Holding`: nobody else
  adds entries) and what a handler knows (`Serving`: its socket is closed before it
  removes its entry). And `RequestsIntact` and `AnswersIntact`, from `RelayAssumption` and
  `DatagramAssumption`: lemmas say that each packet cipher and each header gives back
  what went in, and the invariant follows a datagram through the buffer it shares with
  the opposite direction: what has arrived is the server's, or will be filtered
  (`DownHolds`).
- `DnsLookupProofs`: `FailureIsGenuine` and `NobodyForgotten`, from `LookupAssumption`, for
  any number of callers and nameservers. `LInv` says that a shared lookup knows every
  nameserver it has asked, and that the reply channel can be closed empty only while
  none of them has succeeded.
- `LifecycleProofs`: `SlotUsable` and `ClosedOnlyIfFailed`, from `PoolSizeAssumption`. The
  point is `Home`: a connection belongs to one slot for good, so a caller that closes
  one empties its own slot and no other. `Holds` ties the connection of a caller that
  closes to those that failed. And `NothingLeftRunning` and `ClientUndone`, from
  `GroupAssumption`, for any number of servers. `Flags` says that a server whose flag was
  cleared has a closed listener or somebody on the way to it, `Opened` who can have an
  open one, `Started` and `Settings` what `Start` has done so far.
- `InboundProofs`: `AdmittedOnly`, `OutboundClosed`, `TrackerGone`, `EofIsComplete` and
  `NoStrayRequest`, from `InboundAssumption`, for streams of any length and any chains.
  `Path` says where handler, relay and interception can be together; `Outbound`, `Tracked`
  and `Stray` follow the connection, the tracker and the buffer along it; `Carried` counts
  what each direction has read and written; `AInv` follows the verdict of the rules and
  the position in the chain of addons.
- `RuleSelectProofs`: `MatchedNeverNil`, `RoutedWhenAlone` and `UncoveredDropped`, from
  `RuleAssumption`, for any rules, patterns and names. `TrieOK` says that the trie
  has the path of every pattern inserted, at its end the last item inserted for it, and
  no other data; search is shown to find nothing only if no pattern covers the name, and
  otherwise the item of the pattern the code prefers (`Right`). The order of the
  rules and the address a matcher leaves for the next one follow by counting up. `RInv`
  then says what a connection knows at each step. That a recursive function has the
  value its definition gives is shown level by level.
- `ListsProofs`: the list operations, for lists of any length; a set of numbers that is
  not empty has a least one (`LeastNumber`), and what holds of 0 and passes on to the next
  number holds up to any bound (`CountUp`).

The concurrency of the caches under `FakeIP` is not covered by its theorems: they are
about calls that do not overlap, and `FakeIPRace` shows that `PoolExact` fails otherwise.

Only model-checked: liveness (`ExpiredCollected`, `StopEndsWorkers`, `AllConnsClosed`,
`EndsTogether`, `LoserClosed`, `DialReturns`, `ClientGone`, `FailureStopsAll`,
`CloseStopsAll`, `AllArrives`), which needs fairness and ENABLED; and `InOrder` and
`CleanEndIsWhole` of `SsrStream`. These two are safety properties within the prover's
reach, but not proved here: an inductive invariant for them has to follow the bytes in
flight through each cipher, framing, protocol and obfuscation and through both
handshakes, wherever TCP cuts them, and its proof is several times as long as any other
in this directory.

The proof modules make Zenon the default backend (`USE ZenonT(30)`) and name `SMT` on the
leaves that need arithmetic, records or sequences. In the longer modules tlapm otherwise
spends so long encoding late obligations for SMT that it gives them up.

## Not modelled

About 37% of the source lines are modelled. What is left falls in five groups.

- Code with no state of its own, or whose state nothing else depends on: the parsing of
  configuration, command line and URLs, logging, the building of option structures, the
  counters and snapshots of the statistics (`Manager` reads a counter and then stores
  zero, so bytes counted in between are missing from one second's figure).
- Code that is one call into a library or the operating system: routes and proxy
  settings, the TUN device, certificates and keys, the wire formats of DNS, QUIC, ssh and
  HTTP, and the ciphers themselves, which are abstract here (a block that only its key
  opens).
- Data the properties do not tell apart: the size of buffers in UDP datagrams, the connection ids and the key derivation of the ShadowsocksR protocols,
  what addons change in a message. Keyword rules are whole labels, the country database
  and address prefixes are sets of addresses.
- Paths of modelled functions that the peers modelled here do not lead into: an aead chunk
  larger than the largest, frames of the ShadowsocksR protocols over their length limits, an
  obfs response that carries a body, the cut of a Write of more than 2048 bytes into
  records (one unit is one record), and a first Write of `http_simple` that fails and
  reports no error.
- Corners of modelled parts: the unlocked iteration over the NAT map, the write buffer
  that the NAT handlers of a server share under a stream cipher, the device a failed
  enhancer start leaves, the UDP relays of a server, which `Close` does not close and which
  end with the process, and the immutable interceptors, which only tests install.
