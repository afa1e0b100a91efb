CONSTANTS
    NIL = NIL
    ha = ha
    hb = hb
    hc = hc
    Host = {ha, hb, hc}
    App = {p1, p2}
    HostsFile = {"listed"}
    Filtered = {"filtered"}
    Server = {"loopback", "public"}
    DnsHijack = {}
    Size = 8
    TunAddr = 0
    Hash <- MCHash
    MaxSize = 2
    TTL = 2
    MaxNow = 2
SPECIFICATION EnhancerSpec
SYMMETRY Symmetry
INVARIANTS PoolExact AddressesDistinct NeverMisrouted ReachesHost
PROPERTY StableWhileLive
