-------------------------------- MODULE IPPool --------------------------------
(***************************************************************************)
(* resolver/pool.go: the addresses of the TUN prefix and which are in use.  *)
(* An address is its offset from the network address of the prefix; `used`  *)
(* is the set of addresses whose flag is set.                               *)
(***************************************************************************)
EXTENDS Integers, FiniteSetsExt

CONSTANTS
    Size,       \* addresses in the prefix, 2^(32 - bits); /32 is refused
    TunAddr,    \* the offset of cidr.Addr(), the address asked for the TUN device
    Host,       \* domain names
    Hash        \* adler32(host) % capacity, as an address

\* A prefix of two addresses keeps both, a larger one loses network and broadcast.
hmin == IF Size = 2 THEN 0 ELSE 1
hmax == IF Size = 2 THEN 1 ELSE Size - 2
Pool == hmin..hmax

ASSUME PoolAssumption ==
    /\ Size \in Nat /\ Size >= 2
    /\ TunAddr \in 0..(Size - 1)
    /\ Hash \in [Host -> Pool]

FirstFree(used) == Min(Pool \ used)

\* allocateFor: the address asked for, in use or not, else the first free one;
\* -1 when there is none.
allocateFor(used, a) ==
    IF a \in Pool THEN a
    ELSE IF Pool \ used # {} THEN FirstFree(used) ELSE -1

\* Allocate: the address the host hashes to, else the first free one.  It has
\* failed when the address it returns is in use.
Allocate(used, h) ==
    IF Hash[h] \in used /\ Pool \ used # {} THEN FirstFree(used) ELSE Hash[h]

\* Mutated: the index is off by one.
ReleaseBelow(used, a) == used \ {a - 1}

Release(used, a) == used \ {a}

\* newFakeIPResolver sets the TUN device's and the fake DNS server's address aside;
\* it fails without the first and goes on without the second.
TunIP == allocateFor({}, TunAddr)
DnsIP == allocateFor({TunIP}, TunIP + 1)
Reserved == {TunIP, DnsIP} \ {-1}
=============================================================================
