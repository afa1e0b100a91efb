---------------------------- MODULE MCDnsLookup ----------------------------
EXTENDS DnsLookup, TLC
Symmetry == Permutations(Caller)
=============================================================================
