------------------------------ MODULE MCInbound ------------------------------
(***************************************************************************)
(* The servers Inbound starts with, and what the addons do: one rejects    *)
(* after the rest has run, one at the end of the longest chain, and one    *)
(* cuts off a rejection.                                                   *)
(***************************************************************************)
EXTENDS Inbound

Conf(kind, auth, mitm) == [kind |-> kind, auth |-> auth, mitm |-> mitm]
MCConfs == {Conf("socks", TRUE, FALSE), Conf("http", TRUE, FALSE),
            Conf("mixed", TRUE, TRUE), Conf("mixed", FALSE, TRUE),
            Conf("tun", FALSE, FALSE), Conf("server", FALSE, FALSE)}

MCChains == {<<"late", "abort">>, <<"pass", "pass", "reject">>, <<"abort", "pass", "reject">>}
=============================================================================
