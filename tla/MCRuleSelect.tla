---------------------------- MODULE MCRuleSelect ----------------------------
(* Small configurations of the rules for TLC. *)
EXTENDS RuleSelect, TLC

CONSTANTS ip1, ip2, ip3

Rule(proxy, accept, resolve, value) ==
    [mode |-> "match", proxy |-> proxy, accept |-> accept, resolve |-> resolve, value |-> value]

(* Domain patterns that overlap: the path of the first one ends without    *)
(* data where the second one goes on; a keyword; suffixes, of which one is *)
(* given twice; a geoip matcher, whose first item resolves what the second *)
(* one then sees; an ipcidr matcher with a rule that names no node; and no *)
(* Others.  The node "gone" is not registered.                             *)
MCRules == << << Rule("node1", FALSE, FALSE, << <<"www", "ads", "com">>, <<"a", "">> >>),
                 Rule("node2", TRUE, FALSE, << <<"img", "*", "com">>, <<"", "b", "*">> >>) >>,
              << Rule("direct", TRUE, FALSE, << "web" >>) >>,
              << Rule("node1", TRUE, FALSE, << <<"org">>, <<"a", "org">> >>),
                 Rule("gone", TRUE, FALSE, << <<"org">> >>) >>,
              << Rule("direct", TRUE, TRUE, {ip1}), Rule("global", TRUE, FALSE, {ip2}) >>,
              << Rule("", TRUE, TRUE, {ip3}) >>,
              << Rule("", TRUE, FALSE, <<>>) >> >>

MCName == { <<"www", "ads", "com">>, <<"img", "ads", "com">>, <<"a", "b", "net">>, <<"web", "net">>,
            <<"org">>, <<"b", "a", "org">>, <<"x", "net">>, <<"net">> }
MCLookup == [n \in Name |-> CASE n = <<"org">> -> ip1 [] n = <<"x", "net">> -> ip2 [] OTHER -> NIL]

Symmetry == Permutations(Conn)
=============================================================================
