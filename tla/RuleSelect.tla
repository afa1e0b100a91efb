----------------------------- MODULE RuleSelect -----------------------------
(***************************************************************************)
(* How a connection gets its route: rule.Ruler.Match, Ruler.Select and     *)
(* selector.Selector.Select, called in that order by every inbound handler *)
(* (enhancer/handler.go, ss/http.go, ss/socks.go, ss/tcptun.go).           *)
(*                                                                         *)
(* There is one Ruler for the process.  It keeps the rule that matched in  *)
(* its field matched, and each matcher keeps its own last match in its     *)
(* field result; neither is protected by a lock, and the handlers run      *)
(* concurrently.  Each access of a shared field is a step of its own.      *)
(*                                                                         *)
(* A target is a name, as the sequence of its labels, or an IP address.    *)
(* There is a matcher for each type of rule, in the order of               *)
(* IndexToRuleType.  The values of a domain rule are patterns for the trie *)
(* of module DomainTrie, those of a keyword rule labels, for a keyword is  *)
(* looked for inside a label, and those of a geoip or ipcidr rule the      *)
(* addresses of the country or the prefix.                                 *)
(***************************************************************************)
EXTENDS DomainTrie, FiniteSetsExt

CONSTANTS Conn,      \* the connections being handled
          Label,     \* the labels of domain names and of patterns
          Name,      \* targets that are domain names
          IP,        \* targets that are IP addresses
          Lookup,    \* what DefaultResolver.LookupHost answers: an IP or NIL
          MS,        \* the matchers, each a sequence of rule items
          DirectTo,  \* the node for "direct", "" for a direct connection
          GlobalTo,  \* the node for "global", "" when there is none
          Node,      \* the nodes registered in the selector
          NIL

Target == Name \cup IP
Type == <<"domain", "keyword", "suffix", "geoip", "ipcidr", "others">>    \* IndexToRuleType

IsItem(item) ==
    /\ DOMAIN item = {"mode", "proxy", "accept", "resolve", "value"} /\ item # NIL
    /\ item.mode = "match" /\ item.accept \in BOOLEAN /\ item.resolve \in BOOLEAN

(* strings.Split gives at least one label, and the parts of an IP address  *)
(* are numbers.                                                            *)
ASSUME RuleAssumption ==
    /\ {dotWildcard, wildcard, complexWildcard} \subseteq Label /\ Name \subseteq Seq(Label) \ {<<>>}
    /\ Name \cap IP = {} /\ IP \cap {dotWildcard, wildcard} = {}
    /\ Lookup \in [Name -> IP \cup {NIL}] /\ NIL \notin Name \cup IP
    /\ NIL \notin [mode : {"global", "direct"}, proxy : {"auto-select"}, accept : {TRUE}]
    /\ DOMAIN MS = DOMAIN Type
    /\ \A i \in DOMAIN MS : MS[i] \in Seq(Range(MS[i])) /\ \A item \in Range(MS[i]) : IsItem(item)
    /\ \A item \in Range(MS[1]) \cup Range(MS[3]) : item.value \in Seq(Seq(Label) \ {<<>>})
    /\ Len(MS[6]) = 1
    /\ Node \cap {"", "direct", "global", "dropped"} = {}

VARIABLES ruleMode,  \* Ruler.RuleMode: "global", "direct" or "match"
          matched,   \* Ruler.matched
          result,    \* the field result of each matcher
          pc,        \* where each handler is
          req,       \* the target each connection asked for
          addr,      \* *target: the target as Match has rewritten it
          at,        \* the index of the matcher being tried
          mixed,     \* the connections handled while another one was
          last       \* the connection whose handler ended in the last step, if one did:
                     \* its target, where it was sent, and whether it was handled alone

vars == <<ruleMode, matched, result, pc, req, addr, at, mixed, last>>

----------------------------------------------------------------------------
(* Control: handler c moves to label l, or has its connection sent on. *)
Goto(c, l) == pc' = [pc EXCEPT ![c] = l] /\ last' = NIL /\ UNCHANGED <<req, addr, at, mixed>>

Route(c, to) ==
    /\ pc' = [pc EXCEPT ![c] = "idle"] /\ req' = [req EXCEPT ![c] = NIL]
    /\ addr' = [addr EXCEPT ![c] = NIL] /\ at' = [at EXCEPT ![c] = 1]
    /\ mixed' = mixed \ {c}
    /\ last' = [req |-> req[c], to |-> to, alone |-> c \notin mixed]

(* Match returned false or Select an error: the handler discards the request. *)
Discard(c) == Route(c, "dropped")

(* Selector.Select: the node of that name, a direct connection if there is none. *)
Invoke(c, proxy) == Route(c, IF proxy \in Node THEN proxy ELSE "direct")

(* The end of Ruler.Select for the modes global and direct. *)
SelectMode(c, mode) ==
    IF mode = "direct" THEN Invoke(c, DirectTo)
    ELSE IF GlobalTo = "" THEN Discard(c) ELSE Invoke(c, GlobalTo)

(* geoip and ipcidr items with Resolve turn a name into its address first. *)
Resolved(item, t) ==
    IF item.resolve /\ t \in Name /\ Lookup[t] # NIL THEN Lookup[t] ELSE t

(* The target item j of a matcher looks at: earlier items may have resolved it. *)
SeenBy(items, j, t) ==
    IF \E k \in 1 .. j : Resolved(items[k], t) # t THEN Lookup[t] ELSE t

(* newDomainRule and newDomainSuffixRule: the values are inserted in order. *)
InsertAll(t, item, j, prefix) ==
    LET grown[n \in 0 .. Len(item.value)] ==
            IF n = 0 THEN t ELSE Insert(grown[n - 1], prefix \o item.value[n], j)
    IN grown[Len(item.value)]

TrieOf(items, prefix) ==
    LET grown[j \in 0 .. Len(items)] ==
            IF j = 0 THEN New ELSE InsertAll(grown[j - 1], items[j], j, prefix)
    IN grown[Len(items)]

Trie == [domain |-> TrieOf(MS[1], <<>>), suffix |-> TrieOf(MS[3], <<complexWildcard>>)]

(* An IPv4 address has four parts between its dots. *)
Parts(t) == IF t \in IP THEN <<t, t, t, t>> ELSE t

(* The items of a matcher that cover the target by themselves. *)
Hits(i, t) ==
    LET items == MS[i]
    IN { j \in DOMAIN items :
           CASE Type[i] = "keyword" -> Range(items[j].value) \cap Range(Parts(t)) # {}
             [] Type[i] = "others"  -> items[j].proxy # ""
             [] OTHER               -> SeenBy(items, j, t) \in items[j].value }

(* matcher.Match: the index of the item that becomes the result, or 0. *)
Found(i, t) ==
    IF Type[i] \in {"domain", "suffix"} THEN Search(Trie[Type[i]], Parts(t))
    ELSE IF Hits(i, t) = {} THEN 0 ELSE Min(Hits(i, t))

(* *target after the items up to j. *)
Rewritten(i, j, t) == IF Type[i] \in {"geoip", "ipcidr"} THEN SeenBy(MS[i], j, t) ELSE t

----------------------------------------------------------------------------
(* A handler has read its target (a name, a real IP address, or the name   *)
(* behind a fake one) and calls Ruler.Match.                               *)
Begin(c, t) ==
    /\ pc[c] = "idle" /\ pc' = [pc EXCEPT ![c] = "match"]
    /\ req' = [req EXCEPT ![c] = t]
    /\ addr' = [addr EXCEPT ![c] = t]
    /\ at' = [at EXCEPT ![c] = 1]
    /\ LET others == { d \in Conn \ {c} : pc[d] # "idle" }
       IN mixed' = mixed \cup (IF others = {} THEN {} ELSE others \cup {c})
    /\ last' = NIL /\ UNCHANGED <<ruleMode, matched, result>>

(* The modes global and direct match everything. *)
MatchByMode(c) ==
    /\ pc[c] = "match" /\ ruleMode # "match"
    /\ matched' = [mode |-> ruleMode, proxy |-> "auto-select", accept |-> TRUE]
    /\ Goto(c, "select")
    /\ UNCHANGED <<ruleMode, result>>

(* if matcher.Match(target) *)
MatcherHit(c) ==
    /\ pc[c] = "match" /\ ruleMode = "match" /\ at[c] \in DOMAIN MS
    /\ LET i == at[c]
           j == Found(i, addr[c])
       IN /\ j # 0
          /\ result' = [result EXCEPT ![i] = MS[i][j]]
          /\ addr' = [addr EXCEPT ![c] = Rewritten(i, j, @)]
    /\ pc' = [pc EXCEPT ![c] = "store"] /\ last' = NIL
    /\ UNCHANGED <<ruleMode, matched, req, at, mixed>>

MatcherMiss(c) ==
    /\ pc[c] = "match" /\ ruleMode = "match" /\ at[c] \in DOMAIN MS
    /\ Found(at[c], addr[c]) = 0
    /\ addr' = [addr EXCEPT ![c] = Rewritten(at[c], Len(MS[at[c]]), @)]
    /\ at' = [at EXCEPT ![c] = @ + 1]
    /\ last' = NIL /\ UNCHANGED <<ruleMode, matched, result, pc, req, mixed>>

(* Mutated: what no rule covers is connected directly. *)
NoMatcherDirect(c) ==
    /\ pc[c] = "match" /\ ruleMode = "match" /\ at[c] \notin DOMAIN MS
    /\ Invoke(c, "direct")
    /\ UNCHANGED <<ruleMode, matched, result>>

NoMatcher(c) ==
    /\ pc[c] = "match" /\ ruleMode = "match" /\ at[c] \notin DOMAIN MS
    /\ Discard(c)
    /\ UNCHANGED <<ruleMode, matched, result>>

(* Mutated: the rule is only stored after the test of Accept. *)
StoreMatchedLate(c) ==
    /\ pc[c] \in {"store", "store again"}
    /\ matched' = IF pc[c] = "store" THEN matched ELSE result[at[c]]
    /\ Goto(c, IF pc[c] = "store" THEN "accept" ELSE "select")
    /\ UNCHANGED <<ruleMode, result>>

(* r.matched = matcher.MatchedResult(), once before and once after the test. *)
StoreMatched(c) ==
    /\ pc[c] \in {"store", "store again"}
    /\ matched' = result[at[c]]
    /\ Goto(c, IF pc[c] = "store" THEN "accept" ELSE "select")
    /\ UNCHANGED <<ruleMode, result>>

(* if !r.matched.Accept: the field is read back from the shared Ruler. *)
TestAccept(c) ==
    /\ pc[c] = "accept"
    /\ IF matched.accept THEN Goto(c, "store again") ELSE Discard(c)
    /\ UNCHANGED <<ruleMode, matched, result>>

(* Ruler.Select reads r.matched again for each of its tests. *)
SelectGlobal(c) ==
    /\ pc[c] = "select"
    /\ IF matched.mode # "match" THEN SelectMode(c, matched.mode)
       ELSE IF matched.proxy = "global" THEN SelectMode(c, "global")
       ELSE Goto(c, "select direct")
    /\ UNCHANGED <<ruleMode, matched, result>>

SelectDirect(c) ==
    /\ pc[c] = "select direct"
    /\ IF matched.proxy = "direct" THEN SelectMode(c, "direct")
       ELSE Goto(c, "select named")
    /\ UNCHANGED <<ruleMode, matched, result>>

SelectNamed(c) ==
    /\ pc[c] = "select named"
    /\ IF matched.proxy # "" THEN Goto(c, "select return") ELSE Discard(c)
    /\ UNCHANGED <<ruleMode, matched, result>>

SelectReturn(c) ==
    /\ pc[c] = "select return"
    /\ Invoke(c, matched.proxy)
    /\ UNCHANGED <<ruleMode, matched, result>>

Init ==
    /\ ruleMode \in {"global", "direct", "match"} /\ mixed = {}
    /\ matched = NIL
    /\ result = [i \in DOMAIN MS |-> IF Type[i] = "others" THEN MS[i][1] ELSE NIL]
    /\ pc = [c \in Conn |-> "idle"]
    /\ req = [c \in Conn |-> NIL]
    /\ addr = [c \in Conn |-> NIL]
    /\ at = [c \in Conn |-> 1]
    /\ last = NIL

Next ==
    \E c \in Conn :
        \/ \E t \in Target : Begin(c, t)
        \/ MatchByMode(c) \/ MatcherHit(c) \/ MatcherMiss(c) \/ NoMatcher(c)
        \/ StoreMatched(c) \/ TestAccept(c)
        \/ SelectGlobal(c) \/ SelectDirect(c) \/ SelectNamed(c) \/ SelectReturn(c)

Spec == Init /\ [][Next]_vars

----------------------------------------------------------------------------
Reads == {"accept", "select", "select direct", "select named", "select return"}

(* Ruler.Select dereferences r.matched without a nil test.  However the    *)
(* handlers interleave, the field holds a rule whenever one of them reads  *)
(* it, and so does the result of a matcher whose Match returned true.      *)
MatchedNeverNil ==
    \A c \in Conn : /\ pc[c] \in Reads => matched # NIL
                    /\ pc[c] \in {"store", "store again"} => result[at[c]] # NIL

(* What the patterns mean, without the trie: "*" is one label, "" at the   *)
(* front one or more, "+" none or more.  A pattern with an empty label     *)
(* elsewhere counts for nothing, and no pattern fits a name with one.      *)
Prefix(i) == IF Type[i] = "suffix" THEN <<complexWildcard>> ELSE <<>>
Proper(p) == p # <<dotWildcard>> /\ \A k \in 2 .. Len(p) : p[k] # dotWildcard
Plain(p) == IF p[1] = complexWildcard THEN {Tail(p), <<dotWildcard>> \o Tail(p)} ELSE {p}
Stated(i, j) == { p \in { Prefix(i) \o v : v \in Range(MS[i][j].value) } : Proper(p) }
Patterns(i) ==
    UNION { { [pat |-> p, item |-> j] : p \in UNION { Plain(q) : q \in Stated(i, j) } } :
            j \in DOMAIN MS[i] }

Fits(p, n) ==
    /\ p # <<>> /\ \A k \in 1 .. Len(n) : n[k] # dotWildcard
    /\ IF p[1] = dotWildcard THEN Len(n) >= Len(p) ELSE Len(n) = Len(p)
    /\ \A k \in 1 .. Len(p) : FromEnd(p, k) \in {FromEnd(n, k), wildcard, dotWildcard}

(* Of two patterns that fit the better one is, from the end, the first to  *)
(* have the name before "*" before ""; of equal ones, the later item's.    *)
Worth(p, k) ==
    IF k > Len(p) THEN 0
    ELSE CASE FromEnd(p, k) = dotWildcard -> 1 [] FromEnd(p, k) = wildcard -> 2 [] OTHER -> 3
Better(x, y) ==
    LET differ == { k \in 1 .. Len(x.pat) : Worth(x.pat, k) # Worth(y.pat, k) }
    IN IF differ = {} THEN x.item >= y.item ELSE Worth(x.pat, Min(differ)) > Worth(y.pat, Min(differ))

Best(i, t) ==
    LET fitting == { x \in Patterns(i) : Fits(x.pat, Parts(t)) }
    IN { x.item : x \in { y \in fitting : \A z \in fitting : Better(y, z) } }

(* The rules in the order of their types, and within one in that of the    *)
(* configuration file: the place of the first item that covers the target  *)
(* as resolved so far.                                                     *)
Place == UNION { {i} \X DOMAIN MS[i] : i \in DOMAIN MS }
Upto(p, q) == p[1] < q[1] \/ (p[1] = q[1] /\ p[2] <= q[2])
ItemAt(p) == MS[p[1]][p[2]]
Sees(p, t) ==
    IF \E q \in Place : /\ Type[q[1]] \in {"geoip", "ipcidr"} /\ Upto(q, p)
                       /\ Resolved(ItemAt(q), t) # t
    THEN Lookup[t] ELSE t
Covers(p, t) ==
    CASE Type[p[1]] \in {"domain", "suffix"} -> p[2] \in Best(p[1], t)
      [] Type[p[1]] = "keyword" -> \E l \in Range(ItemAt(p).value) : l \in Range(Parts(t))
      [] Type[p[1]] = "others" -> ItemAt(p).proxy # ""
      [] OTHER -> Sees(p, t) \in ItemAt(p).value
Covering == [t \in Target |-> { p \in Place : Covers(p, t) }]
FirstItem(t) == ItemAt(CHOOSE p \in Covering[t] : \A q \in Covering[t] : Upto(p, q))

(* The route the configuration gives a target. *)
Configured(t) ==
    LET node(p) == IF p \in Node THEN p ELSE "direct"
        strategy(m) == IF m = "direct" THEN node(DirectTo)
                       ELSE IF GlobalTo = "" THEN "dropped" ELSE node(GlobalTo)
        named(p) == IF p \in {"global", "direct"} THEN strategy(p)
                    ELSE IF p = "" THEN "dropped" ELSE node(p)
    IN IF ruleMode # "match" THEN strategy(ruleMode)
       ELSE IF Covering[t] = {} \/ ~FirstItem(t).accept THEN "dropped"
       ELSE named(FirstItem(t).proxy)

(* A connection goes where the first rule that covers its own target sends *)
(* it, and is dropped when that rule rejects it (Ruler.Match, Ruler.Select *)
(* and the trie's search, against the order of the rules and the meaning   *)
(* of their patterns).  That is so for a connection that was handled       *)
(* alone, even if others left their rules in matched and result before,    *)
(* and in the modes global and direct, where every handler stores the same *)
(* rule.  It is not so for connections that are matched at the same time:  *)
(* Select reads the rule of the last one.                                  *)
RoutedWhenAlone ==
    last # NIL /\ (last.alone \/ ruleMode # "match") => last.to = Configured(last.req)

(* A request no rule covers is dropped, whatever rules the requests        *)
(* handled at the same time match (the final return false of Match).       *)
UncoveredDropped ==
    last # NIL /\ ruleMode = "match" /\ Covering[last.req] = {} => last.to = "dropped"
=============================================================================
