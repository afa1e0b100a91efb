----------------------------- MODULE DomainTrie -----------------------------
(***************************************************************************)
(* util/trie: the trie of domain names behind the domain rules.  A domain  *)
(* is the sequence of its labels; a node of the trie is the path to it     *)
(* from the root, the last label first, and the trie maps the nodes to     *)
(* their data.                                                             *)
(***************************************************************************)
EXTENDS Integers, Sequences

NoData == 0

(* The labels with a meaning in patterns; "" is also what Split makes of   *)
(* two dots in a row.                                                      *)
wildcard == "*"
dotWildcard == ""
complexWildcard == "+"

ValidAndSplitDomain(parts) ==
    (\A i \in 2 .. Len(parts) : parts[i] # dotWildcard) /\ (Len(parts) = 1 => parts[1] # dotWildcard)

New == [p \in {<<>>} |-> NoData]

(* The k-th label from the end, and the path to the node of a domain. *)
FromEnd(s, k) == s[Len(s) - k + 1]
Path(parts) == [k \in 1 .. Len(parts) |-> FromEnd(parts, k)]

insert(t, parts, data) ==
    LET path  == Path(parts)
        nodes == DOMAIN t \cup { SubSeq(path, 1, n) : n \in 0 .. Len(path) }
    IN [p \in nodes |-> IF p = path THEN data ELSE IF p \in DOMAIN t THEN t[p] ELSE NoData]

(* "+" stands for the domain itself and for everything below it. *)
Insert(t, parts, data) ==
    IF ~ValidAndSplitDomain(parts) THEN t
    ELSE IF parts[1] = complexWildcard
    THEN insert(insert(t, Tail(parts), data), <<dotWildcard>> \o Tail(parts), data)
    ELSE insert(t, parts, data)

(* The data of a node, or what is found below it. *)
Data(t, p) == IF p \in DOMAIN t THEN t[p] ELSE NoData

(* Mutated: a static child is final, whether it leads anywhere or not. *)
searchStatic(t, parts) ==
    LET find[p \in DOMAIN t] ==
            LET label == parts[Len(parts) - Len(p)]
                Below(l) == IF Append(p, l) \in DOMAIN t THEN find[Append(p, l)] ELSE NoData
            IN IF Len(p) >= Len(parts) THEN t[p]
               ELSE IF Append(p, label) \in DOMAIN t THEN Below(label)
               ELSE IF Below(wildcard) # NoData THEN Below(wildcard)
               ELSE Data(t, Append(p, dotWildcard))
    IN find

(* The label itself, then "*", then "" for any number of labels; a child   *)
(* that leads to no data is given up.                                      *)
search(t, parts) ==
    LET find[p \in DOMAIN t] ==
            LET label == parts[Len(parts) - Len(p)]
                Below(l) == IF Append(p, l) \in DOMAIN t THEN find[Append(p, l)] ELSE NoData
            IN IF Len(p) >= Len(parts) THEN t[p]
               ELSE IF Below(label) # NoData THEN Below(label)
               ELSE IF Below(wildcard) # NoData THEN Below(wildcard)
               ELSE Data(t, Append(p, dotWildcard))
    IN find

Search(t, parts) ==
    IF ValidAndSplitDomain(parts) /\ parts[1] # dotWildcard THEN search(t, parts)[<<>>] ELSE NoData
=============================================================================
