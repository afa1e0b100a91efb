-------------------------------- MODULE Lists --------------------------------
(***************************************************************************)
(* The doubly linked list of Go's container/list, as util/cache uses it:   *)
(* a sequence without repetitions, front first.                            *)
(***************************************************************************)
EXTENDS Integers, Sequences, Functions

\* The list without its i-th member.
Cut(s, i) == SubSeq(s, 1, i - 1) \o SubSeq(s, i + 1, Len(s))

\* list.Remove: a no-op when e is not (or no longer) a member of the list.
Without(s, e) ==
    IF e \in Range(s) THEN Cut(s, CHOOSE i \in DOMAIN s : s[i] = e) ELSE s

\* list.MoveToBack: a no-op when e is not (or no longer) a member of the list.
MoveToBack(s, e) == IF e \in Range(s) THEN Append(Without(s, e), e) ELSE s
=============================================================================
