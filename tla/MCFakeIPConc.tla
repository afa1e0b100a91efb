---------------------------- MODULE MCFakeIPConc ----------------------------
(***************************************************************************)
(* Instances of FakeIPConc for TLC: the smallest prefix with addresses to   *)
(* give, and hosts that hash to the same one.                               *)
(***************************************************************************)
EXTENDS FakeIPConc, TLC

MCHash == [h \in Host |-> 3]

\* Elements, goroutines and (with this hash) hosts are interchangeable.
Symmetry == Permutations(Elem) \cup Permutations(Proc) \cup Permutations(Host)
=============================================================================
