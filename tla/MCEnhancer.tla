----------------------------- MODULE MCEnhancer -----------------------------
(***************************************************************************)
(* Instances of Enhancer for TLC: hosts that collide, more than there is    *)
(* room for.                                                               *)
(***************************************************************************)
EXTENDS Enhancer, TLC

\* ha and hb hash to the same address, hc to the next.
CONSTANTS ha, hb, hc
MCHash == [h \in Host |-> IF h = hc THEN 4 ELSE 3]
Symmetry == Permutations(App)
=============================================================================
