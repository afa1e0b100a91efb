----------------------------- MODULE MCLruCache -----------------------------
(***************************************************************************)
(* Instances of LruCache for TLC.                                          *)
(***************************************************************************)
EXTENDS LruCache, TLC

\* Elements and callers are interchangeable; keys and values are not renamed in
\* the instance that maps onto SerialCache.
Interchangeable == Permutations(Elem) \cup Permutations(Proc)
=============================================================================
