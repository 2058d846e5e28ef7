---------------------------- MODULE MCPublication ---------------------------
(* Small instances of Publication for TLC. *)
EXTENDS Publication, TLC

CONSTANTS t1, t2, p1, p2, d1

Symmetry == Permutations(Threads)

\* A round that passes everything, and one whose methods fail.
GoodOrBad == {Check, Check \ {"methods"}}
=============================================================================
