------------------------------ MODULE MCNetLimit ------------------------------
(* Model values for TLC; connections and entries are interchangeable. *)
EXTENDS NetLimit, TLC

CONSTANTS c1, c2, c3, p, q, e1, e2, e3, e4

Symmetry == Permutations({c1, c2, c3}) \union Permutations({e1, e2, e3, e4})
=============================================================================
