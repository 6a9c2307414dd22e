--------------------------- MODULE MCPopularPortal ---------------------------
(* PopularPortal for TLC: movements are interchangeable. *)
EXTENDS PopularPortal, TLC

Interchangeable == Permutations(Movements)
=============================================================================
