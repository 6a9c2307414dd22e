-------------------------- MODULE MCCircuitBreaker --------------------------
(***************************************************************************)
(* CircuitBreaker for TLC: workers differ by nothing but their name.       *)
(***************************************************************************)
EXTENDS CircuitBreaker, TLC

Interchangeable == Permutations(Workers)
=============================================================================
