-------------------------- MODULE MCCircuitBreaker --------------------------
(* Small instances of CircuitBreaker for TLC. *)
EXTENDS CircuitBreaker, TLC

CONSTANTS w1, w2, s1, s2, s3

Symmetry == Permutations(Slots) \cup Permutations(Workers)
=============================================================================
