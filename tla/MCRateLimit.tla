----------------------------- MODULE MCRateLimit -----------------------------
(* Small instances of RateLimit for TLC. *)
EXTENDS RateLimit, TLC

CONSTANTS r1, r2, a1, a2, k1

\* The requests are alike, and so are the addresses.
Symmetric == {p @@ q : p \in Permutations(Requests), q \in Permutations(Addresses)}
=============================================================================
