----------------------------- MODULE MCKeyStore -----------------------------
(* Small instances of KeyStore for TLC. *)
EXTENDS KeyStore, TLC

CONSTANTS w1, w2, a1, a2, k1, f1, f2, n1, db1, db2, r0, r1, r2, s1

Symmetric == Permutations({a1, a2}) \cup Permutations({r1, r2})
=============================================================================
