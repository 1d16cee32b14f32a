----------------------------- MODULE MCBanStore -----------------------------
(* Small instances of BanStore for TLC. *)
EXTENDS BanStore

CONSTANTS w1, w2, ip1, key1, s1, s2, s3
=============================================================================
