-------------------------- MODULE MCFederationSync --------------------------
(* Small instances of FederationSync for TLC. *)
EXTENDS FederationSync

CONSTANTS n1, n2
=============================================================================
