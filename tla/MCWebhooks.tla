----------------------------- MODULE MCWebhooks -----------------------------
(* Small instances of Webhooks for TLC. *)
EXTENDS Webhooks

CONSTANTS w1, w2, e1, e2, h1, h2

TwoHooks == <<h1, h2>>
=============================================================================
