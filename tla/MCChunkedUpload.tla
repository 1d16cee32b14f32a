--------------------------- MODULE MCChunkedUpload ---------------------------
(* Small instances of ChunkedUpload for TLC. *)
EXTENDS ChunkedUpload, TLC

CONSTANTS r1, r2, r3

Symmetry == Permutations(Slots)
=============================================================================
