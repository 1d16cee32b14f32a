----------------------------- MODULE MCLifespan -----------------------------
(* Small instances of Lifespan for TLC. *)
EXTENDS Lifespan, TLC

CONSTANTS w1, w2, eu, us, x, y, n1, n2, a1, a2

\* This gateway is known to the two servers under two names.
TwoNames == eu :> n1 @@ us :> n2

\* a1 begins with the names of both servers, a2 with that of the second.
Prefixes == a1 :> <<eu, us>> @@ a2 :> <<us>>

Both   == [valid |-> TRUE, on |-> TRUE, secret |-> eu :> x @@ us :> y]
Single == [valid |-> TRUE, on |-> TRUE, secret |-> eu :> None @@ us :> y]
Off    == [valid |-> TRUE, on |-> FALSE, secret |-> eu :> None @@ us :> x]
Broken == [valid |-> FALSE, on |-> FALSE, secret |-> eu :> None @@ us :> None]

AllContents == {Both, Single, Off, Broken}

Symmetric == Permutations(Workers)
=============================================================================
