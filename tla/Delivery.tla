------------------------------ MODULE Delivery ------------------------------
(***************************************************************************)
(* What the webhook pipeline promises of each delivery, an event matched   *)
(* with a hook: it is tried at most Limit times, given up only after all   *)
(* of them, never tried again once acknowledged, and otherwise ends only   *)
(* because the buffer is full or the process stops.                        *)
(***************************************************************************)
EXTENDS Naturals

CONSTANTS Deliveries,  \* the pairs of an event and a hook
          Limit        \* how many times a delivery may be posted

VARIABLES status,    \* how far a delivery has come
          posts,     \* how often it was posted
          received   \* how often the subscriber got it

vars == <<status, posts, received>>

Ends == {"delivered", "exhausted", "overflow", "lost", "raised"}

Init ==
    /\ status = [d \in Deliveries |-> "none"]
    /\ posts = [d \in Deliveries |-> 0]
    /\ received = [d \in Deliveries |-> 0]

\* An event is emitted: the deliveries in S wait to be posted, those in T come to nothing.
Accept(S, T) ==
    /\ \A d \in S \cup T : status[d] = "none"
    /\ \E end \in {"overflow", "raised"} :
          status' = [d \in Deliveries |-> IF d \in S THEN "waiting"
                                          ELSE IF d \in T THEN end ELSE status[d]]
    /\ UNCHANGED <<posts, received>>

Post(d) ==
    /\ status[d] = "waiting"
    /\ posts[d] < Limit
    /\ posts' = [posts EXCEPT ![d] = @ + 1]
    /\ UNCHANGED <<status, received>>

\* What the subscriber gets of a post, which it may get without our knowing.
Get(d) ==
    /\ received[d] < posts[d]
    /\ received' = [received EXCEPT ![d] = @ + 1]

Finish(d) ==
    /\ status[d] = "waiting"
    /\ \/ Get(d) /\ status' = [status EXCEPT ![d] = "delivered"]
       \/ /\ Get(d) \/ UNCHANGED received
          /\ \/ UNCHANGED status
             \/ posts[d] = Limit /\ status' = [status EXCEPT ![d] = "exhausted"]
       \/ UNCHANGED received /\ status' = [status EXCEPT ![d] = "overflow"]
    /\ UNCHANGED posts

\* A process stops: what waits there is lost, one delivery perhaps while it is posted.
Stop(S) ==
    /\ \A d \in S : status[d] = "waiting"
    /\ status' = [d \in Deliveries |-> IF d \in S THEN "lost" ELSE status[d]]
    /\ (\E d \in S : Get(d)) \/ UNCHANGED received
    /\ UNCHANGED posts

Next ==
    \/ \E S, T \in SUBSET Deliveries : Accept(S, T)
    \/ \E d \in Deliveries : Post(d) \/ Finish(d)
    \/ \E S \in SUBSET Deliveries : Stop(S)

Spec == Init /\ [][Next]_vars
=============================================================================
