--------------------------- MODULE FederationSync ---------------------------
(***************************************************************************)
(* The federation heartbeat (src/src/api/federation/sync.py and state.py): *)
(* sync_federated_servers, one coroutine of the worker that runs the       *)
(* daemons, polls the nodes that are due, all at once, writes every state  *)
(* it holds to data/federation.db and sleeps.  Other requests and workers  *)
(* read the states from that file.                                         *)
(*                                                                         *)
(* Times are what is left of them: next_retry_at is the wait before a node *)
(* is due, here and on disk.  last_check is left out: a node that is up    *)
(* has next_retry_at 0, so get_next_retry_nodes returns it at every turn   *)
(* and the test of sync_interval adds no node.                             *)
(***************************************************************************)
EXTENDS Naturals

CONSTANTS Nodes,         \* the nodes an administrator ever configures
          Editable,      \* bound: the nodes an edit of the configuration adds or removes
          Threshold,     \* federation.circuit_breaker_threshold
          BackoffMax,    \* federation.backoff_max
          SyncInterval,  \* federation.sync_interval
          DegradedSleep, \* 5 s in the code
          IdleSleep,     \* 30 s in the code
          NoState        \* no entry in a dictionary, no row on disk

ASSUME FederationAssumption ==
    /\ Editable \subseteq Nodes
    /\ Threshold \in Nat \ {0}
    /\ {BackoffMax, SyncInterval, DegradedSleep, IdleSleep} \subseteq Nat \ {0}

\* A fact of arithmetic: the provers do not know the powers.
ASSUME PowersAssumption == \A k \in 0..Threshold : 2 ^ k \in Nat

VARIABLES servers,  \* config.federation.server, which a reload replaces
          remote,   \* external: how each node answers a health check
          nodes,    \* FederationStateManager._nodes
          disk,     \* the table federation_nodes
          circuit,  \* _CIRCUIT_STATE; a missing entry is 0
          pc,       \* where sync_federated_servers is
          batch,    \* nodes_to_poll
          polling,  \* the nodes whose answer is awaited
          sleep,    \* what is left of the sleep
          owed,     \* history: what is left of the last failure's backoff
          unsaved   \* history: nodes whose last answer a stop lost

vars == <<servers, remote, nodes, disk, circuit, pc, batch, polling, sleep, owed, unsaved>>

Lesser(a, b) == IF a < b THEN a ELSE b

Backoff(failures) == Lesser(2 ^ failures, BackoffMax)

\* FederationNodeState, without what the node reports of itself.
NodeState == [status   : {"unknown", "up", "degraded", "down"},
              failures : 0..Threshold,
              wait     : 0..BackoffMax]

ASSUME NoStateAssumption == NoState \notin NodeState

TypeOK ==
    /\ servers \subseteq Nodes
    /\ remote \in [Nodes -> {"healthy", "failing", "garbled"}]
    /\ nodes \in [Nodes -> NodeState \cup {NoState}]
    /\ disk \in [Nodes -> NodeState \cup {NoState}]
    /\ circuit \in [Nodes -> 0..Threshold]
    /\ pc \in {"stopped", "turn", "gather", "asleep"}
    /\ batch \subseteq Nodes
    /\ polling \subseteq batch
    /\ sleep \in Nat
    /\ owed \in [Nodes -> 0..BackoffMax]
    /\ unsaved \subseteq Nodes

Unknown == [status |-> "unknown", failures |-> 0, wait |-> 0]

Init ==
    /\ servers \in {Nodes, Nodes \ Editable}
    /\ remote \in [Nodes -> {"healthy", "failing", "garbled"}]
    /\ nodes = [n \in Nodes |-> NoState]
    /\ disk = [n \in Nodes |-> NoState]
    /\ circuit = [n \in Nodes |-> 0]
    /\ pc = "stopped"
    /\ batch = {} /\ polling = {} /\ sleep = 0
    /\ owed = [n \in Nodes |-> 0]
    /\ unsaved = {}

Has(n, status) == nodes[n] # NoState /\ nodes[n].status = status

Open(n) == circuit[n] >= Threshold

-----------------------------------------------------------------------------
(* The worker starts and stops.                                            *)

\* Mutant: the states on disk are not loaded.
Start_forgets ==
    /\ pc = "stopped"
    /\ nodes' = [n \in Nodes |-> IF n \in servers THEN Unknown ELSE NoState]
    /\ pc' = "turn"
    /\ UNCHANGED <<servers, remote, disk, circuit, batch, polling, sleep, owed, unsaved>>

\* load, then a state for every configured node without one.
Start ==
    /\ pc = "stopped"
    /\ nodes' = [n \in Nodes |-> IF disk[n] # NoState THEN disk[n]
                                 ELSE IF n \in servers THEN Unknown ELSE NoState]
    /\ pc' = "turn"
    /\ UNCHANGED <<servers, remote, disk, circuit, batch, polling, sleep, owed, unsaved>>

\* A crash, or a cancellation, which breaks out of the loop without persisting.
Stop ==
    /\ pc # "stopped"
    /\ pc' = "stopped"
    /\ nodes' = [n \in Nodes |-> NoState]
    /\ circuit' = [n \in Nodes |-> 0]
    /\ batch' = {} /\ polling' = {} /\ sleep' = 0
    /\ unsaved' = unsaved \cup {n \in Nodes : nodes[n] # disk[n]}
    /\ UNCHANGED <<servers, remote, disk, owed>>

-----------------------------------------------------------------------------
(* One turn of the loop.                                                   *)

\* Mutant: only nodes that are up, or new, are asked again.
Due_leaves_degraded ==
    {n \in Nodes : nodes[n] # NoState /\ nodes[n].status \in {"unknown", "up"} /\ nodes[n].wait = 0}

\* get_next_retry_nodes.
Due == {n \in Nodes : nodes[n] # NoState /\ (nodes[n].status = "unknown" \/ nodes[n].wait = 0)}

\* _poll_node_with_circuit_breaker asks no node that is not configured or whose circuit is open.
Poll ==
    /\ pc = "turn" /\ Due # {}
    /\ pc' = "gather"
    /\ batch' = Due
    /\ polling' = {n \in Due : n \in servers /\ ~Open(n)}
    /\ UNCHANGED <<servers, remote, nodes, disk, circuit, sleep, owed, unsaved>>

NothingDue ==
    /\ pc = "turn" /\ Due = {}
    /\ pc' = "asleep"
    /\ batch' = {}
    /\ sleep' = Lesser(SyncInterval, IdleSleep)
    /\ UNCHANGED <<servers, remote, nodes, disk, circuit, polling, owed, unsaved>>

\* Mutant: the failures are not forgotten.
AnswerHealthy_keeps_failures(n) ==
    /\ n \in polling /\ remote[n] = "healthy"
    /\ nodes' = [nodes EXCEPT ![n] = [status |-> "up", failures |-> 0, wait |-> 0]]
    /\ polling' = polling \ {n}
    /\ owed' = [owed EXCEPT ![n] = 0]
    /\ unsaved' = unsaved \ {n}
    /\ UNCHANGED <<servers, remote, disk, circuit, pc, batch, sleep>>

AnswerHealthy(n) ==
    /\ n \in polling /\ remote[n] = "healthy"
    /\ nodes' = [nodes EXCEPT ![n] = [status |-> "up", failures |-> 0, wait |-> 0]]
    /\ circuit' = [circuit EXCEPT ![n] = 0]
    /\ polling' = polling \ {n}
    /\ owed' = [owed EXCEPT ![n] = 0]
    /\ unsaved' = unsaved \ {n}
    /\ UNCHANGED <<servers, remote, disk, pc, batch, sleep>>

\* A timeout, a refused connection or an error status.
AnswerFails(n) ==
    LET failures == circuit[n] + 1
    IN  /\ n \in polling /\ remote[n] = "failing"
        /\ circuit' = [circuit EXCEPT ![n] = failures]
        /\ nodes' = [nodes EXCEPT ![n] =
             [status   |-> IF failures >= Threshold THEN "down" ELSE "degraded",
              failures |-> failures,
              wait     |-> Backoff(failures)]]
        /\ polling' = polling \ {n}
        /\ owed' = [owed EXCEPT ![n] = Backoff(failures)]
        /\ unsaved' = unsaved \ {n}
        /\ UNCHANGED <<servers, remote, disk, pc, batch, sleep>>

\* A body that is not a health report raises what the handler does not catch; gather keeps
\* the exception and nobody reads it.
AnswerGarbled(n) ==
    /\ n \in polling /\ remote[n] = "garbled"
    /\ polling' = polling \ {n}
    /\ UNCHANGED <<servers, remote, nodes, disk, circuit, pc, batch, sleep, owed, unsaved>>

\* Mutant: only the healthy nodes are written.
Persist_healthy ==
    /\ pc = "gather" /\ polling = {}
    /\ disk' = [n \in Nodes |-> IF Has(n, "up") THEN nodes[n] ELSE disk[n]]
    /\ pc' = "asleep"
    /\ sleep' = Lesser(SyncInterval,
                       IF \E n \in batch : Has(n, "degraded") THEN DegradedSleep ELSE IdleSleep)
    /\ UNCHANGED <<servers, remote, nodes, circuit, batch, polling, owed, unsaved>>

\* persist writes every state in one transaction, and the loop looks for a degraded node
\* among those it polled.
Persist ==
    /\ pc = "gather" /\ polling = {}
    /\ disk' = [n \in Nodes |-> IF nodes[n] # NoState THEN nodes[n] ELSE disk[n]]
    /\ pc' = "asleep"
    /\ sleep' = Lesser(SyncInterval,
                       IF \E n \in batch : Has(n, "degraded") THEN DegradedSleep ELSE IdleSleep)
    /\ UNCHANGED <<servers, remote, nodes, circuit, batch, polling, owed, unsaved>>

\* The file is locked or full: the loop logs the error and sleeps.
PersistFails ==
    /\ pc = "gather" /\ polling = {}
    /\ pc' = "asleep"
    /\ sleep' = SyncInterval
    /\ UNCHANGED <<servers, remote, nodes, disk, circuit, batch, polling, owed, unsaved>>

Wake ==
    /\ pc = "asleep" /\ sleep = 0
    /\ pc' = "turn"
    /\ UNCHANGED <<servers, remote, nodes, disk, circuit, batch, polling, sleep, owed, unsaved>>

-----------------------------------------------------------------------------
(* Around it.                                                              *)

Before(t) == IF t = 0 THEN 0 ELSE t - 1

Sooner(states) ==
    [n \in Nodes |-> IF states[n] = NoState THEN NoState
                     ELSE [states[n] EXCEPT !.wait = Before(@)]]

\* Time passes; the loop awaits nothing between its wake and its requests.
Tick ==
    /\ pc # "turn"
    /\ nodes' = Sooner(nodes) /\ disk' = Sooner(disk)
    /\ sleep' = Before(sleep)
    /\ owed' = [n \in Nodes |-> Before(owed[n])]
    /\ UNCHANGED <<servers, remote, circuit, pc, batch, polling, unsaved>>

\* A node comes to answer in another way.
Change(n, answer) ==
    /\ answer # remote[n]
    /\ remote' = [remote EXCEPT ![n] = answer]
    /\ UNCHANGED <<servers, nodes, disk, circuit, pc, batch, polling, sleep, owed, unsaved>>

\* The configuration is reloaded with n added or removed.
Reload(n) ==
    /\ n \in Editable
    /\ servers' = IF n \in servers THEN servers \ {n} ELSE servers \cup {n}
    /\ UNCHANGED <<remote, nodes, disk, circuit, pc, batch, polling, sleep, owed, unsaved>>

Answer(n) == AnswerHealthy(n) \/ AnswerFails(n) \/ AnswerGarbled(n)

Next ==
    \/ Start \/ Stop
    \/ Poll \/ NothingDue \/ Persist \/ PersistFails \/ Wake \/ Tick
    \/ \E n \in Nodes :
         \/ AnswerHealthy(n) \/ AnswerFails(n) \/ AnswerGarbled(n) \/ Reload(n)
         \/ \E answer \in {"healthy", "failing", "garbled"} : Change(n, answer)

Spec == Init /\ [][Next]_vars

\* The supervisor restarts the worker, the event loop resumes the coroutine, time passes, a
\* request ends within per_node_timeout, and the disk does not refuse every transaction.
Fairness ==
    /\ WF_vars(Start) /\ WF_vars(Poll) /\ WF_vars(NothingDue)
    /\ WF_vars(Wake) /\ WF_vars(Tick) /\ SF_vars(Persist)
    /\ WF_vars(Persist \/ PersistFails)
    /\ \A n \in Nodes : WF_vars(Answer(n))

FairSpec == Spec /\ Fairness

-----------------------------------------------------------------------------
(* Properties.                                                             *)

\* What is held of a node agrees with its circuit: failures counted since the start are the
\* consecutive_failures, they make the node degraded or, from the threshold on, down, and a
\* node that is up has none (set_state and _circuit_record_*, two stores of one fact).
CircuitTold ==
    \A n \in Nodes :
        /\ circuit[n] > 0 =>
             /\ nodes[n] # NoState /\ nodes[n].failures = circuit[n]
             /\ nodes[n].status = IF Open(n) THEN "down" ELSE "degraded"
        /\ Has(n, "up") => circuit[n] = 0

\* A failed node is left alone for its whole backoff, through a restart too, unless the stop
\* came before the failure was persisted (FEDERATION.md: "honor their remaining backoff
\* window instead of being hammered immediately").
BackoffKept ==
    [][\A n \in polling' \ polling : owed[n] = 0 \/ n \in unsaved]_vars

\* A node that has stopped answering for good does not stay up in what the other requests
\* read from the disk, as long as the worker is not stopped for ever and again.
DeadNoticed ==
    \A n \in Nodes :
        <>[](pc # "stopped" /\ n \in servers /\ remote[n] = "failing")
            => <>[](disk[n] = NoState \/ disk[n].status # "up")

\* A node that answers for good is up on disk in the end, unless its circuit has opened or it
\* was configured after the start.
Recovers ==
    \A n \in Nodes :
        <>[](pc # "stopped" /\ n \in servers /\ remote[n] = "healthy")
            => <>[](nodes[n] = NoState \/ Open(n) \/ (disk[n] # NoState /\ disk[n].status = "up"))

-----------------------------------------------------------------------------
(* Why they hold.                                                          *)

\* Circuits are counted, and answers awaited, by a running loop only; a node that is asked
\* has a state, and its circuit is closed.
Asked ==
    /\ pc = "stopped" => \A n \in Nodes : circuit[n] = 0
    /\ pc # "gather" => polling = {}
    /\ \A n \in polling : nodes[n] # NoState /\ ~Open(n)

\* A state that makes the loop wait for t.
Waits(state, t) == state # NoState /\ state.status # "unknown" /\ state.wait = t

\* What is owed to a node is the wait of its state: in memory while the loop runs, on disk
\* while it is stopped.
OwedHeld ==
    \A n \in Nodes \ unsaved :
        owed[n] # 0 => Waits(IF pc = "stopped" THEN disk[n] ELSE nodes[n], owed[n])

\* The inductive invariant.
Inv == TypeOK /\ Asked /\ CircuitTold /\ OwedHeld
=============================================================================
