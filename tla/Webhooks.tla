------------------------------ MODULE Webhooks ------------------------------
(***************************************************************************)
(* The webhook pipeline (src/src/webhook/emitter.py and dispatcher.py):    *)
(* emit_event puts one task per matched hook in the queue of the process   *)
(* that served the request, and the one dispatcher coroutine, which runs   *)
(* only in the worker elected for daemons, posts them.  A post that fails  *)
(* forks a coroutine that sleeps and puts the task back.                   *)
(*                                                                         *)
(* A delivery is an event and a hook.  How long a retry sleeps             *)
(* (retry_delay ** attempt) is left open: it may wake at any time.         *)
(*                                                                         *)
(* The initial predicate and its like are named for hooks: DaemonProofs    *)
(* extends this module together with FederationSync and Lifespan.          *)
(***************************************************************************)
EXTENDS Naturals, Sequences

CONSTANTS Processes,    \* the uvicorn worker processes
          Dispatchers,  \* the workers that run dispatcher_worker
          Events,       \* bound: the events emitted, each once
          Hooks,        \* config.webhook
          HookOrder,    \* the hooks in the order of that dictionary
          EditableHooks, \* bound: the hooks an administrator edits
          QueueSize,    \* webhooks.queue_size; 0 is no limit
          MaxRetries,   \* webhooks.max_retries
          Restarts,     \* bound: whether workers stop and start again
          NoTask        \* the dispatcher has no task

ASSUME WebhooksAssumption ==
    /\ Dispatchers \subseteq Processes
    /\ HookOrder \in Seq(Hooks)
    /\ \A i, j \in 1..Len(HookOrder) : HookOrder[i] = HookOrder[j] => i = j
    /\ EditableHooks \subseteq Hooks
    /\ QueueSize \in Nat
    /\ MaxRetries \in Nat
    /\ Restarts \in BOOLEAN

VARIABLES queue,     \* WebhookQueueList._queue of each worker
          current,   \* the task whose post a dispatcher awaits
          asleep,    \* the tasks whose retry_routine sleeps
          up,        \* whether the worker runs
          broken,    \* enabled hooks whose rule has a second "@", which the schema accepts
          status,    \* history: how far each delivery has come
          posts,     \* history: how often each was posted
          received   \* external: how often the subscriber got each

hookVars == <<queue, current, asleep, up, broken, status, posts, received>>

Deliveries == Events \X Hooks

\* A task dictionary; url, secret, headers and payload follow from the delivery.
Task == [d : Deliveries, attempt : 1..MaxRetries + 1]

ASSUME NoTaskAssumption == NoTask \notin Task

Statuses == {"none", "waiting", "delivered", "exhausted", "overflow", "lost", "raised"}

HookTypeOK ==
    /\ queue \in [Processes -> Seq(Task)]
    /\ current \in [Processes -> Task \cup {NoTask}]
    /\ asleep \in [Processes -> SUBSET Task]
    /\ up \in [Processes -> BOOLEAN]
    /\ broken \subseteq Hooks
    /\ status \in [Deliveries -> Statuses]
    /\ posts \in [Deliveries -> Nat]
    /\ received \in [Deliveries -> Nat]

HookInit ==
    /\ queue = [w \in Processes |-> <<>>]
    /\ current = [w \in Processes |-> NoTask]
    /\ asleep = [w \in Processes |-> {}]
    /\ up = [w \in Processes |-> TRUE]
    /\ broken = {}
    /\ status = [d \in Deliveries |-> "none"]
    /\ posts = [d \in Deliveries |-> 0]
    /\ received = [d \in Deliveries |-> 0]

Full(q) == QueueSize # 0 /\ Len(q) >= QueueSize

Emitted(e) == \E h \in Hooks : status[<<e, h>>] # "none"

-----------------------------------------------------------------------------
(* emit_event, which does not await.                                       *)

\* What a walk through the hooks may match: some of their positions, in order.
HookMatches ==
    {p \in UNION {[1..n -> 1..Len(HookOrder)] : n \in 1..Len(HookOrder)} :
        \A i, j \in DOMAIN p : i < j => p[i] < p[j]}

\* The tasks of event e for the hooks at the positions p.
TasksFor(e, p) == [i \in 1..Len(p) |-> [d |-> <<e, HookOrder[p[i]]>>, attempt |-> 1]]

\* How many of n tasks put_nowait accepts: the rest raise QueueFull.
Room(q, n) ==
    IF QueueSize = 0 \/ Len(q) + n <= QueueSize THEN n ELSE QueueSize - Len(q)

\* An administrator or a configuration reload changes a rule.
EditRule(h) ==
    /\ h \in EditableHooks
    /\ broken' = IF h \in broken THEN broken \ {h} ELSE broken \cup {h}
    /\ UNCHANGED <<queue, current, asleep, up, status, posts, received>>

\* e matches the enabled hooks at the positions p with a valid token.
Emit(w, e, p) ==
    /\ up[w]
    /\ broken = {}
    /\ ~Emitted(e)
    /\ LET tasks == TasksFor(e, p)
           n     == Room(queue[w], Len(tasks))
           put   == SubSeq(tasks, 1, n)
       IN  /\ queue' = [queue EXCEPT ![w] = @ \o put]
           /\ status' = [d \in Deliveries |->
                IF \E i \in 1..Len(tasks) : tasks[i].d = d
                THEN IF \E i \in 1..Len(put) : put[i].d = d THEN "waiting" ELSE "overflow"
                ELSE status[d]]
    /\ UNCHANGED <<current, asleep, up, broken, posts, received>>

\* The rule of a broken hook does not split in two: _is_rule_matched raises, whatever the
\* event, before any task is put.
EmitRaises(w, e, H) ==
    /\ up[w]
    /\ broken # {}
    /\ H # {} /\ H \cap broken = {} /\ ~Emitted(e)
    /\ status' = [d \in Deliveries |-> IF d[1] = e /\ d[2] \in H THEN "raised" ELSE status[d]]
    /\ UNCHANGED <<queue, current, asleep, up, broken, posts, received>>

-----------------------------------------------------------------------------
(* dispatcher_worker and the retries it forks.                             *)

\* Mutant: the dispatcher waits for a second task.
Get_waits_for_two(w) ==
    /\ up[w]
    /\ w \in Dispatchers
    /\ current[w] = NoTask
    /\ Len(queue[w]) > 1
    /\ current' = [current EXCEPT ![w] = Head(queue[w])]
    /\ queue' = [queue EXCEPT ![w] = Tail(@)]
    /\ posts' = [posts EXCEPT ![Head(queue[w]).d] = @ + 1]
    /\ UNCHANGED <<asleep, up, broken, status, received>>

\* queue.get() returns; the task is signed and posted.
Get(w) ==
    /\ up[w]
    /\ w \in Dispatchers
    /\ current[w] = NoTask
    /\ queue[w] # <<>>
    /\ current' = [current EXCEPT ![w] = Head(queue[w])]
    /\ queue' = [queue EXCEPT ![w] = Tail(@)]
    /\ posts' = [posts EXCEPT ![Head(queue[w]).d] = @ + 1]
    /\ UNCHANGED <<asleep, up, broken, status, received>>

Receive(d) == received' = [received EXCEPT ![d] = @ + 1]

\* A 2xx answer.
PostSucceeds(w) ==
    /\ current[w] # NoTask
    /\ status' = [status EXCEPT ![current[w].d] = "delivered"]
    /\ Receive(current[w].d)
    /\ current' = [current EXCEPT ![w] = NoTask]
    /\ UNCHANGED <<queue, asleep, up, broken, posts>>

\* Mutant: one retry too many.
PostFails_one_more(w) ==
    /\ current[w] # NoTask
    /\ Receive(current[w].d) \/ UNCHANGED received
    /\ current' = [current EXCEPT ![w] = NoTask]
    /\ \/ /\ current[w].attempt > MaxRetries + 1
          /\ status' = [status EXCEPT ![current[w].d] = "exhausted"]
          /\ UNCHANGED asleep
       \/ /\ current[w].attempt <= MaxRetries + 1
          /\ asleep' = [asleep EXCEPT ![w] = @ \cup {current[w]}]
          /\ UNCHANGED status
    /\ UNCHANGED <<queue, up, broken, posts>>

\* Mutant: the retry sleeps in the dispatcher, which keeps the task.
PostFails_keeps_task(w) ==
    /\ current[w] # NoTask
    /\ Receive(current[w].d) \/ UNCHANGED received
    /\ \/ /\ current[w].attempt > MaxRetries
          /\ status' = [status EXCEPT ![current[w].d] = "exhausted"]
          /\ current' = [current EXCEPT ![w] = NoTask]
          /\ UNCHANGED asleep
       \/ /\ current[w].attempt <= MaxRetries
          /\ asleep' = [asleep EXCEPT ![w] = @ \cup {current[w]}]
          /\ UNCHANGED <<status, current>>
    /\ UNCHANGED <<queue, up, broken, posts>>

\* A timeout, a refused connection or another answer; the subscriber may have got it.
PostFails(w) ==
    /\ current[w] # NoTask
    /\ Receive(current[w].d) \/ UNCHANGED received
    /\ current' = [current EXCEPT ![w] = NoTask]
    /\ \/ /\ current[w].attempt > MaxRetries
          /\ status' = [status EXCEPT ![current[w].d] = "exhausted"]
          /\ UNCHANGED asleep
       \/ /\ current[w].attempt <= MaxRetries
          /\ asleep' = [asleep EXCEPT ![w] = @ \cup {current[w]}]
          /\ UNCHANGED status
    /\ UNCHANGED <<queue, up, broken, posts>>

\* Mutant: the attempt is not counted.
RetryWakes_uncounted(w, t) ==
    /\ t \in asleep[w]
    /\ asleep' = [asleep EXCEPT ![w] = @ \ {t}]
    /\ \/ /\ Full(queue[w])
          /\ status' = [status EXCEPT ![t.d] = "overflow"]
          /\ UNCHANGED queue
       \/ /\ ~Full(queue[w])
          /\ queue' = [queue EXCEPT ![w] = Append(@, t)]
          /\ UNCHANGED status
    /\ UNCHANGED <<current, up, broken, posts, received>>

\* retry_routine wakes.
RetryWakes(w, t) ==
    /\ t \in asleep[w]
    /\ asleep' = [asleep EXCEPT ![w] = @ \ {t}]
    /\ \/ /\ Full(queue[w])
          /\ status' = [status EXCEPT ![t.d] = "overflow"]
          /\ UNCHANGED queue
       \/ /\ ~Full(queue[w])
          /\ queue' = [queue EXCEPT ![w] = Append(@, [t EXCEPT !.attempt = @ + 1])]
          /\ UNCHANGED status
    /\ UNCHANGED <<current, up, broken, posts, received>>

-----------------------------------------------------------------------------

\* The deliveries that the tasks of worker w are about.
QueuedAt(w)  == {queue[w][i].d : i \in 1..Len(queue[w])}
PostedAt(w)  == IF current[w] = NoTask THEN {} ELSE {current[w].d}
AsleepAt(w)  == {t.d : t \in asleep[w]}
HeldAt(w)    == QueuedAt(w) \cup PostedAt(w) \cup AsleepAt(w)

\* The worker stops, gracefully or not: CancelledError ends the dispatcher with the task
\* it has, and the queue and the retries go with the process.
WorkerStops(w) ==
    /\ Restarts
    /\ up[w]
    /\ up' = [up EXCEPT ![w] = FALSE]
    /\ status' = [d \in Deliveries |-> IF d \in HeldAt(w) THEN "lost" ELSE status[d]]
    /\ \/ current[w] # NoTask /\ Receive(current[w].d)
       \/ UNCHANGED received
    /\ queue' = [queue EXCEPT ![w] = <<>>]
    /\ current' = [current EXCEPT ![w] = NoTask]
    /\ asleep' = [asleep EXCEPT ![w] = {}]
    /\ UNCHANGED <<broken, posts>>

WorkerStarts(w) ==
    /\ ~up[w]
    /\ up' = [up EXCEPT ![w] = TRUE]
    /\ UNCHANGED <<queue, current, asleep, broken, status, posts, received>>

Answered(w) == PostSucceeds(w) \/ PostFails(w)

HookNext ==
    \/ \E w \in Processes, e \in Events :
         \/ \E p \in HookMatches : Emit(w, e, p)
         \/ \E H \in SUBSET Hooks : EmitRaises(w, e, H)
    \/ \E h \in Hooks : EditRule(h)
    \/ \E w \in Processes : Get(w) \/ Answered(w) \/ WorkerStops(w) \/ WorkerStarts(w)
    \/ \E w \in Processes : \E t \in asleep[w] : RetryWakes(w, t)

HookSpec == HookInit /\ [][HookNext]_hookVars

\* The event loop resumes what can go on, a post ends within its timeout and a sleep in
\* its delay.
HookFairSpec ==
    /\ HookSpec
    /\ \A w \in Processes : /\ WF_hookVars(Get(w))
                          /\ WF_hookVars(Answered(w))
                          /\ \A t \in Task : WF_hookVars(RetryWakes(w, t))

-----------------------------------------------------------------------------
(* Properties.                                                             *)

\* A waiting delivery is one task, in one place of one worker, and any other delivery is
\* none: nothing vanishes between the queue, the dispatcher and a retry, and nothing is
\* queued or posted twice at once.
OneTask ==
    /\ \A d \in Deliveries : status[d] = "waiting" <=> \E w \in Processes : d \in HeldAt(w)
    /\ \A w \in Processes :
         /\ \A i, j \in 1..Len(queue[w]) : queue[w][i].d = queue[w][j].d => i = j
         /\ \A s, t \in asleep[w] : s.d = t.d => s = t
         /\ QueuedAt(w) \cap PostedAt(w) = {}
         /\ QueuedAt(w) \cap AsleepAt(w) = {}
         /\ PostedAt(w) \cap AsleepAt(w) = {}
         /\ \A v \in Processes \ {w} : HeldAt(v) \cap HeldAt(w) = {}

\* The pipeline keeps the promise of Delivery, with one attempt and max_retries retries
\* ("Retry attempts on failure", docs/CONFIGURATION.md:91).
Promise == INSTANCE Delivery WITH Limit <- MaxRetries + 1
PromiseKept == Promise!Spec

\* Whatever a worker with a dispatcher has accepted is delivered or given up in the end.
Settles ==
    \A d \in Deliveries :
        (\E w \in Dispatchers : d \in HeldAt(w)) ~> status[d] # "waiting"
=============================================================================
