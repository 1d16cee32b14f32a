--------------------------- MODULE CircuitBreaker ---------------------------
(***************************************************************************)
(* The circuit breaker in front of storage streaming (src/src/security/    *)
(* circuit_breaker.py) with the part of SecurityStorage that persists it:  *)
(* per worker a record that is_open, record_success and record_failure     *)
(* change in place, and one row in SQLite shared by all workers.           *)
(*                                                                         *)
(* The three methods do not await.  What they start does: _persist_state   *)
(* forks update_circuit with a snapshot, which commits the snapshot and    *)
(* then REPLACES the worker's record by it, whatever happened meanwhile.   *)
(* All callers use the one key "storage_streaming"; an administrator may   *)
(* reset it.                                                               *)
(***************************************************************************)
EXTENDS Naturals

CONSTANTS Workers,           \* the uvicorn worker processes
          Slots,             \* bound: how many storage coroutines are in flight at once
          FailureThreshold,  \* circuit_breaker.failure_threshold
          SuccessThreshold,  \* circuit_breaker.success_threshold
          Timeout,           \* circuit_breaker.timeout
          MaxStreams,        \* bound: file streams in flight at a worker
          MaxFailures,       \* bound: the failures a record counts up to
          MaxTime,           \* bound: the last instant of the clock
          Resets,            \* bound: whether an administrator resets the circuit
          Reloads,           \* bound: whether databases or webhooks are edited, which reloads
          Crashes,           \* bound: whether a worker may crash and be started again
          NoRow              \* the circuit has never been persisted

ASSUME CircuitBreakerAssumption ==
    /\ FailureThreshold \in Nat \ {0}
    /\ SuccessThreshold \in Nat \ {0}
    /\ Timeout \in Nat
    /\ MaxStreams \in Nat
    /\ MaxFailures \in Nat
    /\ MaxTime \in Nat
    /\ Resets \in BOOLEAN
    /\ Reloads \in BOOLEAN
    /\ Crashes \in BOOLEAN

VARIABLES now,      \* time.time(), which is never 0
          row,      \* the circuit_breakers table
          cache,    \* _circuit_breakers_cache of each worker
          up,       \* whether a worker has finished its startup
          streams,  \* file streams a worker has admitted and not finished
          task,     \* the storage coroutines in flight
          healed,   \* history: successes a worker recorded while half-open (capped)
          clean     \* history: no storage coroutine overlapped another since the
                    \* worker last agreed with the table, nor ran elsewhere, nor failed

vars == <<now, row, cache, up, streams, task, healed, clean>>

\* tripped is 0 for None: `if tripped_at and ...` takes both for false.
Circuit == [state : {"closed", "open", "half_open"}, failures : Nat, successes : Nat,
            tripped : Nat]

ASSUME NoRowAssumption == NoRow \notin Circuit

\* What get_circuit_cache creates for a key it does not hold, and what reset writes.
Closed == [state |-> "closed", failures |-> 0, successes |-> 0, tripped |-> 0]

-----------------------------------------------------------------------------
(* Coroutines in flight.                                                   *)

\* update_circuit with the snapshot it was called with.
Persist == [kind : {"persist"}, w : Workers, committed : BOOLEAN, circuit : Circuit]

\* _load_circuit_breakers; fresh (history) is whether no update_circuit touched the
\* row or the record since it began.
Reload == [kind : {"reload"}, w : Workers, selected : BOOLEAN,
           found : Circuit \cup {NoRow}, fresh : BOOLEAN]

Free == [kind |-> "free"]

TypeOK ==
    /\ now \in Nat \ {0}
    /\ row \in Circuit \cup {NoRow}
    /\ cache \in [Workers -> Circuit]
    /\ up \in [Workers -> BOOLEAN]
    /\ streams \in [Workers -> 0..MaxStreams]
    /\ task \in [Slots -> Persist \cup Reload \cup {Free}]
    /\ healed \in [Workers -> 0..SuccessThreshold]
    /\ clean \in [Workers -> BOOLEAN]

IsFree(t)    == task[t].kind = "free"
IsPersist(t) == task[t].kind = "persist"
IsReload(t)  == task[t].kind = "reload"

Quiet == \A t \in Slots : IsFree(t)

Init ==
    /\ now = 1
    /\ row = NoRow
    /\ cache = [w \in Workers |-> Closed]
    /\ up = [w \in Workers |-> TRUE]
    /\ streams = [w \in Workers |-> 0]
    /\ task = [t \in Slots |-> Free]
    /\ healed = [w \in Workers |-> 0]
    /\ clean = [w \in Workers |-> TRUE]

\* asyncio.create_task(SecurityStorage.update_circuit(...)) with the record c.
Fork(t, w, c) ==
    /\ IsFree(t)
    /\ task' = [s \in Slots |->
                  IF s = t
                  THEN [kind |-> "persist", w |-> w, committed |-> FALSE, circuit |-> c]
                  ELSE IF IsReload(s) THEN [task[s] EXCEPT !.fresh = FALSE]
                  ELSE task[s]]
    /\ clean' = [v \in Workers |-> clean[v] /\ v = w /\ Quiet]

-----------------------------------------------------------------------------
(* Requests and streams: nothing here awaits the database.                 *)

\* serve_file starts a stream.
Admit(w) ==
    /\ streams[w] < MaxStreams
    /\ streams' = [streams EXCEPT ![w] = @ + 1]

\* is_open is false at once.  (When it is true the request ends in 503 and changes
\* nothing; so does one that needs no stream.)
Serve(w) ==
    /\ up[w]
    /\ cache[w].state # "open"
    /\ Admit(w)
    /\ UNCHANGED <<now, row, cache, up, task, healed, clean>>

Elapsed(c) == c.tripped # 0 /\ now - c.tripped >= Timeout

\* Mutant: the successes of an earlier recovery are not forgotten.
HalfOpen_keeps_successes(w, t) ==
    /\ up[w]
    /\ cache[w].state = "open"
    /\ Elapsed(cache[w])
    /\ LET c == [cache[w] EXCEPT !.state = "half_open"]
       IN  /\ cache' = [cache EXCEPT ![w] = c]
           /\ Fork(t, w, c)
    /\ \/ Admit(w)
       \/ UNCHANGED streams
    /\ healed' = [healed EXCEPT ![w] = 0]
    /\ UNCHANGED <<now, row, up>>

\* is_open finds an open circuit whose timeout has passed: it lets the request through,
\* which streams or needs no stream (304, 404, 416).
HalfOpen(w, t) ==
    /\ up[w]
    /\ cache[w].state = "open"
    /\ Elapsed(cache[w])
    /\ LET c == [cache[w] EXCEPT !.state = "half_open", !.successes = 0]
       IN  /\ cache' = [cache EXCEPT ![w] = c]
           /\ Fork(t, w, c)
    /\ \/ Admit(w)
       \/ UNCHANGED streams
    /\ healed' = [healed EXCEPT ![w] = 0]
    /\ UNCHANGED <<now, row, up>>

EndStream(w) ==
    /\ up[w]
    /\ streams[w] > 0
    /\ streams' = [streams EXCEPT ![w] = @ - 1]

\* History: one more success recorded while half-open.
Heal(w) == healed' = [healed EXCEPT ![w] = IF @ < SuccessThreshold THEN @ + 1 ELSE @]

\* record_success on a half-open circuit that stays half-open.
SucceedHalfOpen(w) ==
    /\ EndStream(w)
    /\ cache[w].state = "half_open"
    /\ cache[w].successes + 1 < SuccessThreshold
    /\ cache' = [cache EXCEPT ![w].successes = @ + 1]
    /\ Heal(w)
    /\ UNCHANGED <<now, row, up, task, clean>>

\* Mutant: the failures are not reset.
Recover_keeps_failures(w, t) ==
    /\ EndStream(w)
    /\ cache[w].state = "half_open"
    /\ cache[w].successes + 1 >= SuccessThreshold
    /\ LET c == [cache[w] EXCEPT !.state = "closed", !.successes = cache[w].successes + 1]
       IN  /\ cache' = [cache EXCEPT ![w] = c]
           /\ Fork(t, w, c)
    /\ Heal(w)
    /\ UNCHANGED <<now, row, up>>

\* record_success that closes the circuit.  The successes stay in the record.
Recover(w, t) ==
    /\ EndStream(w)
    /\ cache[w].state = "half_open"
    /\ cache[w].successes + 1 >= SuccessThreshold
    /\ LET c == [cache[w] EXCEPT !.state = "closed", !.failures = 0,
                              !.successes = cache[w].successes + 1]
       IN  /\ cache' = [cache EXCEPT ![w] = c]
           /\ Fork(t, w, c)
    /\ Heal(w)
    /\ UNCHANGED <<now, row, up>>

\* record_success otherwise: a closed circuit forgets one failure.
SucceedElse(w) ==
    /\ EndStream(w)
    /\ cache[w].state # "half_open"
    /\ cache' = IF cache[w].state = "closed" /\ cache[w].failures > 0
                THEN [cache EXCEPT ![w].failures = @ - 1]
                ELSE cache
    /\ UNCHANGED <<now, row, up, task, healed, clean>>

Trips(c) == c.failures + 1 >= FailureThreshold /\ c.state # "open"

\* record_failure that only counts.
CountFailure(w) ==
    /\ EndStream(w)
    /\ cache[w].failures < MaxFailures
    /\ ~Trips(cache[w])
    /\ cache' = [cache EXCEPT ![w].failures = @ + 1]
    /\ UNCHANGED <<now, row, up, task, healed, clean>>

\* Mutant: the trip is not persisted.
Trip_unpersisted(w, t) ==
    /\ EndStream(w)
    /\ cache[w].failures < MaxFailures
    /\ Trips(cache[w])
    /\ cache' = [cache EXCEPT ![w].state = "open", ![w].failures = @ + 1, ![w].tripped = now]
    /\ UNCHANGED <<now, row, up, task, healed, clean>>

\* record_failure that trips the circuit.
Trip(w, t) ==
    /\ EndStream(w)
    /\ cache[w].failures < MaxFailures
    /\ Trips(cache[w])
    /\ LET c == [cache[w] EXCEPT !.state = "open", !.failures = cache[w].failures + 1,
                              !.tripped = now]
       IN  /\ cache' = [cache EXCEPT ![w] = c]
           /\ Fork(t, w, c)
    /\ UNCHANGED <<now, row, up, healed>>

\* The client disconnects: GeneratorExit is no Exception, so nothing is recorded.
Abandon(w) ==
    /\ EndStream(w)
    /\ UNCHANGED <<now, row, cache, up, task, healed, clean>>

\* POST /circuit-breakers/{key}/reset: update_circuit up to its first await.
Reset(w, t) ==
    /\ Resets
    /\ up[w]
    /\ Fork(t, w, Closed)
    /\ UNCHANGED <<now, row, cache, up, streams, healed>>

-----------------------------------------------------------------------------
(* The steps of the coroutines.                                            *)

Commit(t) ==
    /\ IsPersist(t)
    /\ ~task[t].committed
    /\ row' = task[t].circuit
    /\ task' = [task EXCEPT ![t].committed = TRUE]
    /\ UNCHANGED <<now, cache, up, streams, healed, clean>>

\* update_circuit resumes and replaces the record.
Apply(t) ==
    /\ IsPersist(t)
    /\ task[t].committed
    /\ LET w == task[t].w
       IN  /\ cache' = [cache EXCEPT ![w] = task[t].circuit]
    /\ task' = [task EXCEPT ![t] = Free]
    /\ UNCHANGED <<now, row, up, streams, healed, clean>>

\* _load_circuit_breakers up to its SELECT, in a worker that is up or is starting.
BeginReload(w, t) ==
    /\ up[w] => Reloads
    /\ ~up[w] => \A s \in Slots : IsReload(s) => task[s].w # w
    /\ IsFree(t)
    /\ cache' = [cache EXCEPT ![w] = Closed]
    /\ task' = [task EXCEPT ![t] = [kind |-> "reload", w |-> w, selected |-> FALSE,
                                    found |-> NoRow, fresh |-> Quiet]]
    /\ clean' = [clean EXCEPT ![w] = FALSE]
    /\ UNCHANGED <<now, row, up, streams, healed>>

SelectRow(t) ==
    /\ IsReload(t)
    /\ ~task[t].selected
    /\ task' = [task EXCEPT ![t].selected = TRUE, ![t].found = row]
    /\ UNCHANGED <<now, row, cache, up, streams, healed, clean>>

\* The row, if there is one, becomes the record.  Without one the worker keeps what the
\* requests served meanwhile have counted.
FillCache(t) ==
    /\ IsReload(t)
    /\ task[t].selected
    /\ LET w == task[t].w
       IN  /\ cache' = IF task[t].found = NoRow THEN cache
                       ELSE [cache EXCEPT ![w] = task[t].found]
           /\ up' = [up EXCEPT ![w] = TRUE]
           /\ clean' = [clean EXCEPT ![w] = task[t].fresh]
    /\ task' = [task EXCEPT ![t] = Free]
    /\ UNCHANGED <<now, row, streams, healed>>

\* The database is locked or the disk fails before the transaction or the SELECT.
Fail(t) ==
    /\ \/ IsPersist(t) /\ ~task[t].committed
       \/ IsReload(t) /\ ~task[t].selected
    /\ task' = [task EXCEPT ![t] = Free]
    /\ clean' = [clean EXCEPT ![task[t].w] = FALSE]
    /\ UNCHANGED <<now, row, cache, up, streams, healed>>

\* The worker process dies with its record, its streams and its coroutines.
Crash(w) ==
    /\ Crashes
    /\ up[w]
    /\ up' = [up EXCEPT ![w] = FALSE]
    /\ cache' = [cache EXCEPT ![w] = Closed]
    /\ streams' = [streams EXCEPT ![w] = 0]
    /\ task' = [t \in Slots |-> IF ~IsFree(t) /\ task[t].w = w THEN Free ELSE task[t]]
    /\ clean' = [clean EXCEPT ![w] = FALSE]
    /\ UNCHANGED <<now, row, healed>>

Tick ==
    /\ now < MaxTime
    /\ now' = now + 1
    /\ UNCHANGED <<row, cache, up, streams, task, healed, clean>>

Request(w) ==
    \/ Serve(w)
    \/ \E t \in Slots : HalfOpen(w, t)

StreamEnds(w) ==
    \/ SucceedHalfOpen(w) \/ SucceedElse(w) \/ CountFailure(w) \/ Abandon(w)
    \/ \E t \in Slots : Recover(w, t) \/ Trip(w, t)

Step(t) == Commit(t) \/ Apply(t) \/ SelectRow(t) \/ FillCache(t) \/ Fail(t)

Next ==
    \/ \E w \in Workers : Request(w) \/ StreamEnds(w) \/ Crash(w)
    \/ \E w \in Workers, t \in Slots : Reset(w, t) \/ BeginReload(w, t)
    \/ \E t \in Slots : Step(t)
    \/ Tick

Spec == Init /\ [][Next]_vars

-----------------------------------------------------------------------------
(* Properties.                                                             *)

\* A record that makes sense: a closed circuit has not reached the failure threshold, an
\* open one has and knows when it tripped (else is_open could never let it half-open),
\* and a half-open one has but has not yet succeeded often enough to be closed.  So
\* whatever snapshot lands late, the next failure of a half-open circuit trips it again.
Sound(c) ==
    /\ c.state = "closed" => c.failures < FailureThreshold
    /\ c.state # "closed" => c.failures >= FailureThreshold /\ c.tripped # 0
    /\ c.state = "half_open" => c.successes < SuccessThreshold

RecordsSound ==
    \A w \in Workers : Sound(cache[w])

\* A half-open record never counts more successes than its worker has recorded since it
\* half-opened the circuit: late snapshots and reloads lose successes, they add none.
SuccessesRecorded ==
    \A w \in Workers : cache[w].state = "half_open" => cache[w].successes <= healed[w]

\* A worker whose storage coroutines ran one at a time, with none at other workers, has on
\* disk the state and the trip time it acts on; closed is also the state of no row.
OnDisk == IF row = NoRow THEN Closed ELSE row

Agree(w) == cache[w].state = OnDisk.state /\ cache[w].tripped = OnDisk.tripped

PersistedWhenQuiet ==
    \A w \in Workers : clean[w] /\ Quiet => Agree(w)

-----------------------------------------------------------------------------
(* Why they hold.                                                          *)

\* A snapshot is sound, and one that is half-open counts no success yet.
SoundSnapshot(c) == Sound(c) /\ (c.state = "half_open" => c.successes = 0)

SnapshotsSound ==
    /\ row # NoRow => SoundSnapshot(row)
    /\ \A t \in Slots : IsPersist(t) => SoundSnapshot(task[t].circuit)
    /\ \A t \in Slots : IsReload(t) /\ task[t].found # NoRow => SoundSnapshot(task[t].found)

\* The inductive invariant of the records.
Inv == TypeOK /\ RecordsSound /\ SuccessesRecorded /\ SnapshotsSound

\* While a worker is clean the only update in flight is its own, and with none in flight
\* it agrees with the disk.
CleanStates ==
    \A w \in Workers : clean[w] =>
        /\ \A t \in Slots : IsPersist(t) =>
              /\ task[t].w = w
              /\ \A s \in Slots \ {t} : ~IsPersist(s)
              /\ task[t].committed => row = task[t].circuit
        /\ (\A t \in Slots : ~IsPersist(t)) => Agree(w)

\* While a reload is fresh nothing is written, and what any reload has read is the row.
FreshReloads ==
    \A t \in Slots : IsReload(t) /\ task[t].fresh =>
        /\ \A s \in Slots : /\ ~IsPersist(s)
                            /\ IsReload(s) /\ task[s].selected => task[s].found = row
        /\ \A w \in Workers : task[t].w = w =>
              \/ cache[w].state = "closed" /\ cache[w].tripped = 0
              \/ Agree(w)

\* The inductive invariant of what is on disk.
DiskInv == TypeOK /\ CleanStates /\ FreshReloads
=============================================================================
