------------------------ MODULE CircuitBreakerProofs ------------------------
(***************************************************************************)
(* That the circuit records make sense however late a snapshot lands, that *)
(* no success is counted which was not recorded, and that a worker whose   *)
(* storage coroutines ran one at a time has on disk what it acts on; for   *)
(* any number of workers and coroutines and any thresholds.                *)
(***************************************************************************)
EXTENDS CircuitBreaker, TLAPS

\* What the kind of a coroutine says of its record.
LEMMA TaskKinds ==
    ASSUME TypeOK, NEW t \in Slots
    PROVE  /\ IsPersist(t) => task[t] \in Persist
           /\ IsReload(t) => task[t] \in Reload
           /\ ~(IsPersist(t) /\ IsReload(t))
           /\ IsFree(t) => ~IsPersist(t) /\ ~IsReload(t)
           /\ IsFree(t) \/ IsPersist(t) \/ IsReload(t)
  BY DEF TypeOK, IsPersist, IsReload, IsFree, Persist, Reload, Free

LEMMA ClosedType == Closed \in Circuit
  BY DEF Closed, Circuit

\* What Fork does to each slot.
LEMMA ForkSlots ==
    ASSUME TypeOK, NEW t \in Slots, NEW w \in Workers, NEW c \in Circuit, Fork(t, w, c)
    PROVE  /\ task' \in [Slots -> Persist \cup Reload \cup {Free}]
           /\ clean' \in [Workers -> BOOLEAN]
           /\ IsFree(t)
           /\ IsPersist(t)' /\ task'[t].circuit = c /\ task'[t].w = w
           /\ ~task'[t].committed
           /\ \A s \in Slots \ {t} : IsPersist(s)' <=> IsPersist(s)
           /\ \A s \in Slots \ {t} : IsPersist(s) => task'[s] = task[s]
           /\ ~IsReload(t)'
           /\ \A s \in Slots \ {t} : IsReload(s)' <=> IsReload(s)
           /\ \A s \in Slots \ {t} : IsReload(s) =>
                 ~task'[s].fresh /\ task'[s].found = task[s].found
<1> DEFINE new == [kind |-> "persist", w |-> w, committed |-> FALSE, circuit |-> c]
<1>1. task'[t] = new /\ new \in Persist /\ IsFree(t)
  BY DEF Fork, Persist
<1>2. ASSUME NEW s \in Slots \ {t}, IsReload(s)
      PROVE  /\ task'[s] \in Reload /\ task'[s].kind = "reload"
             /\ ~task'[s].fresh /\ task'[s].found = task[s].found
  BY <1>2, TaskKinds DEF Fork, Reload
<1>3. ASSUME NEW s \in Slots \ {t}, ~IsReload(s)
      PROVE  task'[s] = task[s]
  BY <1>3 DEF Fork
<1>4. task' \in [Slots -> Persist \cup Reload \cup {Free}]
  <2>1. ASSUME NEW s \in Slots PROVE task'[s] \in Persist \cup Reload \cup {Free}
    BY <1>1, <1>2, <1>3 DEF TypeOK
  <2>2. task' = [s \in Slots |-> task'[s]]
    BY DEF Fork
  <2> QED BY <2>1, <2>2
<1>5. clean' \in [Workers -> BOOLEAN]
  BY DEF Fork, TypeOK
<1>6. /\ IsPersist(t)' /\ task'[t].circuit = c /\ task'[t].w = w
      /\ ~task'[t].committed /\ ~IsReload(t)'
  BY <1>1 DEF IsPersist, IsReload
<1>7. \A s \in Slots \ {t} : IsPersist(s)' <=> IsPersist(s)
  BY <1>2, <1>3 DEF IsPersist, IsReload
<1>8. \A s \in Slots \ {t} : IsReload(s)' <=> IsReload(s)
  BY <1>2, <1>3 DEF IsReload
<1>9. \A s \in Slots \ {t} : IsPersist(s) => task'[s] = task[s]
  BY <1>3, TaskKinds
<1> QED BY <1>1, <1>2, <1>4, <1>5, <1>6, <1>7, <1>8, <1>9

LEMMA InitType == Init => TypeOK
  BY CircuitBreakerAssumption, ClosedType DEF Init, TypeOK, Free

LEMMA Updates ==
    ASSUME NEW c \in Circuit, NEW m \in Nat, NEW n \in Nat
    PROVE  /\ [c EXCEPT !.state = "closed", !.failures = 0, !.successes = n] \in Circuit
           /\ [c EXCEPT !.state = "open", !.failures = m, !.tripped = n] \in Circuit
<1>1. [c EXCEPT !.state = "closed", !.failures = 0, !.successes = n] \in Circuit
  BY DEF Circuit
<1>2. [c EXCEPT !.state = "open", !.failures = m, !.tripped = n] \in Circuit
  BY DEF Circuit
<1> QED BY <1>1, <1>2

\* The records that is_open, record_success and record_failure write.
LEMMA NewRecords ==
    ASSUME TypeOK, NEW w \in Workers
    PROVE  /\ cache[w] \in Circuit
           /\ [cache[w] EXCEPT !.state = "half_open", !.successes = 0] \in Circuit
           /\ [cache[w] EXCEPT !.successes = @ + 1] \in Circuit
           /\ [cache[w] EXCEPT !.state = "closed", !.failures = 0,
                               !.successes = cache[w].successes + 1] \in Circuit
           /\ cache[w].failures > 0 => [cache[w] EXCEPT !.failures = @ - 1] \in Circuit
           /\ [cache[w] EXCEPT !.failures = @ + 1] \in Circuit
           /\ [cache[w] EXCEPT !.state = "open", !.failures = cache[w].failures + 1,
                               !.tripped = now] \in Circuit
<1>1. cache[w] \in Circuit /\ now \in Nat
  BY DEF TypeOK
<1>8. cache[w].successes + 1 \in Nat /\ cache[w].failures + 1 \in Nat
  BY <1>1 DEF Circuit
<1>2. [cache[w] EXCEPT !.state = "half_open", !.successes = 0] \in Circuit
  BY <1>1 DEF Circuit
<1>3. [cache[w] EXCEPT !.successes = @ + 1] \in Circuit
  BY <1>1 DEF Circuit
<1>4. [cache[w] EXCEPT !.state = "closed", !.failures = 0,
                       !.successes = cache[w].successes + 1] \in Circuit
  BY <1>1, <1>8, Updates
<1>5. cache[w].failures > 0 => [cache[w] EXCEPT !.failures = @ - 1] \in Circuit
  BY <1>1 DEF Circuit
<1>6. [cache[w] EXCEPT !.failures = @ + 1] \in Circuit
  BY <1>1 DEF Circuit
<1>7. [cache[w] EXCEPT !.state = "open", !.failures = cache[w].failures + 1,
                       !.tripped = now] \in Circuit
  BY <1>1, <1>8, Updates
<1> QED BY <1>1, <1>2, <1>3, <1>4, <1>5, <1>6, <1>7

\* Streams are counted within their bound, and so are the healing successes.
LEMMA Counters ==
    ASSUME TypeOK, NEW w \in Workers
    PROVE  /\ Admit(w) => streams' \in [Workers -> 0..MaxStreams]
           /\ EndStream(w) => streams' \in [Workers -> 0..MaxStreams]
           /\ Heal(w) => healed' \in [Workers -> 0..SuccessThreshold]
  BY CircuitBreakerAssumption DEF TypeOK, Admit, EndStream, Heal

\* Every step keeps the types.
LEMMA NextType == TypeOK /\ [Next]_vars => TypeOK'
<1> SUFFICES ASSUME TypeOK, [Next]_vars PROVE TypeOK'
  OBVIOUS
<1> USE CircuitBreakerAssumption
<1>1. ASSUME NEW w \in Workers, Serve(w) PROVE TypeOK'
  BY <1>1, Counters DEF Serve, TypeOK
<1>2. ASSUME NEW w \in Workers, NEW t \in Slots, HalfOpen(w, t) PROVE TypeOK'
  <2> DEFINE c == [cache[w] EXCEPT !.state = "half_open", !.successes = 0]
  <2>1. c \in Circuit /\ Fork(t, w, c) /\ cache' = [cache EXCEPT ![w] = c]
    BY <1>2, NewRecords DEF HalfOpen
  <2> HIDE DEF c
  <2>2. streams' \in [Workers -> 0..MaxStreams]
    BY <1>2, Counters DEF HalfOpen, TypeOK
  <2>3. /\ task' \in [Slots -> Persist \cup Reload \cup {Free}]
        /\ clean' \in [Workers -> BOOLEAN]
    BY <2>1, ForkSlots
  <2>4. cache' \in [Workers -> Circuit]
        /\ healed' \in [Workers -> 0..SuccessThreshold]
    BY <1>2, <2>1 DEF HalfOpen, TypeOK
  <2> QED BY <1>2, <2>2, <2>3, <2>4 DEF HalfOpen, TypeOK
<1>3. ASSUME NEW w \in Workers, SucceedHalfOpen(w) PROVE TypeOK'
  BY <1>3, Counters, NewRecords DEF SucceedHalfOpen, TypeOK
<1>4. ASSUME NEW w \in Workers, NEW t \in Slots, Recover(w, t) PROVE TypeOK'
  BY <1>4, Counters, NewRecords, ForkSlots DEF Recover, TypeOK
<1>5. ASSUME NEW w \in Workers, SucceedElse(w) PROVE TypeOK'
  BY <1>5, Counters, NewRecords DEF SucceedElse, TypeOK
<1>6. ASSUME NEW w \in Workers, CountFailure(w) PROVE TypeOK'
  BY <1>6, Counters, NewRecords DEF CountFailure, TypeOK
<1>7. ASSUME NEW w \in Workers, NEW t \in Slots, Trip(w, t) PROVE TypeOK'
  BY <1>7, Counters, NewRecords, ForkSlots DEF Trip, TypeOK
<1>8. ASSUME NEW w \in Workers, Abandon(w) PROVE TypeOK'
  BY <1>8, Counters DEF Abandon, TypeOK
<1>9. ASSUME NEW w \in Workers, NEW t \in Slots, Reset(w, t) PROVE TypeOK'
  BY <1>9, ClosedType, ForkSlots DEF Reset, TypeOK
<1>10. ASSUME NEW w \in Workers, NEW t \in Slots, BeginReload(w, t) PROVE TypeOK'
  <2>1. [kind |-> "reload", w |-> w, selected |-> FALSE, found |-> NoRow,
         fresh |-> Quiet] \in Reload
    BY DEF Reload, Quiet
  <2> QED BY <1>10, <2>1, ClosedType DEF BeginReload, TypeOK
<1>11. ASSUME NEW t \in Slots, Commit(t) PROVE TypeOK'
  <2>1. task[t] \in Persist
    BY <1>11, TaskKinds DEF Commit
  <2> QED BY <1>11, <2>1 DEF Commit, TypeOK, Persist
<1>12. ASSUME NEW t \in Slots, Apply(t) PROVE TypeOK'
  <2>1. task[t] \in Persist
    BY <1>12, TaskKinds DEF Apply
  <2> QED BY <1>12, <2>1 DEF Apply, TypeOK, Persist
<1>13. ASSUME NEW t \in Slots, SelectRow(t) PROVE TypeOK'
  <2>1. task[t] \in Reload
    BY <1>13, TaskKinds DEF SelectRow
  <2> QED BY <1>13, <2>1 DEF SelectRow, TypeOK, Reload
<1>14. ASSUME NEW t \in Slots, FillCache(t) PROVE TypeOK'
  <2>1. task[t] \in Reload
    BY <1>14, TaskKinds DEF FillCache
  <2> QED BY <1>14, <2>1 DEF FillCache, TypeOK, Reload
<1>15. ASSUME NEW t \in Slots, Fail(t) PROVE TypeOK'
  BY <1>15 DEF Fail, TypeOK
<1>16. ASSUME NEW w \in Workers, Crash(w) PROVE TypeOK'
  BY <1>16, ClosedType DEF Crash, TypeOK
<1>17. CASE Tick
  BY <1>17 DEF Tick, TypeOK
<1>18. CASE UNCHANGED vars
  BY <1>18 DEF vars, TypeOK
<1> QED
  BY <1>1, <1>2, <1>3, <1>4, <1>5, <1>6, <1>7, <1>8, <1>9, <1>10, <1>11, <1>12,
     <1>13, <1>14, <1>15, <1>16, <1>17, <1>18 DEF Next, Request, StreamEnds, Step

\* The breaker's variables keep their types.
THEOREM TypeCorrect == Spec => []TypeOK
  BY InitType, NextType, PTL DEF Spec

-----------------------------------------------------------------------------
(* The records make sense.                                                 *)

LEMMA ClosedSound == SoundSnapshot(Closed)
  BY CircuitBreakerAssumption DEF SoundSnapshot, Sound, Closed

\* A worker's record is replaced by one that is sound and counts no unrecorded success.
LEMMA RecordStep ==
    ASSUME Inv, NEW w \in Workers, NEW c \in Circuit, cache' = [cache EXCEPT ![w] = c],
           Sound(c), c.state = "half_open" => c.successes <= healed'[w],
           \A v \in Workers \ {w} : healed'[v] = healed[v]
    PROVE  RecordsSound' /\ SuccessesRecorded'
<1>1. ASSUME NEW v \in Workers
      PROVE  /\ Sound(cache'[v])
             /\ cache'[v].state = "half_open" => cache'[v].successes <= healed'[v]
  <2>1. CASE v = w
    BY <2>1 DEF Inv, TypeOK
  <2>2. CASE v # w
    BY <2>2 DEF Inv, TypeOK, RecordsSound, SuccessesRecorded
  <2> QED BY <2>1, <2>2
<1> QED BY <1>1 DEF RecordsSound, SuccessesRecorded

\* The records and the counts of successes stay as they are.
LEMMA RecordStutter ==
    ASSUME Inv, cache' = cache, healed' = healed
    PROVE  RecordsSound' /\ SuccessesRecorded'
  BY DEF Inv, RecordsSound, SuccessesRecorded, Sound

\* No slot holds a snapshot that is not sound, if those that are new hold none.
LEMMA SnapshotStep ==
    ASSUME Inv,
           row' = row \/ row' = NoRow \/ SoundSnapshot(row'),
           \A s \in Slots : IsPersist(s)' =>
              \/ SoundSnapshot(task'[s].circuit)
              \/ IsPersist(s) /\ task'[s].circuit = task[s].circuit,
           \A s \in Slots : IsReload(s)' =>
              \/ task'[s].found = NoRow \/ SoundSnapshot(task'[s].found)
              \/ IsReload(s) /\ task'[s].found = task[s].found
    PROVE  SnapshotsSound'
<1>1. row' # NoRow => SoundSnapshot(row')
  BY DEF Inv, SnapshotsSound
<1>2. ASSUME NEW s \in Slots, IsPersist(s)' PROVE SoundSnapshot(task'[s].circuit)
  BY <1>2 DEF Inv, SnapshotsSound
<1>3. ASSUME NEW s \in Slots, IsReload(s)', task'[s].found # NoRow
      PROVE  SoundSnapshot(task'[s].found)
  BY <1>3 DEF Inv, SnapshotsSound
<1> QED BY <1>1, <1>2, <1>3 DEF SnapshotsSound, SoundSnapshot, Sound

\* A Fork of a sound snapshot.
LEMMA ForkSound ==
    ASSUME Inv, NEW t \in Slots, NEW w \in Workers, NEW c \in Circuit, Fork(t, w, c),
           SoundSnapshot(c), row' = row
    PROVE  SnapshotsSound'
<1>1. TypeOK
  BY DEF Inv
<1>2. \A s \in Slots : IsPersist(s)' =>
        \/ SoundSnapshot(task'[s].circuit)
        \/ IsPersist(s) /\ task'[s].circuit = task[s].circuit
  BY <1>1, ForkSlots
<1>3. \A s \in Slots : IsReload(s)' => IsReload(s) /\ task'[s].found = task[s].found
  BY <1>1, ForkSlots
<1> QED BY <1>2, <1>3, SnapshotStep

\* Slots that keep their record or become free, or only change a flag.
LEMMA KeepSound ==
    ASSUME Inv, row' = row,
           \A s \in Slots : \/ task'[s] = task[s]
                            \/ task'[s].kind = "free"
    PROVE  SnapshotsSound'
<1>1. \A s \in Slots : IsPersist(s)' => IsPersist(s) /\ task'[s].circuit = task[s].circuit
  BY DEF IsPersist
<1>2. \A s \in Slots : IsReload(s)' => IsReload(s) /\ task'[s].found = task[s].found
  BY DEF IsReload
<1> QED BY <1>1, <1>2, SnapshotStep

LEMMA InitInv == Init => Inv
<1> SUFFICES ASSUME Init PROVE Inv
  OBVIOUS
<1>1. RecordsSound /\ SuccessesRecorded
  BY ClosedSound DEF Init, RecordsSound, SuccessesRecorded, SoundSnapshot, Closed
<1>2. SnapshotsSound
  BY DEF Init, SnapshotsSound, IsPersist, IsReload, Free
<1> QED BY <1>1, <1>2, InitType DEF Inv

\* The steps of requests and of streams that end.
LEMMA StreamInv ==
    ASSUME Inv, NEW w \in Workers, Request(w) \/ StreamEnds(w)
    PROVE  RecordsSound' /\ SuccessesRecorded' /\ SnapshotsSound'
<1> USE CircuitBreakerAssumption
<1>0. /\ TypeOK /\ cache[w] \in Circuit /\ Sound(cache[w])
      /\ cache[w].state = "half_open" => cache[w].successes <= healed[w]
      /\ healed[w] \in 0..SuccessThreshold /\ now \in Nat \ {0}
      /\ cache[w].failures \in Nat /\ cache[w].successes \in Nat
  BY DEF Inv, TypeOK, RecordsSound, SuccessesRecorded, Circuit
<1>1. CASE Serve(w)
  BY <1>1, RecordStutter, KeepSound DEF Serve
<1>2. ASSUME NEW t \in Slots, HalfOpen(w, t)
      PROVE  RecordsSound' /\ SuccessesRecorded' /\ SnapshotsSound'
  <2> DEFINE c == [cache[w] EXCEPT !.state = "half_open", !.successes = 0]
  <2>1. /\ c \in Circuit /\ Fork(t, w, c) /\ cache' = [cache EXCEPT ![w] = c] /\ row' = row
        /\ healed' = [healed EXCEPT ![w] = 0] /\ cache[w].state = "open"
    BY <1>0, <1>2, NewRecords DEF HalfOpen
  <2>2. /\ c.state = "half_open" /\ c.successes = 0 /\ c.failures = cache[w].failures
        /\ c.tripped = cache[w].tripped
    BY <1>0 DEF Circuit
  <2> HIDE DEF c
  <2>3. SoundSnapshot(c) /\ Sound(c)
    BY <1>0, <2>1, <2>2 DEF SoundSnapshot, Sound
  <2>4. c.successes <= healed'[w] /\ \A v \in Workers \ {w} : healed'[v] = healed[v]
    BY <1>0, <2>1, <2>2 DEF TypeOK
  <2> QED BY <2>1, <2>3, <2>4, RecordStep, ForkSound
<1>3. CASE SucceedHalfOpen(w)
  <2> DEFINE c == [cache[w] EXCEPT !.successes = @ + 1]
  <2>1. /\ c \in Circuit /\ cache' = [cache EXCEPT ![w] = c] /\ row' = row /\ task' = task
        /\ Heal(w) /\ cache[w].state = "half_open"
        /\ cache[w].successes + 1 < SuccessThreshold
    BY <1>0, <1>3, NewRecords DEF SucceedHalfOpen
  <2>2. /\ c.state = "half_open" /\ c.successes = cache[w].successes + 1
        /\ c.failures = cache[w].failures /\ c.tripped = cache[w].tripped
    BY <1>0, <2>1 DEF Circuit
  <2> HIDE DEF c
  <2>3. Sound(c)
    BY <1>0, <2>1, <2>2 DEF Sound
  <2>4. /\ healed'[w] = IF healed[w] < SuccessThreshold THEN healed[w] + 1 ELSE healed[w]
        /\ \A v \in Workers \ {w} : healed'[v] = healed[v]
    BY <1>0, <2>1 DEF TypeOK, Heal
  <2>5. c.successes <= healed'[w]
    BY <1>0, <2>1, <2>2, <2>4
  <2> QED BY <2>1, <2>3, <2>4, <2>5, RecordStep, KeepSound
<1>4. ASSUME NEW t \in Slots, Recover(w, t)
      PROVE  RecordsSound' /\ SuccessesRecorded' /\ SnapshotsSound'
  <2> DEFINE c == [cache[w] EXCEPT !.state = "closed", !.failures = 0,
                                   !.successes = cache[w].successes + 1]
  <2>1. /\ c \in Circuit /\ Fork(t, w, c) /\ cache' = [cache EXCEPT ![w] = c]
        /\ row' = row /\ Heal(w)
    BY <1>0, <1>4, NewRecords DEF Recover
  <2>2. c.state = "closed" /\ c.failures = 0
    BY <1>0 DEF Circuit
  <2> HIDE DEF c
  <2>3. SoundSnapshot(c) /\ Sound(c) /\ c.state # "half_open"
    BY <2>2 DEF SoundSnapshot, Sound
  <2>4. \A v \in Workers \ {w} : healed'[v] = healed[v]
    BY <1>0, <2>1 DEF TypeOK, Heal
  <2> QED BY <2>1, <2>3, <2>4, RecordStep, ForkSound
<1>5. CASE SucceedElse(w)
  <2>1. CASE cache[w].state = "closed" /\ cache[w].failures > 0
    <3> DEFINE c == [cache[w] EXCEPT !.failures = @ - 1]
    <3>1. /\ c \in Circuit /\ cache' = [cache EXCEPT ![w] = c] /\ row' = row
          /\ task' = task /\ healed' = healed
      BY <1>0, <1>5, <2>1, NewRecords DEF SucceedElse
    <3>2. c.state = "closed" /\ c.failures = cache[w].failures - 1
      BY <1>0, <2>1 DEF Circuit
    <3> HIDE DEF c
    <3>3. Sound(c) /\ c.state # "half_open"
      BY <1>0, <2>1, <3>2 DEF Sound
    <3> QED BY <3>1, <3>3, RecordStep, KeepSound
  <2>2. CASE ~(cache[w].state = "closed" /\ cache[w].failures > 0)
    BY <1>5, <2>2, RecordStutter, KeepSound DEF SucceedElse
  <2> QED BY <2>1, <2>2
<1>6. CASE CountFailure(w)
  <2> DEFINE c == [cache[w] EXCEPT !.failures = @ + 1]
  <2>1. /\ c \in Circuit /\ cache' = [cache EXCEPT ![w] = c] /\ row' = row
        /\ task' = task /\ healed' = healed /\ ~Trips(cache[w])
    BY <1>0, <1>6, NewRecords DEF CountFailure
  <2>2. /\ c.state = cache[w].state /\ c.failures = cache[w].failures + 1
        /\ c.successes = cache[w].successes /\ c.tripped = cache[w].tripped
    BY <1>0 DEF Circuit
  <2> HIDE DEF c
  <2>3. Sound(c) /\ (c.state = "half_open" => c.successes <= healed'[w])
    BY <1>0, <2>1, <2>2 DEF Sound, Trips
  <2> QED BY <2>1, <2>3, RecordStep, KeepSound
<1>7. ASSUME NEW t \in Slots, Trip(w, t)
      PROVE  RecordsSound' /\ SuccessesRecorded' /\ SnapshotsSound'
  <2> DEFINE c == [cache[w] EXCEPT !.state = "open", !.failures = cache[w].failures + 1,
                                   !.tripped = now]
  <2>1. /\ c \in Circuit /\ Fork(t, w, c) /\ cache' = [cache EXCEPT ![w] = c]
        /\ row' = row /\ healed' = healed /\ Trips(cache[w])
    BY <1>0, <1>7, NewRecords DEF Trip
  <2>2. c.state = "open" /\ c.failures = cache[w].failures + 1 /\ c.tripped = now
    BY <1>0 DEF Circuit
  <2> HIDE DEF c
  <2>3. SoundSnapshot(c) /\ Sound(c) /\ c.state # "half_open"
    BY <1>0, <2>1, <2>2 DEF SoundSnapshot, Sound, Trips
  <2> QED BY <2>1, <2>3, RecordStep, ForkSound
<1>8. CASE Abandon(w)
  BY <1>8, RecordStutter, KeepSound DEF Abandon
<1> QED
  BY <1>1, <1>2, <1>3, <1>4, <1>5, <1>6, <1>7, <1>8 DEF Request, StreamEnds

\* The steps of the coroutines.
LEMMA TaskInv ==
    ASSUME Inv, NEW t \in Slots, Step(t)
    PROVE  RecordsSound' /\ SuccessesRecorded' /\ SnapshotsSound'
<1>0. TypeOK
  BY DEF Inv
<1>1. CASE Commit(t)
  <2>1. task[t] \in Persist /\ SoundSnapshot(task[t].circuit)
    BY <1>0, <1>1, TaskKinds DEF Commit, Inv, SnapshotsSound
  <2>2. /\ task'[t].circuit = task[t].circuit /\ ~IsReload(t)' /\ IsPersist(t)
        /\ \A s \in Slots \ {t} : task'[s] = task[s]
    BY <1>0, <1>1, <2>1 DEF Commit, TypeOK, Persist, IsReload, IsPersist
  <2>3. row' = task[t].circuit /\ cache' = cache /\ healed' = healed
    BY <1>1 DEF Commit
  <2>4. \A s \in Slots : IsPersist(s)' => IsPersist(s) /\ task'[s].circuit = task[s].circuit
    BY <2>2 DEF IsPersist
  <2>5. \A s \in Slots : IsReload(s)' => IsReload(s) /\ task'[s].found = task[s].found
    BY <2>2 DEF IsReload
  <2> QED BY <2>1, <2>3, <2>4, <2>5, RecordStutter, SnapshotStep
<1>2. CASE Apply(t)
  <2>1. task[t] \in Persist /\ SoundSnapshot(task[t].circuit)
    BY <1>0, <1>2, TaskKinds DEF Apply, Inv, SnapshotsSound
  <2>2. /\ cache' = [cache EXCEPT ![task[t].w] = task[t].circuit] /\ healed' = healed
        /\ row' = row /\ \A s \in Slots : task'[s] = task[s] \/ task'[s].kind = "free"
    BY <1>0, <1>2 DEF Apply, TypeOK, Free
  <2>3. /\ task[t].w \in Workers /\ task[t].circuit \in Circuit /\ Sound(task[t].circuit)
        /\ task[t].circuit.state = "half_open" =>
             task[t].circuit.successes <= healed'[task[t].w]
    BY <1>0, <2>1, <2>2, CircuitBreakerAssumption DEF Persist, SoundSnapshot, TypeOK
  <2> QED BY <2>2, <2>3, RecordStep, KeepSound
<1>3. CASE SelectRow(t)
  <2>1. task[t] \in Reload
    BY <1>0, <1>3, TaskKinds DEF SelectRow
  <2>2. /\ task'[t].found = row /\ ~IsPersist(t)'
        /\ \A s \in Slots \ {t} : task'[s] = task[s]
        /\ row' = row /\ cache' = cache /\ healed' = healed
    BY <1>0, <1>3, <2>1 DEF SelectRow, TypeOK, Reload, IsPersist
  <2>3. \A s \in Slots : IsPersist(s)' => IsPersist(s) /\ task'[s].circuit = task[s].circuit
    BY <2>2 DEF IsPersist
  <2>4. \A s \in Slots : IsReload(s)' =>
          \/ task'[s].found = NoRow \/ SoundSnapshot(task'[s].found)
          \/ IsReload(s) /\ task'[s].found = task[s].found
    BY <2>2 DEF IsReload, Inv, SnapshotsSound
  <2> QED BY <2>2, <2>3, <2>4, RecordStutter, SnapshotStep
<1>4. CASE FillCache(t)
  <2>1. task[t] \in Reload /\ (task[t].found # NoRow => SoundSnapshot(task[t].found))
    BY <1>0, <1>4, TaskKinds DEF FillCache, Inv, SnapshotsSound
  <2>2. /\ healed' = healed /\ row' = row
        /\ \A s \in Slots : task'[s] = task[s] \/ task'[s].kind = "free"
    BY <1>0, <1>4 DEF FillCache, TypeOK, Free
  <2>3. CASE task[t].found = NoRow
    BY <1>4, <2>2, <2>3, RecordStutter, KeepSound DEF FillCache
  <2>4. CASE task[t].found # NoRow
    <3>1. cache' = [cache EXCEPT ![task[t].w] = task[t].found]
      BY <1>4, <2>4 DEF FillCache
    <3>2. /\ task[t].w \in Workers /\ task[t].found \in Circuit /\ Sound(task[t].found)
          /\ task[t].found.state = "half_open" =>
               task[t].found.successes <= healed'[task[t].w]
      BY <1>0, <2>1, <2>2, <2>4, CircuitBreakerAssumption DEF Reload, SoundSnapshot, TypeOK
    <3> QED BY <2>2, <3>1, <3>2, RecordStep, KeepSound
  <2> QED BY <2>3, <2>4
<1>5. CASE Fail(t)
  BY <1>0, <1>5, RecordStutter, KeepSound DEF Fail, TypeOK, Free
<1> QED BY <1>1, <1>2, <1>3, <1>4, <1>5 DEF Step

\* Every step keeps the records sound.
LEMMA NextInv == Inv /\ [Next]_vars => Inv'
<1> SUFFICES ASSUME Inv, [Next]_vars PROVE RecordsSound' /\ SuccessesRecorded' /\ SnapshotsSound'
  BY NextType DEF Inv
<1>0. TypeOK
  BY DEF Inv
<1>1. CASE \E w \in Workers : Request(w) \/ StreamEnds(w)
  BY <1>1, StreamInv
<1>2. CASE \E t \in Slots : Step(t)
  BY <1>2, TaskInv
<1>3. ASSUME NEW w \in Workers, Crash(w)
      PROVE  RecordsSound' /\ SuccessesRecorded' /\ SnapshotsSound'
  <2>1. /\ cache' = [cache EXCEPT ![w] = Closed] /\ healed' = healed /\ row' = row
        /\ \A s \in Slots : task'[s] = task[s] \/ task'[s].kind = "free"
    BY <1>3 DEF Crash, Free
  <2> QED BY <2>1, ClosedType, ClosedSound, RecordStep, KeepSound DEF SoundSnapshot, Closed
<1>4. ASSUME NEW w \in Workers, NEW t \in Slots, Reset(w, t)
      PROVE  RecordsSound' /\ SuccessesRecorded' /\ SnapshotsSound'
  BY <1>4, ClosedType, ClosedSound, RecordStutter, ForkSound DEF Reset
<1>5. ASSUME NEW w \in Workers, NEW t \in Slots, BeginReload(w, t)
      PROVE  RecordsSound' /\ SuccessesRecorded' /\ SnapshotsSound'
  <2>1. /\ cache' = [cache EXCEPT ![w] = Closed] /\ healed' = healed /\ row' = row
        /\ task'[t].kind = "reload" /\ task'[t].found = NoRow
        /\ \A s \in Slots \ {t} : task'[s] = task[s]
    BY <1>0, <1>5 DEF BeginReload, TypeOK
  <2>2. RecordsSound' /\ SuccessesRecorded'
    BY <2>1, ClosedType, ClosedSound, RecordStep DEF SoundSnapshot, Closed
  <2>3. \A s \in Slots : IsPersist(s)' => IsPersist(s) /\ task'[s].circuit = task[s].circuit
    <3>1. ~IsPersist(t)'
      BY <2>1 DEF IsPersist
    <3>2. ASSUME NEW s \in Slots \ {t}, IsPersist(s)'
          PROVE  IsPersist(s) /\ task'[s].circuit = task[s].circuit
      BY <2>1, <3>2 DEF IsPersist
    <3> QED BY <3>1, <3>2
  <2>4. \A s \in Slots : IsReload(s)' =>
          \/ task'[s].found = NoRow
          \/ IsReload(s) /\ task'[s].found = task[s].found
    <3>1. ASSUME NEW s \in Slots \ {t}, IsReload(s)'
          PROVE  IsReload(s) /\ task'[s].found = task[s].found
      BY <2>1, <3>1 DEF IsReload
    <3>2. ASSUME NEW s \in Slots, s = t PROVE task'[s].found = NoRow
      BY <2>1, <3>2
    <3> QED BY <3>1, <3>2
  <2> QED BY <2>1, <2>2, <2>3, <2>4, SnapshotStep
<1>6. CASE Tick
  BY <1>6, RecordStutter, KeepSound DEF Tick
<1>7. CASE UNCHANGED vars
  BY <1>7, RecordStutter, KeepSound DEF vars
<1> QED BY <1>1, <1>2, <1>3, <1>4, <1>5, <1>6, <1>7 DEF Next

\* However late a snapshot replaces a record, the record makes sense: the next failure of
\* a half-open circuit trips it, and an open circuit can half-open.
THEOREM RecordsAlwaysSound == Spec => []RecordsSound
<1>1. Inv => RecordsSound
  BY DEF Inv
<1> QED BY <1>1, InitInv, NextInv, PTL DEF Spec

\* A half-open circuit is never closed by successes that were not recorded.
THEOREM NoSuccessInvented == Spec => []SuccessesRecorded
<1>1. Inv => SuccessesRecorded
  BY DEF Inv
<1> QED BY <1>1, InitInv, NextInv, PTL DEF Spec

-----------------------------------------------------------------------------
(* What is on disk.                                                        *)

\* A Fork leaves only its own worker clean, and then only with its own update in flight.
LEMMA ForkDisk ==
    ASSUME DiskInv, NEW t \in Slots, NEW w \in Workers, NEW c \in Circuit, Fork(t, w, c)
    PROVE  CleanStates' /\ FreshReloads'
<1>0. TypeOK
  BY DEF DiskInv
<1>1. /\ IsPersist(t)' /\ task'[t].w = w /\ ~task'[t].committed
      /\ \A s \in Slots \ {t} : IsPersist(s)' <=> IsPersist(s)
      /\ ~IsReload(t)'
      /\ \A s \in Slots \ {t} : IsReload(s)' <=> IsReload(s)
      /\ \A s \in Slots \ {t} : IsReload(s) => ~task'[s].fresh
  BY <1>0, ForkSlots
<1>2. ASSUME NEW v \in Workers, clean'[v]
      PROVE  v = w /\ \A s \in Slots \ {t} : ~IsPersist(s)'
  <2>1. v = w /\ Quiet
    BY <1>2 DEF Fork
  <2>2. \A s \in Slots : ~IsPersist(s)
    BY <1>0, <2>1, TaskKinds DEF Quiet
  <2> QED BY <1>1, <2>1, <2>2
<1>3. CleanStates'
  BY <1>1, <1>2 DEF CleanStates
<1>4. FreshReloads'
  BY <1>1 DEF FreshReloads
<1> QED BY <1>3, <1>4

\* Counting a failure or a success changes neither the state nor the trip time.
LEMMA CountDisk ==
    ASSUME DiskInv, task' = task, clean' = clean, row' = row,
           \A v \in Workers : /\ cache'[v].state = cache[v].state
                              /\ cache'[v].tripped = cache[v].tripped
    PROVE  CleanStates' /\ FreshReloads'
<1>1. \A v \in Workers : Agree(v)' <=> Agree(v)
  BY DEF Agree, OnDisk
<1>2. \A s \in Slots : (IsPersist(s)' <=> IsPersist(s)) /\ (IsReload(s)' <=> IsReload(s))
  BY DEF IsPersist, IsReload
<1>3. CleanStates'
  BY <1>1, <1>2 DEF DiskInv, CleanStates
<1>4. FreshReloads'
  BY <1>1, <1>2 DEF DiskInv, FreshReloads
<1> QED BY <1>3, <1>4

\* Coroutines of w end, and w is clean no longer.
LEMMA DropDisk ==
    ASSUME DiskInv, NEW w \in Workers, row' = row, ~clean'[w],
           \A v \in Workers \ {w} : clean'[v] = clean[v] /\ cache'[v] = cache[v],
           cache'[w] = cache[w] \/ cache'[w] = Closed,
           \A s \in Slots : \/ task'[s] = task[s]
                            \/ task'[s].kind = "free" /\ ~IsFree(s) /\ task[s].w = w
    PROVE  CleanStates' /\ FreshReloads'
<1>0. TypeOK
  BY DEF DiskInv
<1>1. \A s \in Slots : /\ IsPersist(s)' => IsPersist(s) /\ task'[s] = task[s]
                       /\ IsReload(s)' => IsReload(s) /\ task'[s] = task[s]
                       /\ IsPersist(s) /\ task[s].w # w => IsPersist(s)'
  BY DEF IsPersist, IsReload
<1>2. \A v \in Workers \ {w} : Agree(v)' <=> Agree(v)
  BY DEF Agree, OnDisk
<1>3. CleanStates'
  <2> SUFFICES ASSUME NEW v \in Workers, clean'[v]
               PROVE  /\ \A t \in Slots : IsPersist(t)' =>
                            /\ task'[t].w = v
                            /\ \A s \in Slots \ {t} : ~IsPersist(s)'
                            /\ task'[t].committed => row' = task'[t].circuit
                      /\ (\A t \in Slots : ~IsPersist(t)') => Agree(v)'
    BY DEF CleanStates
  <2>1. v # w /\ clean[v]
    OBVIOUS
  <2>2. /\ \A t \in Slots : IsPersist(t) =>
              /\ task[t].w = v
              /\ \A s \in Slots \ {t} : ~IsPersist(s)
              /\ task[t].committed => row = task[t].circuit
        /\ (\A t \in Slots : ~IsPersist(t)) => Agree(v)
    BY <2>1 DEF DiskInv, CleanStates
  <2>3. \A t \in Slots : IsPersist(t)' =>
           /\ task'[t].w = v
           /\ \A s \in Slots \ {t} : ~IsPersist(s)'
           /\ task'[t].committed => row' = task'[t].circuit
    BY <1>1, <2>2
  <2>4. (\A t \in Slots : ~IsPersist(t)') => Agree(v)'
    BY <1>1, <1>2, <2>1, <2>2
  <2> QED BY <2>3, <2>4
<1>4. FreshReloads'
  <2> SUFFICES ASSUME NEW t \in Slots, IsReload(t)', task'[t].fresh
               PROVE  /\ \A s \in Slots : /\ ~IsPersist(s)'
                                          /\ IsReload(s)' /\ task'[s].selected => task'[s].found = row'
                      /\ \A v \in Workers : task'[t].w = v =>
                            \/ cache'[v].state = "closed" /\ cache'[v].tripped = 0
                            \/ Agree(v)'
    BY DEF FreshReloads
  <2>1. IsReload(t) /\ task'[t] = task[t]
    BY <1>1
  <2>2. /\ \A s \in Slots : ~IsPersist(s)
        /\ \A s \in Slots : IsReload(s) /\ task[s].selected => task[s].found = row
        /\ \A v \in Workers : task[t].w = v =>
              \/ cache[v].state = "closed" /\ cache[v].tripped = 0
              \/ Agree(v)
    BY <2>1 DEF DiskInv, FreshReloads
  <2>3. \A s \in Slots : ~IsPersist(s)'
    BY <1>1, <2>2
  <2>4. \A s \in Slots : IsReload(s)' /\ task'[s].selected => task'[s].found = row'
    BY <1>1, <2>2
  <2>5. ASSUME NEW v \in Workers, task[t].w = v
        PROVE  \/ cache'[v].state = "closed" /\ cache'[v].tripped = 0
               \/ Agree(v)'
    <3>1. CASE v = w
      BY <2>2, <2>5, <3>1 DEF Agree, OnDisk, Closed
    <3>2. CASE v # w
      BY <1>2, <2>2, <2>5, <3>2
    <3> QED BY <3>1, <3>2
  <2> QED BY <2>1, <2>3, <2>4, <2>5
<1> QED BY <1>3, <1>4

\* A commit writes the row for the only worker that may be clean.
LEMMA CommitDisk ==
    ASSUME DiskInv, NEW t \in Slots, Commit(t)
    PROVE  CleanStates' /\ FreshReloads'
<1>0. TypeOK /\ task[t] \in Persist /\ IsPersist(t) /\ ~IsReload(t)
  BY TaskKinds DEF DiskInv, Commit
<1>1. /\ task'[t].w = task[t].w /\ task'[t].circuit = task[t].circuit
      /\ row' = task[t].circuit /\ clean' = clean /\ IsPersist(t)'
      /\ \A s \in Slots \ {t} : task'[s] = task[s]
  BY <1>0 DEF Commit, TypeOK, Persist, IsPersist
<1>2. \A s \in Slots : IsPersist(s)' <=> IsPersist(s)
  <2>1. \A s \in Slots \ {t} : IsPersist(s)' <=> IsPersist(s)
    BY <1>1 DEF IsPersist
  <2> QED BY <1>0, <1>1, <2>1
<1>3. ASSUME NEW v \in Workers, clean'[v]
      PROVE  task[t].w = v /\ \A s \in Slots \ {t} : ~IsPersist(s)
  BY <1>0, <1>1, <1>3 DEF DiskInv, CleanStates
<1>4. CleanStates'
  <2> SUFFICES ASSUME NEW v \in Workers, clean'[v]
               PROVE  /\ \A s \in Slots : IsPersist(s)' =>
                            /\ task'[s].w = v
                            /\ \A r \in Slots \ {s} : ~IsPersist(r)'
                            /\ task'[s].committed => row' = task'[s].circuit
                      /\ (\A s \in Slots : ~IsPersist(s)') => Agree(v)'
    BY DEF CleanStates
  <2>1. ASSUME NEW s \in Slots, IsPersist(s)' PROVE s = t
    BY <1>2, <1>3, <2>1
  <2> QED BY <1>0, <1>1, <1>2, <1>3, <2>1
<1>5. \A s \in Slots : IsReload(s)' => IsReload(s) /\ task'[s] = task[s]
  <2>1. ~IsReload(t)'
    BY <1>1 DEF IsPersist, IsReload
  <2>2. ASSUME NEW s \in Slots \ {t}, IsReload(s)' PROVE IsReload(s) /\ task'[s] = task[s]
    BY <1>1, <2>2 DEF IsReload
  <2> QED BY <2>1, <2>2
<1>6. FreshReloads'
  BY <1>0, <1>5 DEF DiskInv, FreshReloads
<1> QED BY <1>4, <1>6

\* An update that resumes gives its worker the row it has written.
LEMMA ApplyDisk ==
    ASSUME DiskInv, NEW t \in Slots, Apply(t)
    PROVE  CleanStates' /\ FreshReloads'
<1>0. TypeOK /\ task[t] \in Persist /\ IsPersist(t) /\ ~IsReload(t)
  BY TaskKinds DEF DiskInv, Apply
<1>1. /\ cache' = [cache EXCEPT ![task[t].w] = task[t].circuit] /\ task[t].committed
      /\ task[t].w \in Workers /\ task[t].circuit \in Circuit
      /\ row' = row /\ clean' = clean /\ ~IsPersist(t)' /\ ~IsReload(t)'
      /\ \A s \in Slots \ {t} : task'[s] = task[s]
  BY <1>0 DEF Apply, TypeOK, Persist, IsPersist, IsReload, Free
<1>2. \A s \in Slots : IsPersist(s)' => IsPersist(s) /\ s # t
  BY <1>1 DEF IsPersist
<1>3. ASSUME NEW v \in Workers, clean'[v]
      PROVE  /\ task[t].w = v /\ \A s \in Slots : ~IsPersist(s)'
             /\ row = task[t].circuit
  BY <1>0, <1>1, <1>2, <1>3 DEF DiskInv, CleanStates
<1>4. ASSUME NEW v \in Workers, clean'[v] PROVE Agree(v)'
  <2>1. OnDisk' = task[t].circuit /\ cache'[v] = task[t].circuit
    BY <1>0, <1>1, <1>3, <1>4, NoRowAssumption DEF OnDisk, TypeOK
  <2> QED BY <2>1 DEF Agree
<1>5. CleanStates'
  BY <1>3, <1>4 DEF CleanStates
<1>6. \A s \in Slots : IsReload(s)' => IsReload(s) /\ task'[s] = task[s]
  BY <1>1 DEF IsReload
<1>7. FreshReloads'
  BY <1>0, <1>6 DEF DiskInv, FreshReloads
<1> QED BY <1>5, <1>7

\* A reload empties the dictionary; it is fresh only if nothing else is in flight.
LEMMA BeginReloadDisk ==
    ASSUME DiskInv, NEW w \in Workers, NEW t \in Slots, BeginReload(w, t)
    PROVE  CleanStates' /\ FreshReloads'
<1>0. TypeOK /\ IsFree(t) /\ ~IsPersist(t) /\ ~IsReload(t)
  BY TaskKinds DEF DiskInv, BeginReload
<1>1. /\ cache'[w] = Closed /\ ~clean'[w] /\ row' = row
      /\ \A v \in Workers \ {w} : clean'[v] = clean[v] /\ cache'[v] = cache[v]
      /\ \A s \in Slots \ {t} : task'[s] = task[s]
      /\ task'[t].kind = "reload" /\ ~task'[t].selected
      /\ task'[t].fresh = Quiet /\ task'[t].w = w
  BY <1>0 DEF BeginReload, TypeOK
<1>2. /\ ~IsPersist(t)'
      /\ \A s \in Slots \ {t} : /\ IsPersist(s)' <=> IsPersist(s)
                                /\ IsReload(s)' <=> IsReload(s)
  BY <1>1 DEF IsPersist, IsReload
<1>3. \A v \in Workers \ {w} : Agree(v)' <=> Agree(v)
  BY <1>1 DEF Agree, OnDisk
<1>4. CleanStates'
  BY <1>0, <1>1, <1>2, <1>3 DEF DiskInv, CleanStates
<1>5. FreshReloads'
  <2> SUFFICES ASSUME NEW r \in Slots, IsReload(r)', task'[r].fresh
               PROVE  /\ \A s \in Slots : /\ ~IsPersist(s)'
                                          /\ IsReload(s)' /\ task'[s].selected => task'[s].found = row'
                      /\ \A v \in Workers : task'[r].w = v =>
                            \/ cache'[v].state = "closed" /\ cache'[v].tripped = 0
                            \/ Agree(v)'
    BY DEF FreshReloads
  <2>1. cache'[w].state = "closed" /\ cache'[w].tripped = 0
    BY <1>1 DEF Closed
  <2>2. CASE r = t
    <3>1. \A s \in Slots : ~IsPersist(s) /\ ~IsReload(s)
      BY <1>0, <1>1, <2>2, TaskKinds DEF Quiet
    <3> QED BY <1>1, <1>2, <2>1, <2>2, <3>1
  <2>3. CASE r # t
    <3>1. IsReload(r) /\ task'[r] = task[r] /\ task[r].fresh
      BY <1>1, <1>2, <2>3
    <3>2. /\ \A s \in Slots : ~IsPersist(s)
          /\ \A s \in Slots : IsReload(s) /\ task[s].selected => task[s].found = row
          /\ \A v \in Workers : task[r].w = v =>
                \/ cache[v].state = "closed" /\ cache[v].tripped = 0
                \/ Agree(v)
      BY <3>1 DEF DiskInv, FreshReloads
    <3>3. \A s \in Slots : /\ ~IsPersist(s)'
                           /\ IsReload(s)' /\ task'[s].selected => task'[s].found = row'
      BY <1>1, <1>2, <3>2
    <3>4. ASSUME NEW v \in Workers, task[r].w = v
          PROVE  \/ cache'[v].state = "closed" /\ cache'[v].tripped = 0
                 \/ Agree(v)'
      <4>1. CASE v = w
        BY <2>1, <4>1
      <4>2. CASE v # w
        BY <1>1, <1>3, <3>2, <3>4, <4>2
      <4> QED BY <4>1, <4>2
    <3> QED BY <3>1, <3>3, <3>4
  <2> QED BY <2>2, <2>3
<1> QED BY <1>4, <1>5

\* A reload reads the row.
LEMMA SelectRowDisk ==
    ASSUME DiskInv, NEW t \in Slots, SelectRow(t)
    PROVE  CleanStates' /\ FreshReloads'
<1>0. TypeOK /\ task[t] \in Reload /\ IsReload(t) /\ ~IsPersist(t)
  BY TaskKinds DEF DiskInv, SelectRow
<1>1. /\ task'[t].w = task[t].w /\ task'[t].fresh = task[t].fresh
      /\ task'[t].found = row /\ task'[t].kind = "reload"
      /\ \A s \in Slots \ {t} : task'[s] = task[s]
      /\ row' = row /\ cache' = cache /\ clean' = clean
  BY <1>0 DEF SelectRow, TypeOK, Reload
<1>2. /\ ~IsPersist(t)'
      /\ \A s \in Slots \ {t} : /\ IsPersist(s)' <=> IsPersist(s)
                                /\ IsReload(s)' <=> IsReload(s)
  BY <1>1 DEF IsPersist, IsReload
<1>3. \A v \in Workers : Agree(v)' <=> Agree(v)
  BY <1>1 DEF Agree, OnDisk
<1>4. CleanStates'
  BY <1>0, <1>1, <1>2, <1>3 DEF DiskInv, CleanStates
<1>5. \A s \in Slots : /\ IsReload(s)' => IsReload(s)
                       /\ task'[s].w = task[s].w
                       /\ IsReload(s) => task'[s].fresh = task[s].fresh
                       /\ IsReload(s) /\ task'[s].selected =>
                            task'[s].found = row \/ (task[s].selected /\ task'[s].found = task[s].found)
  BY <1>0, <1>1, <1>2
<1>6. \A s \in Slots : IsPersist(s)' <=> IsPersist(s)
  BY <1>0, <1>2
<1>7. FreshReloads'
  <2> SUFFICES ASSUME NEW r \in Slots, IsReload(r)', task'[r].fresh
               PROVE  /\ \A s \in Slots : /\ ~IsPersist(s)'
                                          /\ IsReload(s)' /\ task'[s].selected => task'[s].found = row'
                      /\ \A v \in Workers : task'[r].w = v =>
                            \/ cache'[v].state = "closed" /\ cache'[v].tripped = 0
                            \/ Agree(v)'
    BY DEF FreshReloads
  <2>1. IsReload(r) /\ task[r].fresh /\ task'[r].w = task[r].w
    BY <1>5
  <2>2. /\ \A s \in Slots : ~IsPersist(s)
        /\ \A s \in Slots : IsReload(s) /\ task[s].selected => task[s].found = row
        /\ \A v \in Workers : task[r].w = v =>
              \/ cache[v].state = "closed" /\ cache[v].tripped = 0
              \/ Agree(v)
    BY <2>1 DEF DiskInv, FreshReloads
  <2> QED BY <1>1, <1>3, <1>5, <1>6, <2>1, <2>2
<1> QED BY <1>4, <1>7

\* A reload that stayed fresh gives its worker the row.
LEMMA FillCacheDisk ==
    ASSUME DiskInv, NEW t \in Slots, FillCache(t)
    PROVE  CleanStates' /\ FreshReloads'
<1>0. TypeOK /\ task[t] \in Reload /\ IsReload(t) /\ ~IsPersist(t) /\ task[t].selected
  BY TaskKinds DEF DiskInv, FillCache
<1>8. PICK u \in Workers : task[t].w = u
  BY <1>0 DEF Reload
<1>1. /\ row' = row
      /\ cache'[u] = IF task[t].found = NoRow THEN cache[u] ELSE task[t].found
      /\ clean'[u] = task[t].fresh
      /\ \A v \in Workers \ {u} : clean'[v] = clean[v] /\ cache'[v] = cache[v]
      /\ ~IsPersist(t)' /\ ~IsReload(t)'
      /\ \A s \in Slots \ {t} : task'[s] = task[s]
  BY <1>0, <1>8 DEF FillCache, TypeOK, Reload, IsPersist, IsReload, Free
<1>2. \A s \in Slots \ {t} : /\ IsPersist(s)' <=> IsPersist(s)
                             /\ IsReload(s)' <=> IsReload(s)
  BY <1>1 DEF IsPersist, IsReload
<1>3. \A v \in Workers \ {u} : Agree(v)' <=> Agree(v)
  BY <1>1 DEF Agree, OnDisk
\* Whatever fresh reload there is, this one has read the row.
<1>4. ASSUME NEW r \in Slots, IsReload(r), task[r].fresh, task[r].w = u
      PROVE  \/ cache'[u].state = "closed" /\ cache'[u].tripped = 0
             \/ Agree(u)'
  <2>1. /\ task[t].found = row
        /\ \/ cache[u].state = "closed" /\ cache[u].tripped = 0
           \/ Agree(u)
    BY <1>0, <1>1, <1>4 DEF DiskInv, FreshReloads
  <2> QED BY <1>1, <2>1 DEF Agree, OnDisk
<1>5. ASSUME task[t].fresh PROVE Agree(u)' /\ \A s \in Slots : ~IsPersist(s)'
  <2>1. /\ task[t].found = row /\ \A s \in Slots : ~IsPersist(s)
        /\ \/ cache[u].state = "closed" /\ cache[u].tripped = 0
           \/ Agree(u)
    BY <1>0, <1>1, <1>5, <1>8 DEF DiskInv, FreshReloads
  <2>2. Agree(u)'
    BY <1>1, <2>1 DEF Agree, OnDisk, Closed
  <2> QED BY <1>1, <1>2, <2>1, <2>2
<1>6. CleanStates'
  <2> SUFFICES ASSUME NEW v \in Workers, clean'[v]
               PROVE  /\ \A s \in Slots : IsPersist(s)' =>
                            /\ task'[s].w = v
                            /\ \A r \in Slots \ {s} : ~IsPersist(r)'
                            /\ task'[s].committed => row' = task'[s].circuit
                      /\ (\A s \in Slots : ~IsPersist(s)') => Agree(v)'
    BY DEF CleanStates
  <2>1. CASE v = u
    BY <1>1, <1>5, <2>1
  <2>2. CASE v # u
    <3>1. /\ \A s \in Slots : IsPersist(s) =>
                /\ task[s].w = v
                /\ \A r \in Slots \ {s} : ~IsPersist(r)
                /\ task[s].committed => row = task[s].circuit
          /\ (\A s \in Slots : ~IsPersist(s)) => Agree(v)
      BY <1>1, <2>2 DEF DiskInv, CleanStates
    <3> QED BY <1>0, <1>1, <1>2, <1>3, <2>2, <3>1
  <2> QED BY <2>1, <2>2
<1>7. FreshReloads'
  <2> SUFFICES ASSUME NEW r \in Slots, IsReload(r)', task'[r].fresh
               PROVE  /\ \A s \in Slots : /\ ~IsPersist(s)'
                                          /\ IsReload(s)' /\ task'[s].selected => task'[s].found = row'
                      /\ \A v \in Workers : task'[r].w = v =>
                            \/ cache'[v].state = "closed" /\ cache'[v].tripped = 0
                            \/ Agree(v)'
    BY DEF FreshReloads
  <2>1. r # t /\ IsReload(r) /\ task'[r] = task[r] /\ task[r].fresh
    BY <1>1, <1>2
  <2>2. /\ \A s \in Slots : ~IsPersist(s)
        /\ \A s \in Slots : IsReload(s) /\ task[s].selected => task[s].found = row
        /\ \A v \in Workers : task[r].w = v =>
              \/ cache[v].state = "closed" /\ cache[v].tripped = 0
              \/ Agree(v)
    BY <2>1 DEF DiskInv, FreshReloads
  <2>3. \A s \in Slots : /\ ~IsPersist(s)'
                         /\ IsReload(s)' /\ task'[s].selected => task'[s].found = row'
    BY <1>1, <1>2, <2>2
  <2>4. ASSUME NEW v \in Workers, task[r].w = v
        PROVE  \/ cache'[v].state = "closed" /\ cache'[v].tripped = 0
               \/ Agree(v)'
    <3>1. CASE v = u
      BY <1>4, <2>1, <2>4, <3>1
    <3>2. CASE v # u
      BY <1>1, <1>3, <2>2, <2>4, <3>2
    <3> QED BY <3>1, <3>2
  <2> QED BY <2>1, <2>3, <2>4
<1> QED BY <1>6, <1>7

LEMMA InitDisk == Init => DiskInv
<1> SUFFICES ASSUME Init PROVE DiskInv
  OBVIOUS
<1>1. CleanStates
  BY DEF Init, CleanStates, Agree, OnDisk, IsPersist, Free
<1>2. FreshReloads
  BY DEF Init, FreshReloads, IsReload, Free
<1> QED BY <1>1, <1>2, InitType DEF DiskInv

\* Requests and streams that end change what is to be on disk only with a Fork.
LEMMA StreamDisk ==
    ASSUME DiskInv, NEW w \in Workers, Request(w) \/ StreamEnds(w)
    PROVE  CleanStates' /\ FreshReloads'
<1>0. TypeOK
  BY DEF DiskInv
<1>1. CASE Serve(w)
  BY <1>1, CountDisk DEF Serve
<1>2. ASSUME NEW t \in Slots, HalfOpen(w, t) PROVE CleanStates' /\ FreshReloads'
  BY <1>0, <1>2, NewRecords, ForkDisk DEF HalfOpen
<1>3. CASE SucceedHalfOpen(w)
  BY <1>0, <1>3, CountDisk DEF SucceedHalfOpen, TypeOK, Circuit
<1>4. ASSUME NEW t \in Slots, Recover(w, t) PROVE CleanStates' /\ FreshReloads'
  BY <1>0, <1>4, NewRecords, ForkDisk DEF Recover
<1>5. CASE SucceedElse(w)
  BY <1>0, <1>5, CountDisk DEF SucceedElse, TypeOK, Circuit
<1>6. CASE CountFailure(w)
  BY <1>0, <1>6, CountDisk DEF CountFailure, TypeOK, Circuit
<1>7. ASSUME NEW t \in Slots, Trip(w, t) PROVE CleanStates' /\ FreshReloads'
  BY <1>0, <1>7, NewRecords, ForkDisk DEF Trip
<1>8. CASE Abandon(w)
  BY <1>8, CountDisk DEF Abandon
<1> QED
  BY <1>1, <1>2, <1>3, <1>4, <1>5, <1>6, <1>7, <1>8 DEF Request, StreamEnds

\* Every step keeps what is on disk in step with the clean workers.
LEMMA NextDisk == DiskInv /\ [Next]_vars => DiskInv'
<1> SUFFICES ASSUME DiskInv, [Next]_vars PROVE CleanStates' /\ FreshReloads'
  BY NextType DEF DiskInv
<1>0. TypeOK
  BY DEF DiskInv
<1>1. CASE \E w \in Workers : Request(w) \/ StreamEnds(w)
  BY <1>1, StreamDisk
<1>2. ASSUME NEW t \in Slots, Step(t) PROVE CleanStates' /\ FreshReloads'
  <2>1. CASE Fail(t)
    <3>1. task[t].w \in Workers /\ ~IsFree(t)
      BY <1>0, <2>1, TaskKinds DEF Fail, Persist, Reload
    <3>2. /\ row' = row /\ cache' = cache /\ ~clean'[task[t].w]
          /\ \A v \in Workers \ {task[t].w} : clean'[v] = clean[v]
          /\ task'[t].kind = "free" /\ \A s \in Slots \ {t} : task'[s] = task[s]
      BY <1>0, <2>1, <3>1 DEF Fail, TypeOK, Free
    <3>3. \A s \in Slots : \/ task'[s] = task[s]
                           \/ task'[s].kind = "free" /\ ~IsFree(s) /\ task[s].w = task[t].w
      BY <3>1, <3>2
    <3> QED BY <3>1, <3>2, <3>3, DropDisk
  <2> QED BY <1>2, <2>1, CommitDisk, ApplyDisk, SelectRowDisk, FillCacheDisk DEF Step
<1>3. ASSUME NEW w \in Workers, Crash(w) PROVE CleanStates' /\ FreshReloads'
  <2>1. /\ row' = row /\ cache'[w] = Closed /\ ~clean'[w]
        /\ \A v \in Workers \ {w} : clean'[v] = clean[v] /\ cache'[v] = cache[v]
    BY <1>0, <1>3 DEF Crash, TypeOK
  <2>2. \A s \in Slots : \/ task'[s] = task[s]
                         \/ task'[s].kind = "free" /\ ~IsFree(s) /\ task[s].w = w
    BY <1>3 DEF Crash, Free
  <2> QED BY <2>1, <2>2, DropDisk
<1>4. ASSUME NEW w \in Workers, NEW t \in Slots, Reset(w, t) PROVE CleanStates' /\ FreshReloads'
  BY <1>4, ClosedType, ForkDisk DEF Reset
<1>5. ASSUME NEW w \in Workers, NEW t \in Slots, BeginReload(w, t)
      PROVE  CleanStates' /\ FreshReloads'
  BY <1>5, BeginReloadDisk
<1>6. CASE Tick
  BY <1>6, CountDisk DEF Tick
<1>7. CASE UNCHANGED vars
  BY <1>7, CountDisk DEF vars
<1> QED BY <1>1, <1>2, <1>3, <1>4, <1>5, <1>6, <1>7 DEF Next

\* A worker whose storage coroutines did not overlap has on disk the state it acts on, so
\* a restart resumes an open circuit with the time it tripped.
THEOREM DiskAgreement == Spec => []PersistedWhenQuiet
<1>1. DiskInv => PersistedWhenQuiet
  BY TaskKinds DEF DiskInv, PersistedWhenQuiet, CleanStates, Quiet
<1> QED BY <1>1, InitDisk, NextDisk, PTL DEF Spec
=============================================================================
