------------------------------ MODULE RateLimit ------------------------------
(***************************************************************************)
(* check_rate_limit of the three stores (src/src/cache/memory.py,          *)
(* sqlite_backend.py and redis_backend.py) as RateLimitMiddleware calls    *)
(* it.  The counts are kept by limits_key, an address and the name of a    *)
(* key it uses, and the penalty by address.  Refusals are counted by       *)
(* limits_key too, but by Redis under the name alone, which all addresses  *)
(* share.                                                                  *)
(*                                                                         *)
(* The memory store counts in fixed windows and awaits nothing.  The other *)
(* two keep the time of each request: SQLite reads the clock, waits for    *)
(* its lock and works in one exclusive transaction; Redis is awaited for   *)
(* the penalty, and after the clock is read for the script, the counter,   *)
(* its expiry and the penalty in turn.                                     *)
(***************************************************************************)
EXTENDS Integers, FiniteSets

CONSTANTS Requests,    \* bound: the requests in flight at once
          Addresses,   \* client_ip
          Names,       \* api_key_name, "anonymous" among them
          Cap,         \* max_requests (or the key's override) + burst
          Window,      \* rate_limit.window
          CacheTtl,    \* cache.default_ttl, the life of an entry of the memory store
          Cooldown,    \* rate_limit.penalty_cooldown
          Threshold,   \* rate_limit.penalty_threshold
          Delay,       \* bound: the longest a store keeps a request waiting
          MaxTime,     \* bound: the clock
          MaxRefused,  \* bound: the refusals of one name
          None         \* no key, no entry

ASSUME RateLimitAssumption ==
    /\ {Cap, Window, CacheTtl, Cooldown, Threshold} \subseteq Nat \ {0}
    /\ {Delay, MaxTime, MaxRefused} \subseteq Nat
    /\ IsFiniteSet(Requests)
    /\ Names \cap (Addresses \X Names) = {}

VARIABLES store,      \* RateLimitMiddleware._backend, chosen at startup
          now,        \* time.time()
          request,    \* the calls that wait for the store
          fixed,      \* memory: the count and expiry entries of each limits_key
          rows,       \* sqlite, redis: the rows of each limits_key
          violations, \* the entry of each violation_key
          penalty,    \* when the entry of each address's penalty_key expires
          admitted,   \* history: the requests of each limits_key that were let in
          refused     \* history: how often each limits_key was refused over its cap, and each
                      \* name at any address

vars == <<store, now, request, fixed, rows, violations, penalty, admitted, refused>>

Stores == {"memory", "sqlite", "redis"}
Times  == 0..MaxTime

\* limits_key, and the address in it.
Keys       == Addresses \X Names
Address(k) == k[1]

\* violation_key: Redis takes the last part of limits_key, the others all of it.
Counters   == Keys \cup Names
Counter(k) == IF store = "redis" THEN k[2] ELSE k

Idle == [at |-> "idle", key |-> None, clock |-> 0, since |-> 0, count |-> 0]

\* A request that was counted: the tick of its time, and a number among those of one tick, no
\* two of which have the very same time.
Stamps    == [time : Times, nth : Nat \ {0}]
StampSets == {S \in SUBSET Stamps : IsFiniteSet(S)}

\* An entry of a store: a value and when it is dropped.  One that Redis holds without an expiry
\* outlives the clock.
Entry   == [value : Nat, drop : Nat]
Forever == MaxTime + 1

Places == {"arrived", "answered", "script", "count", "expire", "penalise"}

TypeOK ==
    /\ store \in Stores
    /\ now \in Times
    /\ request \in [Requests -> {Idle} \cup
          [at : Places, key : Keys, clock : Times, since : Times, count : Nat]]
    /\ fixed \in [Keys -> [count : Entry, expiry : Entry]]
    /\ rows \in [Keys -> StampSets]
    /\ violations \in [Counters -> Entry]
    /\ penalty \in [Addresses -> Nat]
    /\ admitted \in [Keys -> StampSets]
    /\ refused \in [Counters -> Nat]

NoEntry == [value |-> 0, drop |-> 0]

Init ==
    /\ store \in Stores
    /\ now = 0
    /\ request = [r \in Requests |-> Idle]
    /\ fixed = [k \in Keys |-> [count |-> NoEntry, expiry |-> NoEntry]]
    /\ rows = [k \in Keys |-> {}]
    /\ violations = [c \in Counters |-> NoEntry]
    /\ penalty = [a \in Addresses |-> 0]
    /\ admitted = [k \in Keys |-> {}]
    /\ refused = [c \in Counters |-> 0]

\* cache.get(key, 0): an entry is there until its time has come.
Read(entry) == IF now < entry.drop THEN entry.value ELSE 0

Store(value) == [value |-> value, drop |-> now + CacheTtl]

\* One more of the time t.
Stamp(S, t) == [time |-> t, nth |-> 1 + Cardinality({x \in S : x.time = t})]
Add(S, t)   == S \cup {Stamp(S, t)}

Admit(k)  == admitted' = [admitted EXCEPT ![k] = Add(@, now)]
Refuse(k) ==
    /\ refused[k[2]] < MaxRefused
    /\ refused' = [refused EXCEPT ![k] = @ + 1, ![k[2]] = @ + 1]
Leave(r)  == request' = [request EXCEPT ![r] = Idle]

-----------------------------------------------------------------------------
(* MemoryCache.check_rate_limit and _apply_penalty_violation.              *)

\* The address of k is refused without a trace while the entry is there.
Penalised(k, t) == t < penalty[Address(k)]
Penalise(k, t)  == penalty' = [penalty EXCEPT ![Address(k)] = t]

\* The count a request of k finds, and the entries it leaves: a window that is over, or whose
\* entry the cache has dropped, starts again.
Over(k)     == now > Read(fixed[k].expiry)
Counted(k)  == (IF Over(k) THEN 0 ELSE Read(fixed[k].count)) + 1
Recount(k)  ==
    fixed' = [fixed EXCEPT
        ![k] = [count  |-> Store(Counted(k)),
                expiry |-> IF Over(k) THEN Store(now + Window) ELSE @.expiry]]

\* Mutant: the penalty is not looked up.
MemoryAdmits_penalised(k) ==
    /\ store = "memory"
    /\ Counted(k) <= Cap
    /\ Recount(k)
    /\ Admit(k)
    /\ UNCHANGED <<store, now, request, rows, violations, penalty, refused>>

MemoryAdmits(k) ==
    /\ store = "memory" /\ ~Penalised(k, now)
    /\ Counted(k) <= Cap
    /\ Recount(k)
    /\ Admit(k)
    /\ UNCHANGED <<store, now, request, rows, violations, penalty, refused>>

MemoryRefuses(k) ==
    LET n == Read(violations[k]) + 1
    IN  /\ store = "memory" /\ ~Penalised(k, now)
        /\ Counted(k) > Cap
        /\ Recount(k)
        /\ violations' = [violations EXCEPT ![k] = Store(n)]
        /\ IF n >= Threshold THEN Penalise(k, now + CacheTtl) ELSE UNCHANGED penalty
        /\ Refuse(k)
        /\ UNCHANGED <<store, now, request, rows, admitted>>

-----------------------------------------------------------------------------
(* SQLiteCache.check_rate_limit: the clock is read, then the lock and the  *)
(* exclusive transaction are awaited, and the rest is one transaction.     *)

Arrive(r, k) ==
    /\ store # "memory"
    /\ request[r] = Idle
    /\ request' = [request EXCEPT ![r] =
          [at |-> "arrived", key |-> k, clock |-> now, since |-> now, count |-> 0]]
    /\ UNCHANGED <<store, now, fixed, rows, violations, penalty, admitted, refused>>

\* The rows of k that a cut at a time leaves.
Kept(k, from) == {x \in rows[k] : x.time >= from}

Start(clock) == IF clock < Window THEN 0 ELSE clock - Window

SqliteStep(r) == store = "sqlite" /\ request[r].at = "arrived"

SqlitePenalised(r) ==
    /\ SqliteStep(r)
    /\ Penalised(request[r].key, request[r].clock)
    /\ Leave(r)
    /\ UNCHANGED <<store, now, fixed, rows, violations, penalty, admitted, refused>>

\* Mutant: one request more than the cap.
SqliteAdmits_one_more(r) ==
    LET k == request[r].key
        t == request[r].clock
        kept == Kept(k, Start(t))
    IN  /\ SqliteStep(r)
        /\ ~Penalised(k, t) /\ Cardinality(kept) <= Cap
        /\ rows' = [rows EXCEPT ![k] = Add(kept, t)]
        /\ Admit(k)
        /\ Leave(r)
        /\ UNCHANGED <<store, now, fixed, violations, penalty, refused>>

SqliteAdmits(r) ==
    LET k == request[r].key
        t == request[r].clock
        kept == Kept(k, Start(t))
    IN  /\ SqliteStep(r)
        /\ ~Penalised(k, t) /\ Cardinality(kept) < Cap
        /\ rows' = [rows EXCEPT ![k] = Add(kept, t)]
        /\ Admit(k)
        /\ Leave(r)
        /\ UNCHANGED <<store, now, fixed, violations, penalty, refused>>

\* Mutant: one violation more than the threshold.
SqliteRefuses_one_more(r) ==
    LET k == request[r].key
        t == request[r].clock
        n == violations[k].value + 1
    IN  /\ SqliteStep(r)
        /\ ~Penalised(k, t) /\ Cardinality(Kept(k, Start(t))) >= Cap
        /\ rows' = [rows EXCEPT ![k] = Kept(k, Start(t))]
        /\ violations' = [violations EXCEPT ![k] = [value |-> n, drop |-> t + 2 * Window]]
        /\ IF n > Threshold THEN Penalise(k, t + Cooldown) ELSE UNCHANGED penalty
        /\ Refuse(k)
        /\ Leave(r)
        /\ UNCHANGED <<store, now, fixed, admitted>>

\* _enforce_rate_penalty: the counter is read whether or not it has expired, and nothing in
\* the program deletes what has.
SqliteRefuses(r) ==
    LET k == request[r].key
        t == request[r].clock
        n == violations[k].value + 1
    IN  /\ SqliteStep(r)
        /\ ~Penalised(k, t) /\ Cardinality(Kept(k, Start(t))) >= Cap
        /\ rows' = [rows EXCEPT ![k] = Kept(k, Start(t))]
        /\ violations' = [violations EXCEPT ![k] = [value |-> n, drop |-> t + 2 * Window]]
        /\ IF n >= Threshold THEN Penalise(k, t + Cooldown) ELSE UNCHANGED penalty
        /\ Refuse(k)
        /\ Leave(r)
        /\ UNCHANGED <<store, now, fixed, admitted>>

-----------------------------------------------------------------------------
(* RedisCache.check_rate_limit, one await at a time.                       *)

\* get(penalty_key), which the server answers by its own clock ...
RedisPenalised(r) ==
    /\ store = "redis" /\ request[r].at = "arrived"
    /\ Penalised(request[r].key, now)
    /\ Leave(r)
    /\ UNCHANGED <<store, now, fixed, rows, violations, penalty, admitted, refused>>

RedisAnswers(r) ==
    /\ store = "redis" /\ request[r].at = "arrived"
    /\ ~Penalised(request[r].key, now)
    /\ request' = [request EXCEPT ![r].at = "answered"]
    /\ UNCHANGED <<store, now, fixed, rows, violations, penalty, admitted, refused>>

\* ... and, when the answer has come, the clock.
RedisGoesOn(r) ==
    /\ request[r].at = "answered"
    /\ request' = [request EXCEPT ![r].at = "script", ![r].clock = now]
    /\ UNCHANGED <<store, now, fixed, rows, violations, penalty, admitted, refused>>

\* SLIDING_WINDOW_LUA_SCRIPT, which drops the row at the start of the window too.
ScriptKept(r) ==
    LET t == request[r].clock
    IN  Kept(request[r].key, IF t < Window THEN 0 ELSE t - Window + 1)

RedisAdmits(r) ==
    LET k == request[r].key
        t == request[r].clock
    IN  /\ request[r].at = "script"
        /\ Cardinality(ScriptKept(r)) < Cap
        /\ rows' = [rows EXCEPT ![k] = Add(ScriptKept(r), t)]
        /\ Admit(k)
        /\ Leave(r)
        /\ UNCHANGED <<store, now, fixed, violations, penalty, refused>>

RedisRefuses(r) ==
    LET k == request[r].key
    IN  /\ request[r].at = "script"
        /\ Cardinality(ScriptKept(r)) >= Cap
        /\ rows' = [rows EXCEPT ![k] = ScriptKept(r)]
        /\ Refuse(k)
        /\ request' = [request EXCEPT ![r].at = "count"]
        /\ UNCHANGED <<store, now, fixed, violations, penalty, admitted>>

\* _handle_penalty_application: incr, which leaves the expiry the counter has, and none if it is
\* new, then expire and setex, each awaited.
RedisCounts(r) ==
    LET c == Counter(request[r].key)
        n == Read(violations[c]) + 1
        drop == IF now < violations[c].drop THEN violations[c].drop ELSE Forever
    IN  /\ request[r].at = "count"
        /\ violations' = [violations EXCEPT ![c] = [value |-> n, drop |-> drop]]
        /\ request' = [request EXCEPT ![r].at = "expire", ![r].count = n]
        /\ UNCHANGED <<store, now, fixed, rows, penalty, admitted, refused>>

RedisExpires(r) ==
    LET c == Counter(request[r].key)
    IN  /\ request[r].at = "expire"
        /\ violations' = [violations EXCEPT ![c] =
                             IF now < @.drop THEN [@ EXCEPT !.drop = now + 2 * Window] ELSE @]
        /\ IF request[r].count >= Threshold THEN request' = [request EXCEPT ![r].at = "penalise"]
                                            ELSE Leave(r)
        /\ UNCHANGED <<store, now, fixed, rows, penalty, admitted, refused>>

RedisPenalises(r) ==
    /\ request[r].at = "penalise"
    /\ Penalise(request[r].key, now + Cooldown)
    /\ Leave(r)
    /\ UNCHANGED <<store, now, fixed, rows, violations, admitted, refused>>

-----------------------------------------------------------------------------
(* Around them.                                                            *)

\* The store raises.  Before the try (the lock of SQLite, the first call of Redis) the request
\* fails; after it the request is let in without being counted, even one over the cap whose
\* violation could not be written.
StoreFails(r) ==
    /\ request[r] # Idle
    /\ Leave(r)
    /\ UNCHANGED <<store, now, fixed, rows, violations, penalty, admitted, refused>>

\* Time passes; no request has waited for longer than Delay.
Tick ==
    /\ now < MaxTime
    /\ \A r \in Requests : request[r] # Idle => now - request[r].since < Delay
    /\ now' = now + 1
    /\ UNCHANGED <<store, request, fixed, rows, violations, penalty, admitted, refused>>

Next ==
    \/ Tick
    \/ \E k \in Keys : MemoryAdmits(k) \/ MemoryRefuses(k)
    \/ \E r \in Requests :
         \/ \E k \in Keys : Arrive(r, k)
         \/ SqlitePenalised(r) \/ SqliteAdmits(r) \/ SqliteRefuses(r)
         \/ RedisPenalised(r) \/ RedisAnswers(r) \/ RedisGoesOn(r)
         \/ RedisAdmits(r) \/ RedisRefuses(r)
         \/ RedisCounts(r) \/ RedisExpires(r) \/ RedisPenalises(r)
         \/ StoreFails(r)

Spec == Init /\ [][Next]_vars

-----------------------------------------------------------------------------
(* Properties.                                                             *)

\* The requests of k admitted from one time to another.
Within(k, from, to) == Cardinality({x \in admitted[k] : x.time \in from..to})

\* How long a stretch of time the limit holds for, and how many it lets in.
Span ==
    CASE store = "memory" -> IF Window < CacheTtl THEN Window ELSE CacheTtl
      [] store = "sqlite" -> Window - Delay
      [] store = "redis"  -> Window - Delay - 1

Most == IF store = "memory" THEN 2 * Cap ELSE Cap

\* No stretch of time admits more of one key than it should, though requests reach the store
\* later than they read the clock, and out of order: the cap for SQLite and Redis, in a window
\* shortened by the longest wait, and twice the cap for the fixed windows of the memory store,
\* which the life of its entries may shorten (check_rate_limit of the three stores).  Requests
\* let in because the store failed are not counted.
CapHeld ==
    \A k \in Keys, t \in Times : Within(k, t, t + Span) <= Most

\* Under a penalty nothing of the address is admitted, for any key, but a Redis request that
\* came before the penalty was set: it may have read the penalty too early, and the clock and
\* the script follow later (the penalty check of the three stores).
PenaltyKept ==
    [][\A k \in Keys : admitted'[k] # admitted[k] =>
          \/ ~Penalised(k, now)
          \/ \E r \in Requests :
                /\ request[r].at = "script" /\ request[r].key = k /\ request'[r] = Idle
                /\ request[r].since + Cooldown <= penalty[Address(k)]]_vars

\* A penalty is earned: a key of the address was refused, and its counter had as many refusals
\* as the threshold asks, which are the key's own at that address but with Redis those of the
\* key's name at all addresses together.  With SQLite, whose counters nothing expires, they earn
\* it for certain: no refusal is lost between requests that wait for the file together
\* (_enforce_rate_penalty and its counterparts).
PenaltyEarned ==
    /\ \A a \in Addresses : penalty[a] # 0 =>
          \E k \in Keys : Address(k) = a /\ refused[k] > 0 /\ refused[Counter(k)] >= Threshold
    /\ store = "sqlite" => \A k \in Keys : refused[k] >= Threshold => penalty[Address(k)] # 0
=============================================================================
