-------------------------- MODULE MiddlewareProofs --------------------------
(***************************************************************************)
(* The two middlewares with state of their own.  Of the rate limiter: no   *)
(* stretch of time admits more than it should, and a penalty is kept and   *)
(* earned, with each of the three stores.  Of the idempotency layer: a     *)
(* replay is a true answer to its key, and with Redis only requests that   *)
(* overlap run twice.  For any number of requests and keys, and any limit. *)
(***************************************************************************)
EXTENDS RateLimit, Idempotency, FiniteSetTheorems, TLAPS

-----------------------------------------------------------------------------
(* Types.                                                                  *)

Waiting == [at : Places, key : Keys, clock : Times, since : Times, count : Nat]

\* A request that waits has read the clock, and waits where its store makes it wait.
Steps ==
    \A r \in Requests :
        /\ request[r].clock <= now
        /\ request[r] # Idle => store # "memory"
        /\ request[r].at \notin {"idle", "arrived"} => store = "redis"

LEMMA InitType == Init => TypeOK /\ Steps
<1> SUFFICES ASSUME Init PROVE TypeOK /\ Steps
  OBVIOUS
<1>1. 0 \in Times /\ NoEntry \in Entry /\ {} \in StampSets
  BY RateLimitAssumption, FS_EmptySet DEF Times, NoEntry, Entry, StampSets
<1>2. TypeOK
  BY <1>1 DEF Init, TypeOK
<1>3. Steps
  BY DEF Init, Steps, Idle
<1> QED BY <1>2, <1>3

\* The parts of a limits_key, and what refusals of it are counted under.
LEMMA KeyParts ==
    ASSUME NEW k \in Keys
    PROVE  /\ Address(k) \in Addresses /\ k[2] \in Names
           /\ k \in Counters /\ k[2] \in Counters /\ \A n \in Names : k # n
           /\ Counter(k) \in Counters
           /\ store # "redis" => Counter(k) = k
           /\ store = "redis" => Counter(k) = k[2]
  BY RateLimitAssumption DEF Keys, Address, Counters, Counter

\* What a request that waits is.
LEMMA WaitingType ==
    ASSUME TypeOK, NEW r \in Requests, request[r] # Idle \/ request[r].at # "idle"
    PROVE  /\ request[r] \in Waiting /\ request[r].key \in Keys
           /\ request[r].clock \in Times /\ request[r].since \in Times /\ request[r].count \in Nat
           /\ request[r] # Idle
  BY DEF TypeOK, Waiting, Idle, Places

LEMMA LeaveType ==
    ASSUME TypeOK, Steps, NEW r \in Requests, Leave(r), UNCHANGED <<store, now>>
    PROVE  /\ request' \in [Requests -> {Idle} \cup Waiting]
           /\ Steps'
  BY RateLimitAssumption DEF TypeOK, Steps, Leave, Waiting, Idle, Times

LEMMA StoreType ==
    ASSUME TypeOK, NEW v \in Nat
    PROVE  Store(v) \in Entry /\ Store(v).value = v
  BY RateLimitAssumption DEF TypeOK, Store, Entry, Times

LEMMA ReadType ==
    ASSUME NEW e \in Entry
    PROVE  Read(e) \in Nat /\ Read(e) <= e.value
  BY DEF Read, Entry

\* The stamps of one time are as many as they are, and another makes them one more.
LEMMA SameTime ==
    ASSUME NEW S \in StampSets, NEW t
    PROVE  LET Same == {x \in S : x.time = t} IN IsFiniteSet(Same) /\ Cardinality(Same) \in Nat
<1> DEFINE Same == {x \in S : x.time = t}
<1>1. IsFiniteSet(S) /\ Same \subseteq S
  BY DEF StampSets
<1>2. IsFiniteSet(Same)
  BY <1>1, FS_Subset
<1>3. Cardinality(Same) \in Nat
  BY <1>2, FS_CardinalityType
<1> QED BY <1>2, <1>3

LEMMA AddType ==
    ASSUME NEW S \in StampSets, NEW t \in Times
    PROVE  Stamp(S, t) \in Stamps /\ Add(S, t) \in StampSets
<1>1. 1 + Cardinality({x \in S : x.time = t}) \in Nat \ {0}
  BY SameTime
<1>2. Stamp(S, t) \in Stamps
  BY <1>1 DEF Stamp, Stamps
<1>3. IsFiniteSet(S \cup {Stamp(S, t)})
  BY FS_AddElement DEF StampSets
<1> QED BY <1>2, <1>3 DEF Add, StampSets

LEMMA AdmitType ==
    ASSUME TypeOK, NEW k \in Keys, Admit(k)
    PROVE  admitted' \in [Keys -> StampSets]
<1>1. now \in Times /\ admitted[k] \in StampSets
  BY DEF TypeOK
<1>2. Add(admitted[k], now) \in StampSets
  BY <1>1, AddType
<1> QED BY <1>2 DEF TypeOK, Admit

LEMMA RefuseType ==
    ASSUME TypeOK, NEW k \in Keys, Refuse(k)
    PROVE  /\ refused' \in [Counters -> Nat]
           /\ refused'[k] = refused[k] + 1 /\ refused'[k[2]] = refused[k[2]] + 1
           /\ refused'[Counter(k)] = refused[Counter(k)] + 1
           /\ \A c \in Counters : refused'[c] >= refused[c]
           /\ \A c \in Counters : c \notin {k, k[2]} => refused'[c] = refused[c]
<1>1. k \in Counters /\ k[2] \in Counters /\ k # k[2] /\ Counter(k) \in {k, k[2]}
  BY KeyParts DEF Counter
<1>2. refused \in [Counters -> Nat]
  BY DEF TypeOK
<1>3. /\ refused'[k] = refused[k] + 1 /\ refused'[k[2]] = refused[k[2]] + 1
      /\ refused' \in [Counters -> Nat]
      /\ \A c \in Counters : c \notin {k, k[2]} => refused'[c] = refused[c]
  BY <1>1, <1>2 DEF Refuse
<1>4. \A c \in Counters : refused'[c] >= refused[c]
  BY <1>2, <1>3
<1> QED BY <1>1, <1>3, <1>4

LEMMA PenaliseType ==
    ASSUME TypeOK, NEW k \in Keys, NEW t \in Nat, Penalise(k, t)
    PROVE  /\ penalty' \in [Addresses -> Nat] /\ penalty'[Address(k)] = t
           /\ \A a \in Addresses : a # Address(k) => penalty'[a] = penalty[a]
  BY KeyParts DEF TypeOK, Penalise

LEMMA KeptType ==
    ASSUME TypeOK, NEW k \in Keys, NEW from
    PROVE  Kept(k, from) \in StampSets
<1>1. rows[k] \in StampSets /\ Kept(k, from) \subseteq rows[k]
  BY DEF TypeOK, Kept
<1>2. IsFiniteSet(Kept(k, from))
  BY <1>1, FS_Subset DEF StampSets
<1> QED BY <1>1, <1>2 DEF StampSets

LEMMA RecountType ==
    ASSUME TypeOK, NEW k \in Keys, Recount(k)
    PROVE  fixed' \in [Keys -> [count : Entry, expiry : Entry]]
<1>1. fixed[k].count \in Entry /\ fixed[k].expiry \in Entry
  BY DEF TypeOK
<1>2. Counted(k) \in Nat
  BY <1>1, ReadType DEF Counted
<1>3. now + Window \in Nat
  BY RateLimitAssumption DEF TypeOK, Times
<1> DEFINE new == [count |-> Store(Counted(k)),
                   expiry |-> IF Over(k) THEN Store(now + Window) ELSE fixed[k].expiry]
<1>4. new \in [count : Entry, expiry : Entry]
  BY <1>1, <1>2, <1>3, StoreType
<1>5. fixed' = [fixed EXCEPT ![k] = new]
  BY DEF Recount
<1> HIDE DEF new
<1> QED BY <1>4, <1>5 DEF TypeOK

LEMMA MemoryType ==
    ASSUME TypeOK, Steps, NEW k \in Keys, MemoryAdmits(k) \/ MemoryRefuses(k)
    PROVE  TypeOK' /\ Steps'
<1>1. fixed' \in [Keys -> [count : Entry, expiry : Entry]]
  BY RecountType DEF MemoryAdmits, MemoryRefuses
<1>2. Steps'
  BY DEF Steps, MemoryAdmits, MemoryRefuses
<1>3. CASE MemoryAdmits(k)
  <2>1. admitted' \in [Keys -> StampSets]
    BY <1>3, AdmitType DEF MemoryAdmits
  <2> QED BY <1>1, <1>2, <1>3, <2>1 DEF TypeOK, MemoryAdmits
<1>4. CASE MemoryRefuses(k)
  <2> DEFINE n == Read(violations[k]) + 1
  <2>1. k \in Counters /\ n \in Nat
    BY KeyParts, ReadType DEF TypeOK
  <2>2. violations' = [violations EXCEPT ![k] = Store(n)]
    BY <1>4 DEF MemoryRefuses
  <2>3. penalty' \in [Addresses -> Nat]
    <3>1. now + CacheTtl \in Nat
      BY RateLimitAssumption DEF TypeOK, Times
    <3>2. Penalise(k, now + CacheTtl) \/ penalty' = penalty
      BY <1>4 DEF MemoryRefuses
    <3> QED BY <3>1, <3>2, PenaliseType DEF TypeOK
  <2>4. refused' \in [Counters -> Nat]
    BY <1>4, RefuseType DEF MemoryRefuses
  <2> HIDE DEF n
  <2>5. violations' \in [Counters -> Entry]
    BY <2>1, <2>2, StoreType DEF TypeOK
  <2> QED BY <1>1, <1>2, <1>4, <2>3, <2>4, <2>5 DEF TypeOK, MemoryRefuses
<1> QED BY <1>3, <1>4

LEMMA SqliteType ==
    ASSUME TypeOK, Steps, NEW r \in Requests, SqlitePenalised(r) \/ SqliteAdmits(r) \/ SqliteRefuses(r)
    PROVE  TypeOK' /\ Steps'
<1> DEFINE k == request[r].key
           t == request[r].clock
           n == violations[k].value + 1
<1>1. k \in Keys /\ t \in Times /\ request[r] # Idle
  BY WaitingType DEF SqlitePenalised, SqliteAdmits, SqliteRefuses, SqliteStep
<1>2. request' \in [Requests -> {Idle} \cup Waiting] /\ Steps'
  BY LeaveType DEF SqlitePenalised, SqliteAdmits, SqliteRefuses
<1>3. CASE SqlitePenalised(r)
  BY <1>2, <1>3 DEF TypeOK, Waiting, SqlitePenalised
<1>4. CASE SqliteAdmits(r)
  <2> DEFINE kept == Kept(k, Start(t))
  <2>1. rows' = [rows EXCEPT ![k] = Add(kept, t)] /\ Admit(k)
    BY <1>4 DEF SqliteAdmits
  <2>2. kept \in StampSets
    BY <1>1, KeptType
  <2>3. admitted' \in [Keys -> StampSets]
    BY <1>1, <2>1, AdmitType
  <2> HIDE DEF kept, k, t
  <2>4. Add(kept, t) \in StampSets
    BY <1>1, <2>2, AddType
  <2>5. rows' \in [Keys -> StampSets]
    BY <1>1, <2>1, <2>4 DEF TypeOK
  <2> QED BY <1>2, <1>4, <2>3, <2>5 DEF TypeOK, Waiting, SqliteAdmits
<1>5. CASE SqliteRefuses(r)
  <2>1. /\ rows' = [rows EXCEPT ![k] = Kept(k, Start(t))] /\ Refuse(k)
        /\ violations' = [violations EXCEPT ![k] = [value |-> n, drop |-> t + 2 * Window]]
        /\ Penalise(k, t + Cooldown) \/ penalty' = penalty
    BY <1>5 DEF SqliteRefuses
  <2>2. [value |-> n, drop |-> t + 2 * Window] \in Entry /\ t + Cooldown \in Nat
    <3>1. t \in Nat /\ n \in Nat
      BY <1>1, KeyParts DEF TypeOK, Entry, Times
    <3>2. t + 2 * Window \in Nat /\ t + Cooldown \in Nat
      BY <3>1, RateLimitAssumption
    <3> QED BY <3>1, <3>2 DEF Entry
  <2>3. refused' \in [Counters -> Nat] /\ Kept(k, Start(t)) \in StampSets /\ k \in Counters
    BY <1>1, <2>1, RefuseType, KeptType, KeyParts
  <2> HIDE DEF k, t, n
  <2>4. rows' \in [Keys -> StampSets] /\ violations' \in [Counters -> Entry]
    BY <1>1, <2>1, <2>2, <2>3 DEF TypeOK
  <2>5. penalty' \in [Addresses -> Nat]
    BY <1>1, <2>1, <2>2, PenaliseType DEF TypeOK
  <2> QED BY <1>2, <1>5, <2>3, <2>4, <2>5 DEF TypeOK, Waiting, SqliteRefuses
<1> QED BY <1>3, <1>4, <1>5

LEMMA RedisType ==
    ASSUME TypeOK, Steps, NEW r \in Requests,
           \/ RedisPenalised(r) \/ RedisAnswers(r) \/ RedisGoesOn(r)
           \/ RedisAdmits(r) \/ RedisRefuses(r)
           \/ RedisCounts(r) \/ RedisExpires(r) \/ RedisPenalises(r)
    PROVE  TypeOK' /\ Steps'
<1> DEFINE k == request[r].key
           t == request[r].clock
<1>1. request[r] \in Waiting /\ k \in Keys /\ t \in Times /\ request[r] # Idle
  BY WaitingType
     DEF RedisPenalised, RedisAnswers, RedisGoesOn, RedisAdmits, RedisRefuses, RedisCounts, RedisExpires,
         RedisPenalises
<1>2. store = "redis" /\ now \in Times
  BY DEF TypeOK, Steps, RedisPenalised, RedisAnswers, RedisGoesOn, RedisAdmits, RedisRefuses, RedisCounts,
         RedisExpires, RedisPenalises
<1>3. ASSUME Leave(r), UNCHANGED <<store, now>>
      PROVE  request' \in [Requests -> {Idle} \cup Waiting] /\ Steps'
  BY <1>3, LeaveType
<1>4. ASSUME NEW q \in Waiting, q.clock <= now, request' = [request EXCEPT ![r] = q],
             UNCHANGED <<store, now>>
      PROVE  request' \in [Requests -> {Idle} \cup Waiting] /\ Steps'
  <2>1. request' \in [Requests -> {Idle} \cup Waiting]
    BY <1>4 DEF TypeOK, Waiting
  <2>2. Steps'
    BY <1>2, <1>4 DEF TypeOK, Steps
  <2> QED BY <2>1, <2>2
<1>5. CASE RedisPenalised(r)
  BY <1>3, <1>5 DEF TypeOK, Waiting, RedisPenalised
<1>11. CASE RedisAnswers(r)
  <2> DEFINE q == [request[r] EXCEPT !.at = "answered"]
  <2>1. q \in Waiting /\ q.clock <= now
    BY <1>1 DEF Waiting, Places, Steps
  <2>2. request' = [request EXCEPT ![r] = q] /\ UNCHANGED <<store, now>>
    BY <1>11 DEF TypeOK, RedisAnswers
  <2> HIDE DEF q
  <2>3. request' \in [Requests -> {Idle} \cup Waiting] /\ Steps'
    BY <1>4, <2>1, <2>2
  <2> QED BY <1>11, <2>3 DEF TypeOK, Waiting, RedisAnswers
<1>6. CASE RedisGoesOn(r)
  <2> DEFINE q == [request[r] EXCEPT !.at = "script", !.clock = now]
  <2>1. q \in Waiting /\ q.clock <= now
    <3>1. q \in Waiting /\ q.clock = now
      BY <1>1, <1>2 DEF Waiting, Places
    <3> QED BY <1>2, <3>1 DEF Times
  <2>2. request' = [request EXCEPT ![r] = q] /\ UNCHANGED <<store, now>>
    BY <1>6 DEF TypeOK, RedisGoesOn
  <2> HIDE DEF q
  <2>3. request' \in [Requests -> {Idle} \cup Waiting] /\ Steps'
    BY <1>4, <2>1, <2>2
  <2> QED BY <1>6, <2>3 DEF TypeOK, Waiting, RedisGoesOn
<1>7. CASE RedisAdmits(r)
  <2> DEFINE kept == ScriptKept(r)
  <2>1. rows' = [rows EXCEPT ![k] = Add(kept, t)] /\ Admit(k) /\ Leave(r)
    BY <1>7 DEF RedisAdmits
  <2>2. kept \in StampSets
    BY <1>1, KeptType DEF ScriptKept
  <2>3. admitted' \in [Keys -> StampSets]
    BY <1>1, <2>1, AdmitType
  <2> HIDE DEF kept, k, t
  <2>4. Add(kept, t) \in StampSets
    BY <1>1, <2>2, AddType
  <2>5. rows' \in [Keys -> StampSets]
    BY <1>1, <2>1, <2>4 DEF TypeOK
  <2>6. request' \in [Requests -> {Idle} \cup Waiting] /\ Steps'
    BY <1>3, <1>7, <2>1 DEF RedisAdmits
  <2> QED BY <1>7, <2>3, <2>5, <2>6 DEF TypeOK, Waiting, RedisAdmits
<1>8. CASE RedisRefuses(r)
  <2> DEFINE q == [request[r] EXCEPT !.at = "count"]
  <2>1. q \in Waiting /\ q.clock <= now
    BY <1>1 DEF Waiting, Places, Steps
  <2>2. /\ request' = [request EXCEPT ![r] = q] /\ UNCHANGED <<store, now>>
        /\ rows' = [rows EXCEPT ![k] = ScriptKept(r)] /\ Refuse(k)
    BY <1>8 DEF TypeOK, RedisRefuses
  <2>3. ScriptKept(r) \in StampSets /\ refused' \in [Counters -> Nat]
    BY <1>1, <2>2, KeptType, RefuseType DEF ScriptKept
  <2> HIDE DEF q, k
  <2>4. request' \in [Requests -> {Idle} \cup Waiting] /\ Steps'
    BY <1>4, <2>1, <2>2
  <2>5. rows' \in [Keys -> StampSets]
    BY <1>1, <2>2, <2>3 DEF TypeOK
  <2> QED BY <1>8, <2>3, <2>4, <2>5 DEF TypeOK, Waiting, RedisRefuses
<1>9. CASE RedisCounts(r)
  <2> DEFINE c == Counter(k)
             n == Read(violations[c]) + 1
             q == [request[r] EXCEPT !.at = "expire", !.count = n]
             e == [value |-> n, drop |-> IF now < violations[c].drop THEN violations[c].drop ELSE Forever]
  <2>1. c \in Counters
    BY <1>1, KeyParts
  <2>2. n \in Nat /\ violations[c].drop \in Nat
    BY <2>1, ReadType DEF TypeOK, Entry
  <2>3. e \in Entry
    BY <2>2, RateLimitAssumption DEF Entry, Forever
  <2>4. q \in Waiting /\ q.clock <= now
    BY <1>1, <2>2 DEF Waiting, Places, Steps
  <2>5. /\ violations' = [violations EXCEPT ![c] = e] /\ UNCHANGED <<store, now>>
        /\ request' = [request EXCEPT ![r] = q]
    BY <1>9 DEF TypeOK, RedisCounts
  <2> HIDE DEF q, e, c, n
  <2>6. request' \in [Requests -> {Idle} \cup Waiting] /\ Steps'
    BY <1>4, <2>4, <2>5
  <2>7. violations' \in [Counters -> Entry]
    BY <2>1, <2>3, <2>5 DEF TypeOK
  <2> QED BY <1>9, <2>6, <2>7 DEF TypeOK, Waiting, RedisCounts
<1>12. CASE RedisExpires(r)
  <2> DEFINE c == Counter(k)
             q == [request[r] EXCEPT !.at = "penalise"]
             e == IF now < violations[c].drop THEN [violations[c] EXCEPT !.drop = now + 2 * Window]
                                              ELSE violations[c]
  <2>1. c \in Counters
    BY <1>1, KeyParts
  <2>2. e \in Entry
    BY <1>2, <2>1, RateLimitAssumption DEF TypeOK, Entry, Times
  <2>3. q \in Waiting /\ q.clock <= now
    BY <1>1 DEF Waiting, Places, Steps
  <2>4. /\ violations' = [violations EXCEPT ![c] = e] /\ UNCHANGED <<store, now>>
        /\ Leave(r) \/ request' = [request EXCEPT ![r] = q]
    BY <1>12 DEF TypeOK, RedisExpires
  <2> HIDE DEF q, e, c
  <2>5. request' \in [Requests -> {Idle} \cup Waiting] /\ Steps'
    BY <1>3, <1>4, <2>3, <2>4
  <2>6. violations' \in [Counters -> Entry]
    BY <2>1, <2>2, <2>4 DEF TypeOK
  <2> QED BY <1>12, <2>5, <2>6 DEF TypeOK, Waiting, RedisExpires
<1>10. CASE RedisPenalises(r)
  <2>1. penalty' \in [Addresses -> Nat]
    <3>1. now + Cooldown \in Nat
      BY <1>2, RateLimitAssumption DEF Times
    <3> QED BY <1>1, <1>10, <3>1, PenaliseType DEF RedisPenalises
  <2>2. request' \in [Requests -> {Idle} \cup Waiting] /\ Steps'
    BY <1>3, <1>10 DEF RedisPenalises
  <2> QED BY <1>10, <2>1, <2>2 DEF TypeOK, Waiting, RedisPenalises
<1> QED BY <1>5, <1>6, <1>7, <1>8, <1>9, <1>10, <1>11, <1>12

LEMMA ArriveType ==
    ASSUME TypeOK, Steps, NEW r \in Requests, NEW k \in Keys, Arrive(r, k)
    PROVE  TypeOK' /\ Steps'
<1> DEFINE q == [at |-> "arrived", key |-> k, clock |-> now, since |-> now, count |-> 0]
<1>1. q \in Waiting /\ q.clock = now /\ q.at = "arrived"
  BY DEF TypeOK, Waiting, Places
<1>2. request' = [request EXCEPT ![r] = q] /\ store # "memory"
  BY DEF Arrive
<1> HIDE DEF q
<1>3. TypeOK'
  BY <1>1, <1>2 DEF TypeOK, Waiting, Arrive
<1>4. Steps'
  BY <1>1, <1>2 DEF TypeOK, Steps, Arrive, Times
<1> QED BY <1>3, <1>4

\* Every step keeps the types.
LEMMA NextType == TypeOK /\ Steps /\ [Next]_vars => TypeOK' /\ Steps'
<1> SUFFICES ASSUME TypeOK, Steps, [Next]_vars PROVE TypeOK' /\ Steps'
  OBVIOUS
<1>1. CASE Tick
  <2>1. now' \in Times /\ now <= now'
    BY <1>1, RateLimitAssumption DEF TypeOK, Tick, Times
  <2>2. \A r \in Requests : request[r].clock \in Nat
    BY DEF TypeOK, Idle, Times
  <2> QED BY <1>1, <2>1, <2>2 DEF TypeOK, Steps, Tick, Times
<1>2. ASSUME NEW r \in Requests, StoreFails(r) PROVE TypeOK' /\ Steps'
  <2>1. request' \in [Requests -> {Idle} \cup Waiting] /\ Steps'
    BY <1>2, LeaveType DEF StoreFails
  <2> QED BY <1>2, <2>1 DEF TypeOK, Waiting, StoreFails
<1>3. CASE UNCHANGED vars
  BY <1>3 DEF vars, TypeOK, Steps
<1> QED BY <1>1, <1>2, <1>3, MemoryType, SqliteType, RedisType, ArriveType DEF Next

\* The limiter's entries are well typed, for any number of requests and keys.
THEOREM TypeCorrect == Spec => []TypeOK
<1>1. TypeOK /\ Steps /\ [Next]_vars => (TypeOK /\ Steps)'
  BY NextType
<1> QED BY InitType, <1>1, PTL DEF Spec

-----------------------------------------------------------------------------
(* The cap: the rows of SQLite and Redis.                                  *)

\* The stamps of a set from a time on.
From(S, t) == {x \in S : x.time >= t}

Numbered(S) == \A x \in S : x.nth <= Cardinality({y \in S : y.time = x.time})

Distinct == \A k \in Keys : Numbered(rows[k]) /\ \A x \in admitted[k] : x.time <= now

\* How long a request has waited.
Waits ==
    \A r \in Requests : request[r] # Idle =>
        /\ request[r].since <= request[r].clock /\ request[r].clock <= now
        /\ now - request[r].since <= Delay

\* As long as a stretch of time may go on, there is a row for each request it let in.
Covered ==
    store # "memory" => \A k \in Keys, t \in Times :
        now <= t + Span => Cardinality(From(admitted[k], t)) <= Cardinality(From(rows[k], t - Delay))

\* A cut leaves the rows of every stretch that may go on.
SafeCut(from) ==
    \A t, n \in Times : now <= t + Span /\ n >= t - Delay => n >= from

\* How many more a set has with one element more.
LEMMA OneMore ==
    ASSUME NEW S, IsFiniteSet(S), NEW T, NEW x
    PROVE  /\ Cardinality(S) \in Nat
           /\ T \subseteq S \cup {x}
                => IsFiniteSet(T) /\ Cardinality(T) \in Nat /\ Cardinality(T) <= Cardinality(S) + 1
           /\ IsFiniteSet(T) /\ S \cup {x} \subseteq T /\ x \notin S
                => Cardinality(T) \in Nat /\ Cardinality(S) + 1 <= Cardinality(T)
<1>1. Cardinality(S) \in Nat
  BY FS_CardinalityType
<1>2. /\ IsFiniteSet(S \cup {x})
      /\ Cardinality(S \cup {x}) = IF x \in S THEN Cardinality(S) ELSE Cardinality(S) + 1
  BY FS_AddElement
<1>3. ASSUME T \subseteq S \cup {x}
      PROVE  IsFiniteSet(T) /\ Cardinality(T) \in Nat /\ Cardinality(T) <= Cardinality(S) + 1
  <2>1. IsFiniteSet(T) /\ Cardinality(T) <= Cardinality(S \cup {x})
    BY <1>2, <1>3, FS_Subset
  <2>2. Cardinality(T) \in Nat
    BY <2>1, FS_CardinalityType
  <2> QED BY <1>1, <1>2, <2>1, <2>2
<1>4. ASSUME IsFiniteSet(T), S \cup {x} \subseteq T, x \notin S
      PROVE  Cardinality(T) \in Nat /\ Cardinality(S) + 1 <= Cardinality(T)
  <2>1. Cardinality(S \cup {x}) <= Cardinality(T)
    BY <1>4, FS_Subset
  <2>2. Cardinality(T) \in Nat
    BY <1>4, FS_CardinalityType
  <2> QED BY <1>1, <1>2, <1>4, <2>1, <2>2
<1> QED BY <1>1, <1>3, <1>4

\* A smaller set has no more.
LEMMA NoMore ==
    ASSUME NEW S, IsFiniteSet(S), NEW T, T \subseteq S
    PROVE  /\ Cardinality(S) \in Nat /\ IsFiniteSet(T) /\ Cardinality(T) \in Nat
           /\ Cardinality(T) <= Cardinality(S)
<1>1. IsFiniteSet(T) /\ Cardinality(T) <= Cardinality(S)
  BY FS_Subset
<1> QED BY <1>1, FS_CardinalityType

\* A new stamp is one more, and the stamps stay numbered.
LEMMA AddNumbered ==
    ASSUME NEW S \in StampSets, Numbered(S), NEW t \in Times
    PROVE  /\ Stamp(S, t) \notin S /\ Stamp(S, t).time = t
           /\ Numbered(Add(S, t)) /\ Cardinality(Add(S, t)) = Cardinality(S) + 1
<1> DEFINE Same(T, u) == {y \in T : y.time = u}
           new == Stamp(S, t)
<1>1. new.time = t /\ new.nth = 1 + Cardinality(Same(S, t))
  BY DEF Stamp
<1>2. \A u : IsFiniteSet(Same(S, u)) /\ Cardinality(Same(S, u)) \in Nat
  BY SameTime
<1>3. new \notin S
  <2> SUFFICES ASSUME new \in S PROVE FALSE
    OBVIOUS
  <2>1. new.nth <= Cardinality(Same(S, t))
    BY <1>1 DEF Numbered
  <2> QED BY <1>1, <1>2, <2>1
<1>4. Cardinality(Add(S, t)) = Cardinality(S) + 1
  BY <1>3, FS_AddElement DEF Add, StampSets
<1>5. ASSUME NEW x \in Add(S, t) PROVE x.nth <= Cardinality(Same(Add(S, t), x.time))
  <2>1. Add(S, t) = S \cup {new} /\ S \in SUBSET Stamps /\ IsFiniteSet(S)
    BY DEF Add, StampSets
  <2>2. IsFiniteSet(Same(Add(S, t), x.time))
    <3>1. IsFiniteSet(Add(S, t))
      BY <2>1, FS_AddElement
    <3> QED BY <3>1, FS_Subset
  <2>3. CASE x = new
    <3>1. Same(S, t) \cup {new} \subseteq Same(Add(S, t), t) /\ new \notin Same(S, t)
      BY <1>1, <1>3, <2>1
    <3> HIDE DEF new, Same
    <3>2. Cardinality(Same(S, t)) + 1 <= Cardinality(Same(Add(S, t), t))
      BY <1>1, <1>2, <2>2, <2>3, <3>1, OneMore
    <3> QED BY <1>1, <1>2, <2>3, <3>2
  <2>4. CASE x \in S
    <3>1. x.nth <= Cardinality(Same(S, x.time)) /\ x.nth \in Nat
      BY <2>1, <2>4 DEF Numbered, Stamps
    <3>2. Same(S, x.time) \subseteq Same(Add(S, t), x.time)
      BY <2>1
    <3> HIDE DEF Same
    <3>3. Cardinality(Same(S, x.time)) <= Cardinality(Same(Add(S, t), x.time)) /\ Cardinality(Same(Add(S, t), x.time)) \in Nat
      BY <2>2, <3>2, NoMore
    <3> QED BY <1>2, <3>1, <3>3
  <2> QED BY <2>1, <2>3, <2>4
<1> QED BY <1>1, <1>3, <1>4, <1>5 DEF Numbered

\* What a cut leaves stays numbered.
LEMMA KeptNumbered ==
    ASSUME TypeOK, NEW k \in Keys, NEW from \in Int, Numbered(rows[k])
    PROVE  Kept(k, from) \in StampSets /\ Numbered(Kept(k, from)) /\ Kept(k, from) \subseteq rows[k]
<1>1. Kept(k, from) \in StampSets /\ Kept(k, from) \subseteq rows[k]
  BY KeptType DEF Kept
<1>2. ASSUME NEW x \in Kept(k, from)
      PROVE  {y \in Kept(k, from) : y.time = x.time} = {y \in rows[k] : y.time = x.time}
  BY DEF Kept
<1> QED BY <1>1, <1>2 DEF Numbered

LEMMA SpanType ==
    ASSUME TypeOK
    PROVE  /\ Span \in Int /\ Cap \in Nat
           /\ store = "memory" => Span = IF Window < CacheTtl THEN Window ELSE CacheTtl
           /\ store = "sqlite" => Span = Window - Delay
           /\ store = "redis" => Span = Window - Delay - 1
           /\ store = "memory" => Most = 2 * Cap
           /\ store # "memory" => Most = Cap
  BY RateLimitAssumption DEF TypeOK, Stores, Span, Most

\* Where the two scripts cut, and that they cut safely.
LEMMA CutsSafe ==
    ASSUME TypeOK, store # "memory", NEW clock \in Times, clock <= now
    PROVE  /\ store = "sqlite" => Start(clock) \in Int /\ SafeCut(Start(clock))
           /\ store = "redis" =>
                LET from == IF clock < Window THEN 0 ELSE clock - Window + 1
                IN  from \in Int /\ SafeCut(from)
<1>1. now \in Nat /\ clock \in Nat /\ Window \in Nat /\ Delay \in Nat
  BY RateLimitAssumption DEF TypeOK, Times
<1>2. ASSUME store = "sqlite" PROVE Start(clock) \in Int /\ SafeCut(Start(clock))
  <2>1. Start(clock) \in Int
    BY <1>1 DEF Start
  <2>2. ASSUME NEW t \in Times, NEW n \in Times, now <= t + (Window - Delay), n >= t - Delay
        PROVE  n >= Start(clock)
    BY <1>1, <2>2 DEF Start, Times
  <2> QED BY <1>2, <2>1, <2>2, SpanType DEF SafeCut
<1>3. ASSUME store = "redis"
      PROVE  LET from == IF clock < Window THEN 0 ELSE clock - Window + 1
             IN  from \in Int /\ SafeCut(from)
  <2> DEFINE from == IF clock < Window THEN 0 ELSE clock - Window + 1
  <2>1. from \in Int
    BY <1>1
  <2>2. ASSUME NEW t \in Times, NEW n \in Times, now <= t + (Window - Delay - 1), n >= t - Delay
        PROVE  n >= from
    BY <1>1, <2>2 DEF Times
  <2> HIDE DEF from
  <2>3. SafeCut(from)
    BY <1>3, <2>2, SpanType DEF SafeCut
  <2> QED BY <2>1, <2>3 DEF from
<1> QED BY <1>2, <1>3

\* One more request of a key, now: how many each stretch has.
LEMMA AdmitCounts ==
    ASSUME TypeOK, NEW k \in Keys, Admit(k), now' = now, NEW j \in Keys
    PROVE  /\ \A x \in admitted'[j] : x \in admitted[j] \/ x.time = now
           /\ \E x : admitted'[j] \subseteq admitted[j] \cup {x}
           /\ IsFiniteSet(admitted[j]) /\ IsFiniteSet(admitted'[j])
           /\ j # k => admitted'[j] = admitted[j]
<1>1. now \in Times /\ admitted[j] \in StampSets /\ admitted' \in [Keys -> StampSets]
  BY AdmitType DEF TypeOK
<1>2. IsFiniteSet(admitted[j]) /\ IsFiniteSet(admitted'[j])
  BY <1>1 DEF StampSets
<1>3. CASE j = k
  <2>1. admitted'[j] = admitted[j] \cup {Stamp(admitted[j], now)} /\ Stamp(admitted[j], now).time = now
    BY <1>3 DEF TypeOK, Admit, Add, Stamp
  <2> QED BY <1>2, <1>3, <2>1
<1>4. CASE j # k
  <2>1. admitted'[j] = admitted[j]
    BY <1>4 DEF TypeOK, Admit
  <2> QED BY <1>2, <2>1
<1> QED BY <1>3, <1>4

\* A cut alone.
LEMMA SlidingRefuses ==
    ASSUME TypeOK, Distinct, Covered, CapHeld, store # "memory", UNCHANGED <<store, now, admitted>>,
           NEW k \in Keys, NEW from \in Int, SafeCut(from), rows' = [rows EXCEPT ![k] = Kept(k, from)]
    PROVE  Distinct' /\ Covered' /\ CapHeld'
<1>1. /\ rows'[k] = Kept(k, from) /\ \A j \in Keys : j # k => rows'[j] = rows[j]
      /\ Numbered(rows'[k])
  <2>1. rows'[k] = Kept(k, from) /\ \A j \in Keys : j # k => rows'[j] = rows[j]
    BY DEF TypeOK
  <2> QED BY <2>1, KeptNumbered DEF Distinct
<1>2. Distinct'
  BY <1>1 DEF Distinct, Numbered
<1>3. Span' = Span /\ Most' = Most
  BY DEF Span, Most
<1>4. ASSUME NEW j \in Keys, NEW t \in Times, now <= t + Span
      PROVE  From(rows'[j], t - Delay) = From(rows[j], t - Delay)
  <2>1. CASE j # k
    BY <1>1, <2>1
  <2>2. CASE j = k
    <3>1. \A x \in rows[k] : x.time \in Times
      BY DEF TypeOK, StampSets, Stamps
    <3>2. \A x \in rows[k] : x.time >= t - Delay => x.time >= from
      BY <1>4, <3>1 DEF SafeCut
    <3> QED BY <1>1, <2>2, <3>2 DEF From, Kept
  <2> QED BY <2>1, <2>2
<1>5. Covered'
  BY <1>3, <1>4 DEF Covered
<1>6. CapHeld'
  BY <1>3 DEF CapHeld, Within
<1> QED BY <1>2, <1>5, <1>6

\* A cut and a row more, with a request let in.
LEMMA SlidingAdmits ==
    ASSUME TypeOK, Distinct, Covered, CapHeld, store # "memory", UNCHANGED <<store, now>>,
           NEW k \in Keys, NEW from \in Int, SafeCut(from),
           NEW clock \in Times, now - clock <= Delay,
           Cardinality(Kept(k, from)) < Cap,
           rows' = [rows EXCEPT ![k] = Add(Kept(k, from), clock)], Admit(k)
    PROVE  Distinct' /\ Covered' /\ CapHeld'
<1> DEFINE kept == Kept(k, from)
           new  == Stamp(kept, clock)
<1>1. /\ rows'[k] = kept \cup {new} /\ \A j \in Keys : j # k => rows'[j] = rows[j]
      /\ kept \in StampSets /\ new \notin kept /\ new.time = clock
      /\ Numbered(rows'[k]) /\ Cardinality(rows'[k]) = Cardinality(kept) + 1
  <2>1. kept \in StampSets /\ Numbered(kept)
    BY KeptNumbered DEF Distinct
  <2>2. rows'[k] = Add(kept, clock) /\ \A j \in Keys : j # k => rows'[j] = rows[j]
    BY DEF TypeOK
  <2> HIDE DEF kept
  <2> QED BY <2>1, <2>2, AddNumbered DEF Add
<1>2. now \in Nat /\ clock \in Nat /\ Delay \in Nat /\ Span \in Int /\ Cap \in Nat
  BY SpanType, RateLimitAssumption DEF TypeOK, Times
<1>3. \A j \in Keys : \A x \in admitted[j] : x.time \in Nat
  BY DEF TypeOK, StampSets, Stamps, Times
<1>4. Distinct'
  <2>1. \A j \in Keys : Numbered(rows'[j])
    BY <1>1 DEF Distinct, Numbered
  <2>2. \A j \in Keys : \A x \in admitted'[j] : x.time <= now
    BY <1>2, AdmitCounts DEF Distinct
  <2> QED BY <2>1, <2>2 DEF Distinct
<1>5. Span' = Span /\ Most' = Most /\ Most = Cap
  BY SpanType DEF Span, Most
<1>6. \A j \in Keys : IsFiniteSet(rows[j]) /\ IsFiniteSet(rows'[j])
  <2>1. IsFiniteSet(kept \cup {new})
    BY <1>1, FS_AddElement DEF StampSets
  <2> QED BY <1>1, <2>1 DEF TypeOK, StampSets
<1>7. ASSUME NEW j \in Keys, NEW t \in Times, now <= t + Span
      PROVE  Cardinality(From(admitted'[j], t)) <= Cardinality(From(rows'[j], t - Delay))
  <2>1. Cardinality(From(admitted[j], t)) <= Cardinality(From(rows[j], t - Delay))
    BY <1>7 DEF Covered
  <2>2. CASE j # k
    BY <1>1, <2>1, <2>2, AdmitCounts
  <2>3. CASE j = k /\ t > now
    <3>1. From(admitted'[j], t) = {}
      <4>1. \A x \in admitted'[j] : x.time <= now /\ x.time \in Nat
        BY <1>2, <1>3, <1>4, AdmitCounts DEF Distinct
      <4> QED BY <1>2, <2>3, <4>1 DEF From, Times
    <3>2. IsFiniteSet(From(rows'[j], t - Delay))
      BY <1>6, FS_Subset DEF From
    <3>3. Cardinality(From(rows'[j], t - Delay)) \in Nat
      BY <3>2, FS_CardinalityType
    <3> QED BY <3>1, <3>3, FS_EmptySet
  <2>4. CASE j = k /\ t <= now
    <3> DEFINE A == From(admitted[j], t)
               R == From(rows[j], t - Delay)
    <3>1. IsFiniteSet(A) /\ IsFiniteSet(R) /\ IsFiniteSet(From(rows'[j], t - Delay))
      BY <1>6, AdmitCounts, FS_Subset DEF From
    <3>2. PICK x : From(admitted'[j], t) \subseteq A \cup {x}
      BY AdmitCounts DEF From
    <3>3. R \subseteq kept
      <4>1. \A y \in rows[k] : y.time \in Times
        BY DEF TypeOK, StampSets, Stamps
      <4>2. \A y \in rows[k] : y.time >= t - Delay => y.time >= from
        BY <1>7, <4>1 DEF SafeCut
      <4> QED BY <2>4, <4>2 DEF From, Kept
    <3>4. R \cup {new} \subseteq From(rows'[j], t - Delay) /\ new \notin R
      <4>1. new.time >= t - Delay
        BY <1>1, <1>2, <2>4 DEF Times
      <4> HIDE DEF kept, new
      <4> QED BY <1>1, <2>4, <3>3, <4>1 DEF From
    <3> HIDE DEF A, R, new
    <3>5. /\ Cardinality(A) \in Nat /\ Cardinality(From(admitted'[j], t)) <= Cardinality(A) + 1
          /\ Cardinality(From(admitted'[j], t)) \in Nat
      BY <3>1, <3>2, OneMore
    <3>6. /\ Cardinality(R) \in Nat /\ Cardinality(R) + 1 <= Cardinality(From(rows'[j], t - Delay))
          /\ Cardinality(From(rows'[j], t - Delay)) \in Nat
      BY <3>1, <3>4, OneMore
    <3>7. Cardinality(A) <= Cardinality(R)
      BY <2>1 DEF A, R
    <3> QED BY <3>5, <3>6, <3>7
  <2>5. t > now \/ t <= now
    BY <1>2 DEF Times
  <2> QED BY <2>2, <2>3, <2>4, <2>5
<1>8. Covered'
  BY <1>5, <1>7 DEF Covered
<1>9. ASSUME NEW j \in Keys, NEW t \in Times
      PROVE  Cardinality({x \in admitted'[j] : x.time \in t..t + Span}) <= Cap
  <2> DEFINE W == {x \in admitted[j] : x.time \in t..t + Span}
             V == {x \in admitted'[j] : x.time \in t..t + Span}
  <2>1. Cardinality(W) <= Cap
    BY <1>5 DEF CapHeld, Within
  <2>2. CASE j # k
    BY <2>1, <2>2, AdmitCounts
  <2>3. CASE j = k /\ now \in t..t + Span
    <3>1. V \subseteq From(admitted'[j], t) /\ IsFiniteSet(From(admitted'[j], t))
      <4>1. V \subseteq From(admitted'[j], t)
        BY <1>2 DEF From, Times
      <4>2. IsFiniteSet(From(admitted'[j], t))
        BY AdmitCounts, FS_Subset DEF From
      <4> QED BY <4>1, <4>2
    <3>2. From(rows'[j], t - Delay) \subseteq rows'[j] /\ IsFiniteSet(rows'[j])
      BY <1>6 DEF From
    <3> HIDE DEF V, kept, new
    <3>3. /\ Cardinality(V) <= Cardinality(From(admitted'[j], t))
          /\ Cardinality(V) \in Nat /\ Cardinality(From(admitted'[j], t)) \in Nat
      BY <3>1, NoMore
    <3>4. /\ Cardinality(From(rows'[j], t - Delay)) <= Cardinality(rows'[j])
          /\ Cardinality(From(rows'[j], t - Delay)) \in Nat /\ Cardinality(rows'[j]) \in Nat
      BY <3>2, NoMore
    <3>5. Cardinality(From(admitted'[j], t)) <= Cardinality(From(rows'[j], t - Delay))
      BY <1>2, <1>7, <2>3 DEF Times
    <3>6. Cardinality(rows'[j]) <= Cap
      <4>1. IsFiniteSet(kept) /\ Cardinality(kept) < Cap
        BY <1>1 DEF StampSets, kept
      <4>2. Cardinality(kept) \in Nat
        BY <4>1, FS_CardinalityType
      <4> QED BY <1>1, <1>2, <2>3, <4>1, <4>2
    <3>7. Cardinality(V) <= Cap
      BY <1>2, <3>3, <3>4, <3>5, <3>6
    <3> QED BY <3>7 DEF V
  <2>4. CASE j = k /\ now \notin t..t + Span
    <3>1. V \subseteq W
      BY <2>4, AdmitCounts
    <3>2. IsFiniteSet(W)
      BY AdmitCounts, FS_Subset
    <3> HIDE DEF V, W
    <3>3. Cardinality(V) <= Cardinality(W) /\ Cardinality(V) \in Nat /\ Cardinality(W) \in Nat
      BY <3>1, <3>2, NoMore
    <3>4. Cardinality(V) <= Cap
      BY <1>2, <2>1, <3>3 DEF W
    <3> QED BY <3>4 DEF V
  <2> QED BY <2>2, <2>3, <2>4
<1>10. CapHeld'
  BY <1>5, <1>9 DEF CapHeld, Within
<1> QED BY <1>4, <1>8, <1>10

-----------------------------------------------------------------------------
(* The cap: the fixed windows of the memory store.                         *)

\* When the window of k began: the first, at time 0, has no expiry entry.
Opened(k) == IF fixed[k].expiry = NoEntry THEN 0 ELSE fixed[k].expiry.value - Window

\* The expiry entry is as old as the window, and no count is dropped before it.
Entries(k) ==
    /\ \/ fixed[k].expiry = NoEntry
       \/ Opened(k) \in 0..now /\ fixed[k].expiry.drop = Opened(k) + CacheTtl
    /\ \/ fixed[k].expiry = NoEntry /\ fixed[k].count = NoEntry
       \/ fixed[k].count.drop >= Opened(k) + CacheTtl

Between(S, t, u) == {x \in S : t <= x.time /\ x.time < u}

\* The window of k has let in no more than it counted and no more than the cap, and a stretch
\* that may go on meets no other window but the one before.
Windowed(k) ==
    /\ \A x \in admitted[k] : x.time = now => ~Over(k)
    /\ Cardinality(From(admitted[k], Opened(k))) <= fixed[k].count.value
    /\ Cardinality(From(admitted[k], Opened(k))) <= Cap
    /\ \A t \in Times : now <= t + Span => Cardinality(Between(admitted[k], t, Opened(k))) <= Cap

Windows == store = "memory" => \A k \in Keys : Entries(k) /\ Windowed(k)

LEMMA EntriesType ==
    ASSUME TypeOK, NEW k \in Keys
    PROVE  /\ now \in Nat /\ Window \in Nat \ {0} /\ CacheTtl \in Nat \ {0} /\ Cap \in Nat \ {0}
           /\ fixed[k].count \in Entry /\ fixed[k].expiry \in Entry
           /\ fixed[k].count.value \in Nat /\ fixed[k].count.drop \in Nat
           /\ fixed[k].expiry.value \in Nat /\ fixed[k].expiry.drop \in Nat
           /\ NoEntry.value = 0 /\ NoEntry.drop = 0
           /\ Opened(k) \in Int
<1>1. now \in Nat /\ Window \in Nat \ {0} /\ CacheTtl \in Nat \ {0} /\ Cap \in Nat \ {0}
  BY RateLimitAssumption DEF TypeOK, Times
<1>2. fixed[k].count \in Entry /\ fixed[k].expiry \in Entry
  BY DEF TypeOK
<1>3. /\ fixed[k].count.value \in Nat /\ fixed[k].count.drop \in Nat
      /\ fixed[k].expiry.value \in Nat /\ fixed[k].expiry.drop \in Nat
  BY <1>2 DEF Entry
<1> QED BY <1>1, <1>2, <1>3 DEF NoEntry, Opened

\* What a request does to the entries of its key: in a window that goes on it is one more, and
\* a window that is over leaves no stretch that may go on behind it.
LEMMA RecountStep ==
    ASSUME TypeOK, store = "memory", NEW k \in Keys, Entries(k), Recount(k), UNCHANGED <<store, now>>
    PROVE  /\ Entries(k)' /\ ~Over(k)' /\ fixed'[k].count.value = Counted(k)
           /\ \/ /\ Over(k) /\ Opened(k)' = now /\ Counted(k) = 1
                 /\ \A t \in Times : now <= t + Span => Opened(k) <= t
              \/ /\ ~Over(k) /\ Opened(k)' = Opened(k) /\ Opened(k) <= now
                 /\ Counted(k) = fixed[k].count.value + 1
           /\ \A j \in Keys : j # k => fixed'[j] = fixed[j]
<1> DEFINE c == fixed[k].count
           e == fixed[k].expiry
           o == Opened(k)
<1>1. /\ now \in Nat /\ Window \in Nat \ {0} /\ CacheTtl \in Nat \ {0}
      /\ c.value \in Nat /\ c.drop \in Nat /\ e.value \in Nat /\ e.drop \in Nat
      /\ NoEntry.value = 0 /\ NoEntry.drop = 0 /\ Opened(k) \in Int
  BY EntriesType
<1>2. Span = IF Window < CacheTtl THEN Window ELSE CacheTtl
  BY SpanType
<1>3. /\ \/ e = NoEntry /\ o = 0
         \/ o \in 0..now /\ e.value = o + Window /\ e.drop = o + CacheTtl
      /\ \/ e = NoEntry /\ c = NoEntry
         \/ c.drop >= o + CacheTtl
  <2>1. CASE e = NoEntry
    <3>1. o = 0
      BY <2>1 DEF Opened
    <3> QED BY <2>1, <3>1 DEF Entries
  <2>2. CASE e # NoEntry
    <3>1. o = e.value - Window
      BY <2>2 DEF Opened
    <3>2. o \in 0..now /\ e.drop = o + CacheTtl /\ c.drop >= o + CacheTtl
      BY <2>2 DEF Entries
    <3> HIDE DEF o, e, c
    <3>3. e.value = o + Window
      BY <1>1, <3>1
    <3> QED BY <3>2, <3>3
  <2> QED BY <2>1, <2>2
<1>4. /\ fixed'[k].count = Store(Counted(k))
      /\ fixed'[k].expiry = IF Over(k) THEN Store(now + Window) ELSE e
      /\ \A j \in Keys : j # k => fixed'[j] = fixed[j]
  BY DEF TypeOK, Recount
<1>5. /\ fixed'[k].count.value = Counted(k) /\ fixed'[k].count.drop = now + CacheTtl
      /\ Store(now + Window).value = now + Window /\ Store(now + Window).drop = now + CacheTtl
  BY <1>4 DEF Store
<1>6. CASE Over(k)
  <2>1. fixed'[k].expiry = Store(now + Window) /\ fixed'[k].expiry # NoEntry
    BY <1>1, <1>4, <1>5, <1>6
  <2>2. Opened(k)' = now
    BY <1>1, <1>5, <2>1 DEF Opened, NoEntry
  <2>3. Entries(k)' /\ ~Over(k)'
    BY <1>1, <1>5, <2>1, <2>2 DEF Entries, Over, Read
  <2>4. Counted(k) = 1
    BY <1>6 DEF Counted
  <2>5. ASSUME NEW t \in Times, now <= t + Span PROVE Opened(k) <= t
    <3>1. t \in Nat
      BY DEF Times
    <3>2. CASE e = NoEntry
      BY <1>3, <1>1, <3>1, <3>2
    <3>3. CASE o \in 0..now /\ e.value = o + Window /\ e.drop = o + CacheTtl
      <4>1. now > Opened(k) + Window \/ now >= Opened(k) + CacheTtl
        BY <1>1, <1>6, <3>3 DEF Over, Read
      <4> HIDE DEF e
      <4> QED BY <1>1, <1>2, <2>5, <3>1, <4>1
    <3> QED BY <1>3, <3>2, <3>3
  <2> QED BY <1>4, <1>5, <1>6, <2>2, <2>3, <2>4, <2>5
<1>7. CASE ~Over(k)
  <2>1. fixed'[k].expiry = e /\ Opened(k)' = Opened(k)
    BY <1>4, <1>7 DEF Opened, NoEntry
  <2>2. ~Over(k)'
    BY <1>7, <2>1 DEF Over, Read
  <2>3. Opened(k) <= now
    BY <1>1, <1>3
  <2>4. Entries(k)'
    BY <1>1, <1>3, <1>5, <2>1, <2>3 DEF Entries, NoEntry
  <2>5. Read(c) = c.value
    <3>1. CASE e = NoEntry
      <4>1. now = 0
        BY <1>1, <1>7, <3>1 DEF Over, Read
      <4> QED BY <1>1, <1>3, <3>1, <4>1 DEF Read
    <3>2. CASE o \in 0..now /\ e.value = o + Window /\ e.drop = o + CacheTtl
      <4>1. now < e.drop
        BY <1>1, <1>7, <3>2 DEF Over, Read
      <4>2. c.drop >= e.drop
        BY <1>1, <1>3, <3>2
      <4> QED BY <1>1, <4>1, <4>2 DEF Read
    <3> QED BY <1>3, <3>1, <3>2
  <2>6. Counted(k) = c.value + 1
    BY <1>7, <2>5 DEF Counted
  <2> QED BY <1>4, <1>5, <1>7, <2>1, <2>2, <2>3, <2>4, <2>6
<1> QED BY <1>6, <1>7

\* A request is counted, and let in only below the cap.
LEMMA RecountWindows ==
    ASSUME TypeOK, Distinct, store = "memory", NEW k \in Keys, Entries(k), Windowed(k),
           Recount(k), UNCHANGED <<store, now>>, IsFiniteSet(admitted[k]),
           \A x \in admitted'[k] : x \in admitted[k] \/ x.time = now,
           \E x : admitted'[k] \subseteq admitted[k] \cup {x},
           admitted'[k] = admitted[k] \/ Counted(k) <= Cap
    PROVE  Entries(k)' /\ Windowed(k)'
<1> DEFINE A == admitted[k]
           B == admitted'[k]
           o == Opened(k)
           old == From(A, o)
           new == From(B, Opened(k)')
<1>1. now \in Nat /\ o \in Int /\ Cap \in Nat \ {0} /\ fixed[k].count.value \in Nat
  BY EntriesType
<1>2. \A x \in A : x.time \in Nat /\ x.time <= now
  BY DEF TypeOK, Distinct, StampSets, Stamps, Times
<1>3. \A x \in B : x.time \in Nat /\ x.time <= now
  BY <1>1, <1>2
<1>4. Span' = Span
  BY DEF Span
<1>5. Entries(k)' /\ ~Over(k)' /\ fixed'[k].count.value = Counted(k)
  BY RecountStep
<1>6. /\ Cardinality(old) <= fixed[k].count.value /\ Cardinality(old) <= Cap
      /\ \A t \in Times : now <= t + Span => Cardinality(Between(A, t, o)) <= Cap
  BY DEF Windowed
<1>7. IsFiniteSet(old) /\ Cardinality(old) \in Nat
  <2>1. IsFiniteSet(old)
    BY FS_Subset DEF From
  <2> QED BY <2>1, FS_CardinalityType
<1>8. CASE Over(k)
  <2>1. /\ Opened(k)' = now /\ Counted(k) = 1
        /\ \A t \in Times : now <= t + Span => o <= t
    BY <1>8, RecountStep
  <2>2. \A x \in A : x.time < now
    BY <1>1, <1>2, <1>8 DEF Windowed
  <2>3. Cardinality(new) <= 1
    <3>1. PICK x : B \subseteq A \cup {x}
      OBVIOUS
    <3>2. new \subseteq {} \cup {x}
      BY <1>1, <1>2, <2>1, <2>2, <3>1 DEF From
    <3> HIDE DEF new
    <3>3. IsFiniteSet({}) /\ Cardinality({}) = 0
      BY FS_EmptySet
    <3> QED BY <3>2, <3>3, OneMore
  <2>4. ASSUME NEW t \in Times, now <= t + Span PROVE Cardinality(Between(B, t, now)) <= Cap
    <3>1. o <= t /\ t \in Nat
      BY <2>1, <2>4 DEF Times
    <3>2. Between(B, t, now) \subseteq old
      BY <1>1, <1>3, <3>1 DEF Between, From
    <3> HIDE DEF old
    <3>3. Cardinality(Between(B, t, now)) <= Cardinality(old) /\ Cardinality(Between(B, t, now)) \in Nat
      BY <1>7, <3>2, NoMore
    <3> QED BY <1>1, <1>6, <1>7, <3>3
  <2>5. Cardinality(new) <= Counted(k) /\ Cardinality(new) <= Cap
    <3>1. IsFiniteSet(new)
      <4>1. PICK x : B \subseteq A \cup {x}
        OBVIOUS
      <4>2. IsFiniteSet(B)
        BY <4>1, OneMore
      <4> QED BY <4>2, FS_Subset DEF From
    <3>2. Cardinality(new) \in Nat
      BY <3>1, FS_CardinalityType
    <3> HIDE DEF new
    <3> QED BY <1>1, <2>1, <2>3, <3>2
  <2> QED BY <1>4, <1>5, <2>1, <2>4, <2>5 DEF Windowed
<1>9. CASE ~Over(k)
  <2>1. Opened(k)' = o /\ o <= now /\ Counted(k) = fixed[k].count.value + 1
    BY <1>9, RecountStep
  <2>2. Cardinality(new) <= Counted(k) /\ Cardinality(new) <= Cap
    <3>1. CASE B = A
      <4>1. new = old
        BY <2>1, <3>1
      <4> HIDE DEF new, old
      <4> QED BY <1>1, <1>6, <1>7, <2>1, <4>1
    <3>2. CASE Counted(k) <= Cap
      <4>1. PICK x : B \subseteq A \cup {x}
        OBVIOUS
      <4>2. new \subseteq old \cup {x}
        BY <2>1, <4>1 DEF From
      <4> HIDE DEF new, old
      <4>3. Cardinality(new) \in Nat /\ Cardinality(new) <= Cardinality(old) + 1
        BY <1>7, <4>2, OneMore
      <4> QED BY <1>1, <1>6, <1>7, <2>1, <3>2, <4>3
    <3> QED BY <3>1, <3>2
  <2>3. ASSUME NEW t \in Times, now <= t + Span PROVE Cardinality(Between(B, t, o)) <= Cap
    <3>1. Between(B, t, o) \subseteq Between(A, t, o)
      BY <1>1, <2>1 DEF Between
    <3>2. IsFiniteSet(Between(A, t, o))
      BY FS_Subset DEF Between
    <3>3. /\ Cardinality(Between(B, t, o)) <= Cardinality(Between(A, t, o))
          /\ Cardinality(Between(B, t, o)) \in Nat /\ Cardinality(Between(A, t, o)) \in Nat
      BY <3>1, <3>2, NoMore
    <3>4. Cardinality(Between(A, t, o)) <= Cap
      BY <1>6, <2>3
    <3> QED BY <1>1, <3>3, <3>4
  <2> QED BY <1>4, <1>5, <2>1, <2>2, <2>3 DEF Windowed
<1> QED BY <1>8, <1>9

-----------------------------------------------------------------------------
(* The cap: every step.                                                    *)

\* No request waits for longer than Delay, and its clock is no older than its arrival.
LEMMA NextWaits == TypeOK /\ Steps /\ Waits /\ [Next]_vars => Waits'
<1> SUFFICES ASSUME TypeOK, Steps, Waits, [Next]_vars, NEW q \in Requests, request'[q] # Idle
             PROVE  /\ request'[q].since <= request'[q].clock /\ request'[q].clock <= now'
                    /\ now' - request'[q].since <= Delay
  BY DEF Waits
<1> DEFINE Goal == /\ request'[q].since <= request'[q].clock /\ request'[q].clock <= now'
                   /\ now' - request'[q].since <= Delay
<1>1. CASE request'[q] = request[q] /\ now' = now
  BY <1>1 DEF Waits
<1>2. ASSUME NEW r \in Requests, Leave(r) PROVE request'[q] = request[q]
  BY <1>2 DEF TypeOK, Leave
<1>3. ASSUME NEW r \in Requests, now' = now, request[r] \in Waiting, request[r] # Idle,
             NEW at, request' = [request EXCEPT ![r].at = at]
      PROVE  Goal
  <2>1. CASE q = r
    <3>1. request'[q].since = request[r].since /\ request'[q].clock = request[r].clock
      BY <1>3, <2>1 DEF TypeOK, Waiting
    <3> QED BY <1>3, <3>1 DEF Waits
  <2>2. CASE q # r
    <3>1. request'[q] = request[q]
      BY <1>3, <2>2 DEF TypeOK
    <3> QED BY <1>1, <1>3, <3>1
  <2> QED BY <2>1, <2>2
<1>4. ASSUME NEW k \in Keys, MemoryAdmits(k) \/ MemoryRefuses(k) PROVE Goal
  BY <1>1, <1>4 DEF MemoryAdmits, MemoryRefuses
<1>5. ASSUME NEW r \in Requests, NEW k \in Keys, Arrive(r, k) PROVE Goal
  <2>1. CASE q = r
    <3>1. request'[q].since = now /\ request'[q].clock = now /\ now' = now
      BY <1>5, <2>1 DEF TypeOK, Arrive
    <3>2. now \in Nat /\ Delay \in Nat
      BY RateLimitAssumption DEF TypeOK, Times
    <3> QED BY <3>1, <3>2
  <2>2. CASE q # r
    BY <1>1, <1>5, <2>2 DEF TypeOK, Arrive
  <2> QED BY <2>1, <2>2
<1>6. ASSUME NEW r \in Requests,
             \/ SqlitePenalised(r) \/ SqliteAdmits(r) \/ SqliteRefuses(r)
             \/ RedisPenalised(r) \/ RedisAdmits(r) \/ RedisPenalises(r) \/ StoreFails(r)
      PROVE  Goal
  <2>1. Leave(r) /\ now' = now
    BY <1>6 DEF SqlitePenalised, SqliteAdmits, SqliteRefuses, RedisPenalised, RedisAdmits,
                RedisPenalises, StoreFails
  <2> QED BY <1>1, <1>2, <2>1
<1>7. ASSUME NEW r \in Requests, RedisGoesOn(r) PROVE Goal
  <2>1. request[r] \in Waiting /\ request[r] # Idle /\ now' = now
    BY <1>7, WaitingType DEF RedisGoesOn
  <2>2. CASE q = r
    <3>1. request'[q].since = request[r].since /\ request'[q].clock = now
      BY <1>7, <2>1, <2>2 DEF TypeOK, Waiting, RedisGoesOn
    <3>2. request[r].since \in Nat /\ request[r].clock \in Nat /\ now \in Nat /\ Delay \in Nat
      BY <2>1, RateLimitAssumption DEF TypeOK, Waiting, Times
    <3> QED BY <2>1, <3>1, <3>2 DEF Waits
  <2>3. CASE q # r
    <3>1. request'[q] = request[q]
      BY <1>7, <2>3 DEF TypeOK, RedisGoesOn
    <3> QED BY <1>1, <2>1, <3>1
  <2> QED BY <2>2, <2>3
<1>8. ASSUME NEW r \in Requests, RedisAnswers(r) \/ RedisRefuses(r) PROVE Goal
  <2>1. request[r] \in Waiting /\ request[r] # Idle
    BY <1>8, WaitingType DEF RedisAnswers, RedisRefuses
  <2> QED BY <1>3, <1>8, <2>1 DEF RedisAnswers, RedisRefuses
<1>9. ASSUME NEW r \in Requests, RedisExpires(r) PROVE Goal
  <2>1. request[r] \in Waiting /\ request[r] # Idle
    BY <1>9, WaitingType DEF RedisExpires
  <2>2. /\ now' = now
        /\ Leave(r) \/ request' = [request EXCEPT ![r].at = "penalise"]
    BY <1>9 DEF TypeOK, RedisExpires, Leave
  <2> QED BY <1>1, <1>2, <1>3, <2>1, <2>2
<1>12. ASSUME NEW r \in Requests, RedisCounts(r) PROVE Goal
  <2>1. request[r] \in Waiting /\ request[r] # Idle /\ now' = now
    BY <1>12, WaitingType DEF RedisCounts
  <2>2. PICK n : request' = [request EXCEPT ![r].at = "expire", ![r].count = n]
    BY <1>12 DEF RedisCounts
  <2>3. CASE q = r
    <3>1. request'[q].since = request[r].since /\ request'[q].clock = request[r].clock
      BY <2>1, <2>2, <2>3 DEF TypeOK, Waiting
    <3> QED BY <2>1, <3>1 DEF Waits
  <2>4. CASE q # r
    <3>1. request'[q] = request[q]
      BY <2>2, <2>4 DEF TypeOK
    <3> QED BY <1>1, <2>1, <3>1
  <2> QED BY <2>3, <2>4
<1>10. CASE Tick
  <2>1. request'[q] = request[q] /\ request[q] # Idle /\ now' = now + 1 /\ now - request[q].since < Delay
    BY <1>10 DEF Tick
  <2>2. request[q].since \in Nat /\ request[q].clock \in Nat /\ now \in Nat /\ Delay \in Nat
    BY <2>1, RateLimitAssumption DEF TypeOK, Times
  <2>3. request[q].since <= request[q].clock /\ request[q].clock <= now
    BY <2>1 DEF Waits
  <2> QED BY <2>1, <2>2, <2>3
<1>11. CASE UNCHANGED vars
  BY <1>1, <1>11 DEF vars
<1> QED BY <1>4, <1>5, <1>6, <1>7, <1>8, <1>9, <1>10, <1>11, <1>12 DEF Next

\* The clock of a request that waits.
LEMMA ClockType ==
    ASSUME TypeOK, Steps, Waits, NEW r \in Requests, request[r].at \in {"arrived", "script"}
    PROVE  /\ request[r].key \in Keys /\ request[r].clock \in Times
           /\ request[r].clock <= now /\ now - request[r].clock <= Delay
<1>1. /\ request[r] \in Waiting /\ request[r] # Idle
      /\ request[r].key \in Keys /\ request[r].clock \in Times
  BY WaitingType
<1>2. request[r].since \in Nat /\ request[r].clock \in Nat /\ now \in Nat /\ Delay \in Nat
  BY <1>1, RateLimitAssumption DEF TypeOK, Waiting, Times
<1>3. /\ request[r].since <= request[r].clock /\ request[r].clock <= now
      /\ now - request[r].since <= Delay
  BY <1>1 DEF Waits
<1> QED BY <1>1, <1>2, <1>3

CapInv == Distinct /\ Covered /\ Windows /\ CapHeld

LEMMA SqliteCap ==
    ASSUME TypeOK, Steps, Waits, CapInv, NEW r \in Requests, SqliteAdmits(r) \/ SqliteRefuses(r)
    PROVE  CapInv'
<1> DEFINE k == request[r].key
           t == request[r].clock
<1>1. store = "sqlite" /\ store # "memory" /\ request[r].at = "arrived" /\ UNCHANGED <<store, now>>
  BY DEF SqliteAdmits, SqliteRefuses, SqliteStep
<1>2. k \in Keys /\ t \in Times /\ t <= now /\ now - t <= Delay
  BY <1>1, ClockType
<1>3. Start(t) \in Int /\ SafeCut(Start(t))
  BY <1>1, <1>2, CutsSafe
<1>4. Windows'
  BY <1>1 DEF Windows
<1>5. CASE SqliteAdmits(r)
  <2>1. /\ Cardinality(Kept(k, Start(t))) < Cap /\ Admit(k)
        /\ rows' = [rows EXCEPT ![k] = Add(Kept(k, Start(t)), t)]
    BY <1>5 DEF SqliteAdmits
  <2> HIDE DEF k, t
  <2>2. Distinct' /\ Covered' /\ CapHeld'
    BY <1>1, <1>2, <1>3, <2>1, SlidingAdmits DEF CapInv
  <2> QED BY <1>4, <2>2 DEF CapInv
<1>6. CASE SqliteRefuses(r)
  <2>1. admitted' = admitted /\ rows' = [rows EXCEPT ![k] = Kept(k, Start(t))]
    BY <1>6 DEF SqliteRefuses
  <2> HIDE DEF k, t
  <2>2. Distinct' /\ Covered' /\ CapHeld'
    BY <1>1, <1>2, <1>3, <2>1, SlidingRefuses DEF CapInv
  <2> QED BY <1>4, <2>2 DEF CapInv
<1> QED BY <1>5, <1>6

LEMMA RedisCap ==
    ASSUME TypeOK, Steps, Waits, CapInv, NEW r \in Requests, RedisAdmits(r) \/ RedisRefuses(r)
    PROVE  CapInv'
<1> DEFINE k == request[r].key
           t == request[r].clock
           from == IF t < Window THEN 0 ELSE t - Window + 1
<1>1. store = "redis" /\ store # "memory" /\ request[r].at = "script" /\ UNCHANGED <<store, now>>
  BY DEF Steps, RedisAdmits, RedisRefuses
<1>2. k \in Keys /\ t \in Times /\ t <= now /\ now - t <= Delay
  BY <1>1, ClockType
<1>3. from \in Int /\ SafeCut(from)
  BY <1>1, <1>2, CutsSafe
<1>4. Windows'
  BY <1>1 DEF Windows
<1>5. ScriptKept(r) = Kept(k, from)
  BY DEF ScriptKept
<1>6. CASE RedisAdmits(r)
  <2>1. /\ Cardinality(Kept(k, from)) < Cap /\ Admit(k)
        /\ rows' = [rows EXCEPT ![k] = Add(Kept(k, from), t)]
    BY <1>5, <1>6 DEF RedisAdmits
  <2> HIDE DEF k, t, from
  <2>2. Distinct' /\ Covered' /\ CapHeld'
    BY <1>1, <1>2, <1>3, <2>1, SlidingAdmits DEF CapInv
  <2> QED BY <1>4, <2>2 DEF CapInv
<1>7. CASE RedisRefuses(r)
  <2>1. admitted' = admitted /\ rows' = [rows EXCEPT ![k] = Kept(k, from)]
    BY <1>5, <1>7 DEF RedisRefuses
  <2> HIDE DEF k, t, from
  <2>2. Distinct' /\ Covered' /\ CapHeld'
    BY <1>1, <1>2, <1>3, <2>1, SlidingRefuses DEF CapInv
  <2> QED BY <1>4, <2>2 DEF CapInv
<1> QED BY <1>6, <1>7

LEMMA MemoryCap ==
    ASSUME TypeOK, CapInv, NEW k \in Keys, MemoryAdmits(k) \/ MemoryRefuses(k)
    PROVE  CapInv'
<1>1. store = "memory" /\ UNCHANGED <<store, now, rows>> /\ Recount(k)
  BY DEF MemoryAdmits, MemoryRefuses
<1>2. /\ \A j \in Keys : /\ IsFiniteSet(admitted[j]) /\ IsFiniteSet(admitted'[j])
                         /\ \A x \in admitted'[j] : x \in admitted[j] \/ x.time = now
                         /\ \E x : admitted'[j] \subseteq admitted[j] \cup {x}
                         /\ j # k => admitted'[j] = admitted[j]
      /\ admitted'[k] = admitted[k] \/ Counted(k) <= Cap
  <2>1. CASE MemoryAdmits(k)
    BY <2>1, AdmitCounts DEF MemoryAdmits
  <2>2. CASE MemoryRefuses(k)
    <3>1. admitted' = admitted
      BY <2>2 DEF MemoryRefuses
    <3> QED BY <3>1 DEF TypeOK, StampSets
  <2> QED BY <2>1, <2>2
<1>3. Span' = Span /\ Most' = Most /\ Most = 2 * Cap /\ Span \in Int /\ Cap \in Nat /\ now \in Nat
  BY <1>1, SpanType DEF Span, Most, TypeOK, Times
<1>4. Entries(k)' /\ Windowed(k)'
  BY <1>1, <1>2, RecountWindows DEF CapInv, Windows
<1>5. ASSUME NEW j \in Keys, j # k PROVE Entries(j)' /\ Windowed(j)'
  <2>1. fixed'[j] = fixed[j] /\ admitted'[j] = admitted[j]
    BY <1>1, <1>2, <1>5, RecountStep DEF CapInv, Windows
  <2>2. Entries(j) /\ Windowed(j)
    BY <1>1 DEF CapInv, Windows
  <2>3. Opened(j)' = Opened(j) /\ Over(j)' = Over(j)
    BY <1>1, <2>1 DEF Opened, Over, Read, NoEntry
  <2>4. Entries(j)'
    BY <1>1, <2>1, <2>2, <2>3 DEF Entries, NoEntry
  <2>5. Windowed(j)'
    BY <1>1, <1>3, <2>1, <2>2, <2>3 DEF Windowed
  <2> QED BY <2>4, <2>5
<1>6. Windows'
  BY <1>4, <1>5 DEF Windows
<1>7. Distinct' /\ Covered'
  <2>1. \A j \in Keys : \A x \in admitted'[j] : x.time <= now
    BY <1>2, <1>3 DEF CapInv, Distinct
  <2>2. Distinct'
    BY <1>1, <2>1 DEF CapInv, Distinct, Numbered
  <2> QED BY <1>1, <2>2 DEF Covered
<1>8. ASSUME NEW j \in Keys, NEW t \in Times
      PROVE  Cardinality({x \in admitted'[j] : x.time \in t..t + Span}) <= 2 * Cap
  <2> DEFINE W == {x \in admitted[j] : x.time \in t..t + Span}
             V == {x \in admitted'[j] : x.time \in t..t + Span}
             o == Opened(j)'
  <2>1. CASE now \in t..t + Span
    <3> DEFINE P == Between(admitted'[j], t, o)
               Q == From(admitted'[j], o)
    <3>1. Cardinality(P) <= Cap /\ Cardinality(Q) <= Cap
      <4>1. Windowed(j)' /\ now' <= t + Span'
        BY <1>1, <1>3, <1>6, <2>1 DEF Windows, Times
      <4> QED BY <4>1 DEF Windowed
    <3>2. IsFiniteSet(P) /\ IsFiniteSet(Q)
      BY <1>2, FS_Subset DEF Between, From
    <3>3. V \subseteq P \cup Q
      <4>1. o \in Int
        <5>1. fixed'[j].expiry.value \in Nat
          BY <1>1, RecountType DEF Entry
        <5> QED BY <5>1, RateLimitAssumption DEF Opened
      <4>2. \A x \in admitted'[j] : x.time \in Nat
        BY <1>2, <1>3 DEF TypeOK, StampSets, Stamps, Times
      <4> QED BY <1>3, <4>1, <4>2 DEF Between, From, Times
    <3> HIDE DEF P, Q, V
    <3>4. /\ IsFiniteSet(P \cup Q)
          /\ Cardinality(P \cup Q) = Cardinality(P) + Cardinality(Q) - Cardinality(P \cap Q)
      BY <3>2, FS_Union
    <3>5. Cardinality(P) \in Nat /\ Cardinality(Q) \in Nat /\ Cardinality(P \cap Q) \in Nat
      BY <3>2, FS_CardinalityType, FS_Intersection
    <3>6. Cardinality(V) <= Cardinality(P \cup Q) /\ Cardinality(V) \in Nat
      BY <3>3, <3>4, NoMore
    <3>7. Cardinality(V) <= 2 * Cap
      BY <1>3, <3>1, <3>4, <3>5, <3>6
    <3> QED BY <3>7 DEF V
  <2>2. CASE now \notin t..t + Span
    <3>1. V \subseteq W
      BY <1>2, <2>2
    <3>2. IsFiniteSet(W) /\ Cardinality(W) <= 2 * Cap
      BY <1>2, <1>3, FS_Subset DEF CapInv, CapHeld, Within
    <3> HIDE DEF V, W
    <3>3. Cardinality(V) <= Cardinality(W) /\ Cardinality(V) \in Nat /\ Cardinality(W) \in Nat
      BY <3>1, <3>2, NoMore
    <3>4. Cardinality(V) <= 2 * Cap
      BY <1>3, <3>2, <3>3
    <3> QED BY <3>4 DEF V
  <2> QED BY <2>1, <2>2
<1>9. CapHeld'
  BY <1>3, <1>8 DEF CapHeld, Within
<1> QED BY <1>6, <1>7, <1>9 DEF CapInv

\* What counts nobody, as time goes on or not.
LEMMA OthersCap ==
    ASSUME TypeOK, CapInv, UNCHANGED <<store, fixed, rows, admitted>>, now' \in {now, now + 1}
    PROVE  CapInv'
<1>1. now \in Nat /\ now' \in Nat /\ now <= now'
  BY DEF TypeOK, Times
<1>2. Span' = Span /\ Most' = Most /\ Span \in Int
  BY SpanType DEF Span, Most
<1>3. \A k \in Keys : \A x \in admitted[k] : x.time \in Nat /\ x.time <= now
  BY DEF TypeOK, StampSets, Stamps, Times, CapInv, Distinct
<1>4. Distinct'
  BY <1>1, <1>3 DEF CapInv, Distinct, Numbered
<1>5. \A t \in Times : now' <= t + Span => now <= t + Span
  BY <1>1, <1>2 DEF Times
<1>6. Covered'
  BY <1>2, <1>5 DEF CapInv, Covered
<1>7. CapHeld'
  BY <1>2 DEF CapInv, CapHeld, Within
<1>8. ASSUME store = "memory", NEW k \in Keys PROVE Entries(k)' /\ Windowed(k)'
  <2>1. Entries(k) /\ Windowed(k) /\ Opened(k) \in Int
    BY <1>8, EntriesType DEF CapInv, Windows
  <2>2. Opened(k)' = Opened(k)
    BY DEF Opened, NoEntry
  <2>3. Entries(k)'
    BY <1>1, <2>1, <2>2 DEF Entries, NoEntry
  <2>4. ASSUME NEW x \in admitted[k], x.time = now' PROVE ~Over(k)'
    <3>1. now' = now
      BY <1>1, <1>3, <2>4
    <3> QED BY <2>1, <2>4, <3>1 DEF Windowed, Over, Read
  <2>5. Windowed(k)'
    BY <1>2, <1>5, <2>1, <2>2, <2>4 DEF Windowed
  <2> QED BY <2>3, <2>5
<1>9. Windows'
  BY <1>8 DEF Windows
<1> QED BY <1>4, <1>6, <1>7, <1>9 DEF CapInv

LEMMA NextCap == TypeOK /\ Steps /\ Waits /\ CapInv /\ [Next]_vars => CapInv'
<1> SUFFICES ASSUME TypeOK, Steps, Waits, CapInv, [Next]_vars PROVE CapInv'
  OBVIOUS
<1>1. CASE Tick
  BY <1>1, OthersCap DEF Tick
<1>2. ASSUME NEW r \in Requests, NEW k \in Keys, Arrive(r, k) PROVE CapInv'
  BY <1>2, OthersCap DEF Arrive
<1>3. ASSUME NEW r \in Requests,
             \/ SqlitePenalised(r) \/ RedisPenalised(r) \/ RedisAnswers(r) \/ RedisGoesOn(r)
             \/ RedisCounts(r) \/ RedisExpires(r) \/ RedisPenalises(r) \/ StoreFails(r)
      PROVE  CapInv'
  BY <1>3, OthersCap
     DEF SqlitePenalised, RedisPenalised, RedisAnswers, RedisGoesOn, RedisCounts, RedisExpires,
         RedisPenalises, StoreFails
<1>4. CASE UNCHANGED vars
  BY <1>4, OthersCap DEF vars
<1> QED BY <1>1, <1>2, <1>3, <1>4, MemoryCap, SqliteCap, RedisCap DEF Next

LEMMA InitCap == Init => Waits /\ CapInv
<1> SUFFICES ASSUME Init PROVE Waits /\ CapInv
  OBVIOUS
<1>1. /\ now = 0 /\ TypeOK /\ \A r \in Requests : request[r] = Idle
      /\ \A k \in Keys : /\ rows[k] = {} /\ admitted[k] = {}
                         /\ fixed[k].expiry = NoEntry /\ fixed[k].count = NoEntry
  BY InitType DEF Init
<1>2. Cardinality({}) = 0 /\ Cap \in Nat \ {0} /\ Span \in Int /\ Most \in Nat
  BY <1>1, FS_EmptySet, SpanType, RateLimitAssumption DEF TypeOK
<1>3. ASSUME NEW k \in Keys, NEW t
      PROVE  Cardinality(From(admitted[k], t)) = 0 /\ Cardinality(From(rows[k], t)) = 0
  <2>1. From(admitted[k], t) = {} /\ From(rows[k], t) = {}
    BY <1>1 DEF From
  <2> QED BY <1>2, <2>1
<1>4. ASSUME NEW k \in Keys PROVE Entries(k) /\ Windowed(k)
  <2>1. Entries(k)
    BY <1>1 DEF Entries
  <2>2. fixed[k].count.value = 0
    BY <1>1 DEF NoEntry
  <2>3. Cardinality(From(admitted[k], Opened(k))) = 0
    BY <1>3
  <2>4. ASSUME NEW t PROVE Cardinality(Between(admitted[k], t, Opened(k))) = 0
    <3>1. Between(admitted[k], t, Opened(k)) = {}
      BY <1>1 DEF Between
    <3> QED BY <1>2, <3>1
  <2>5. Windowed(k)
    BY <1>1, <1>2, <2>2, <2>3, <2>4 DEF Windowed
  <2> QED BY <2>1, <2>5
<1>5. Waits /\ Distinct
  BY <1>1 DEF Waits, Distinct, Numbered
<1>6. Covered
  <2>1. ASSUME NEW k \in Keys, NEW t \in Times
        PROVE  Cardinality(From(admitted[k], t)) <= Cardinality(From(rows[k], t - Delay))
    <3>1. Cardinality(From(admitted[k], t)) = 0 /\ Cardinality(From(rows[k], t - Delay)) = 0
      BY <1>3
    <3> QED BY <3>1
  <2> QED BY <2>1 DEF Covered
<1>7. CapHeld
  <2>1. \A k \in Keys : \A t, u : {x \in admitted[k] : x.time \in t..u} = {}
    BY <1>1
  <2> QED BY <1>2, <2>1 DEF CapHeld, Within
<1> QED BY <1>4, <1>5, <1>6, <1>7 DEF CapInv, Windows

\* For any limit, window and number of requests, no stretch of time admits more requests of one
\* key than it should with any of the stores, as long as none keeps a request waiting for longer
\* than Delay.
THEOREM CapsHeld == Spec => []CapHeld
<1>1. TypeOK /\ Steps /\ Waits /\ CapInv /\ [Next]_vars => (TypeOK /\ Steps /\ Waits /\ CapInv)'
  BY NextType, NextWaits, NextCap
<1>2. CapInv => CapHeld
  BY DEF CapInv
<1> QED BY InitType, InitCap, <1>1, <1>2, PTL DEF Spec

-----------------------------------------------------------------------------
(* A penalty is kept.                                                      *)

\* A Redis request that has read no penalty read one that was over, or is over by now, or was
\* set after the request came.
ReadBefore ==
    \A r \in Requests : request[r].at \in {"answered", "script"} =>
        \/ ~Penalised(request[r].key, now)
        \/ request[r].since + Cooldown <= penalty[Address(request[r].key)]

LEMMA NextReadBefore == TypeOK /\ Steps /\ Waits /\ ReadBefore /\ [Next]_vars => ReadBefore'
<1> SUFFICES ASSUME TypeOK, Steps, Waits, ReadBefore, [Next]_vars, NEW q \in Requests,
                    request'[q].at \in {"answered", "script"}
             PROVE  \/ ~(now' < penalty'[Address(request'[q].key)])
                    \/ request'[q].since + Cooldown <= penalty'[Address(request'[q].key)]
  BY DEF ReadBefore, Penalised, Address
<1> DEFINE a == Address(request'[q].key)
           Goal == ~(now' < penalty'[a]) \/ request'[q].since + Cooldown <= penalty'[a]
<1>0. Idle.at = "idle"
  BY DEF Idle
<1>1. CASE request'[q] = request[q] /\ penalty' = penalty /\ now' \in {now, now + 1}
  <2>1. ~(now < penalty[a]) \/ request[q].since + Cooldown <= penalty[a]
    BY <1>1 DEF ReadBefore, Penalised
  <2>2. now \in Nat /\ penalty[a] \in Nat
    <3>1. a \in Addresses
      BY <1>0, <1>1, WaitingType, KeyParts
    <3> QED BY <3>1 DEF TypeOK, Times
  <2> QED BY <1>1, <2>1, <2>2
<1>2. ASSUME NEW r \in Requests, Leave(r) PROVE r # q /\ request'[q] = request[q]
  BY <1>0, <1>2 DEF TypeOK, Leave
<1>3. ASSUME NEW k \in Keys, MemoryAdmits(k) \/ MemoryRefuses(k) PROVE Goal
  BY <1>3 DEF Steps, MemoryAdmits, MemoryRefuses
<1>4. ASSUME NEW r \in Requests, NEW k \in Keys, Arrive(r, k) PROVE Goal
  <2>1. request'[q] = request[q] /\ penalty' = penalty /\ now' = now
    BY <1>4 DEF TypeOK, Arrive
  <2> QED BY <1>1, <2>1
<1>5. ASSUME NEW r \in Requests,
             SqlitePenalised(r) \/ SqliteAdmits(r) \/ RedisPenalised(r) \/ RedisAdmits(r) \/ StoreFails(r)
      PROVE  Goal
  <2>1. Leave(r) /\ penalty' = penalty /\ now' = now
    BY <1>5 DEF SqlitePenalised, SqliteAdmits, RedisPenalised, RedisAdmits, StoreFails
  <2> QED BY <1>1, <1>2, <2>1
<1>6. ASSUME NEW r \in Requests, SqliteRefuses(r) PROVE Goal
  <2>1. store = "sqlite" /\ request'[q] = request[q]
    BY <1>2, <1>6 DEF SqliteRefuses, SqliteStep
  <2> QED BY <2>1 DEF Steps
<1>7. ASSUME NEW r \in Requests, RedisAnswers(r) PROVE Goal
  <2>1. /\ penalty' = penalty /\ now' = now /\ ~Penalised(request[r].key, now)
        /\ request' = [request EXCEPT ![r].at = "answered"]
    BY <1>7 DEF RedisAnswers
  <2>2. CASE q = r
    <3>1. request[r] \in Waiting
      BY <1>7, WaitingType DEF RedisAnswers
    <3>2. request'[q].key = request[r].key
      BY <2>1, <2>2, <3>1 DEF TypeOK, Waiting
    <3> QED BY <2>1, <3>2 DEF Penalised
  <2>3. CASE q # r
    <3>1. request'[q] = request[q]
      BY <2>1, <2>3 DEF TypeOK
    <3> QED BY <1>1, <2>1, <3>1
  <2> QED BY <2>2, <2>3
<1>8. ASSUME NEW r \in Requests, RedisGoesOn(r) PROVE Goal
  <2>1. /\ penalty' = penalty /\ now' = now
        /\ request' = [request EXCEPT ![r].at = "script", ![r].clock = now]
    BY <1>8 DEF RedisGoesOn
  <2>2. CASE q = r
    <3>1. request[r] \in Waiting /\ request[r].at = "answered"
      BY <1>8, WaitingType DEF RedisGoesOn
    <3>2. request'[q].key = request[r].key /\ request'[q].since = request[r].since
      BY <2>1, <2>2, <3>1 DEF TypeOK, Waiting
    <3> QED BY <2>1, <3>1, <3>2 DEF ReadBefore, Penalised
  <2>3. CASE q # r
    <3>1. request'[q] = request[q]
      BY <2>1, <2>3 DEF TypeOK
    <3> QED BY <1>1, <2>1, <3>1
  <2> QED BY <2>2, <2>3
<1>9. ASSUME NEW r \in Requests, RedisRefuses(r) \/ RedisCounts(r) \/ RedisExpires(r) PROVE Goal
  <2>1. request[r] \in Waiting /\ penalty' = penalty /\ now' = now
    BY <1>9, WaitingType DEF RedisRefuses, RedisCounts, RedisExpires
  <2>2. /\ request'[r].at \in {"count", "expire", "penalise", "idle"}
        /\ q # r => request'[q] = request[q]
    BY <1>0, <1>9, <2>1 DEF TypeOK, Waiting, RedisRefuses, RedisCounts, RedisExpires, Leave
  <2> QED BY <1>1, <2>1, <2>2
<1>10. ASSUME NEW r \in Requests, RedisPenalises(r) PROVE Goal
  <2> DEFINE b == Address(request[r].key)
  <2>1. request'[q] = request[q] /\ now' = now /\ Penalise(request[r].key, now + Cooldown)
    BY <1>2, <1>10 DEF RedisPenalises
  <2>2. request[q] # Idle /\ request[q].key \in Keys /\ a \in Addresses /\ request[r].key \in Keys
    BY <1>0, <1>10, <2>1, WaitingType, KeyParts DEF RedisPenalises
  <2>3. /\ request[q].since \in Nat /\ request[q].since <= now
        /\ now \in Nat /\ Cooldown \in Nat /\ now + Cooldown \in Nat
    <3>1. /\ request[q].since \in Nat /\ request[q].clock \in Nat /\ now \in Nat /\ Cooldown \in Nat
      BY <1>0, <2>1, WaitingType, RateLimitAssumption DEF TypeOK, Times
    <3>2. request[q].since <= request[q].clock /\ request[q].clock <= now
      BY <2>2 DEF Waits
    <3> QED BY <3>1, <3>2
  <2>4. CASE a = b
    <3>1. penalty'[a] = now + Cooldown
      BY <2>1, <2>2, <2>3, <2>4, PenaliseType
    <3> QED BY <2>1, <2>3, <3>1
  <2>5. CASE a # b
    <3>1. penalty'[a] = penalty[a]
      BY <2>1, <2>2, <2>3, <2>5, PenaliseType
    <3> QED BY <2>1, <3>1 DEF ReadBefore, Penalised
  <2> QED BY <2>4, <2>5
<1>11. CASE Tick \/ UNCHANGED vars
  BY <1>1, <1>11 DEF Tick, vars
<1> QED BY <1>3, <1>4, <1>5, <1>6, <1>7, <1>8, <1>9, <1>10, <1>11 DEF Next

\* What an admission needs.
LEMMA AdmitsKept ==
    ASSUME TypeOK, Steps, ReadBefore, [Next]_vars, NEW k \in Keys, admitted'[k] # admitted[k]
    PROVE  \/ ~Penalised(k, now)
           \/ \E r \in Requests :
                /\ request[r].at = "script" /\ request[r].key = k /\ request'[r] = Idle
                /\ request[r].since + Cooldown <= penalty[Address(k)]
<1>1. \/ \E j \in Keys : MemoryAdmits(j)
      \/ \E r \in Requests : SqliteAdmits(r) \/ RedisAdmits(r)
  BY DEF Next, vars, Tick, MemoryRefuses, Arrive, SqlitePenalised, SqliteRefuses, RedisPenalised,
         RedisAnswers, RedisGoesOn, RedisRefuses, RedisCounts, RedisExpires, RedisPenalises, StoreFails
<1>2. ASSUME NEW j \in Keys, Admit(j) PROVE j = k
  BY <1>2 DEF TypeOK, Admit
<1>3. ASSUME NEW j \in Keys, MemoryAdmits(j) PROVE ~Penalised(k, now)
  BY <1>2, <1>3 DEF MemoryAdmits
<1>4. ASSUME NEW r \in Requests, SqliteAdmits(r) PROVE ~Penalised(k, now)
  <2>1. request[r].key = k
    BY <1>2, <1>4, WaitingType DEF SqliteAdmits, SqliteStep
  <2>2. request[r].clock <= now /\ request[r].clock \in Nat /\ now \in Nat /\ penalty[Address(k)] \in Nat
    BY KeyParts DEF TypeOK, Steps, Idle, Times
  <2>3. ~(request[r].clock < penalty[Address(k)])
    BY <1>4, <2>1 DEF SqliteAdmits, Penalised
  <2> QED BY <2>2, <2>3 DEF Penalised
<1>5. ASSUME NEW r \in Requests, RedisAdmits(r)
      PROVE  \/ ~Penalised(k, now)
             \/ /\ request[r].at = "script" /\ request[r].key = k /\ request'[r] = Idle
                /\ request[r].since + Cooldown <= penalty[Address(k)]
  <2>1. request[r].key = k
    BY <1>2, <1>5, WaitingType DEF RedisAdmits
  <2>2. request[r].at = "script" /\ request'[r] = Idle
    BY <1>5 DEF TypeOK, RedisAdmits, Leave
  <2> QED BY <2>1, <2>2 DEF ReadBefore
<1> QED BY <1>1, <1>3, <1>4, <1>5

\* With every store a penalty holds for every key of the address, but for Redis requests that
\* came before it was set.
THEOREM PenaltiesKept == Spec => PenaltyKept
<1>1. Init => ReadBefore
  BY DEF Init, ReadBefore, Idle
<1>2. TypeOK /\ Steps /\ [Next]_vars => (TypeOK /\ Steps)'
  BY NextType
<1>3. TypeOK /\ Steps /\ ReadBefore /\ [Next]_vars
        => [\A k \in Keys : admitted'[k] # admitted[k] =>
              \/ ~Penalised(k, now)
              \/ \E r \in Requests :
                    /\ request[r].at = "script" /\ request[r].key = k /\ request'[r] = Idle
                    /\ request[r].since + Cooldown <= penalty[Address(k)]]_vars
  BY AdmitsKept
<1>4. Init => Waits
  BY InitCap
<1> QED BY InitType, NextReadBefore, NextWaits, <1>1, <1>2, <1>3, <1>4, PTL DEF Spec, PenaltyKept

-----------------------------------------------------------------------------
(* A penalty is earned.                                                    *)

\* The requests that were refused and have not been counted yet.
Pending(c) == {r \in Requests : request[r].at = "count" /\ Counter(request[r].key) = c}

\* No counter is ahead of the refusals it counts, and none of SQLite's is behind; a request that
\* was refused carries no more than its counter had.
Tallied ==
    /\ \A c \in Counters : violations[c].value + Cardinality(Pending(c)) <= refused[c]
    /\ \A r \in Requests :
          /\ request[r].at \in {"count", "expire", "penalise"} => refused[request[r].key] > 0
          /\ request[r].at = "expire" => request[r].count <= refused[Counter(request[r].key)]
          /\ request[r].at = "penalise" => refused[Counter(request[r].key)] >= Threshold
    /\ store = "sqlite" => \A k \in Keys : violations[k].value = refused[k]

LEMMA PendingType ==
    ASSUME NEW c
    PROVE  IsFiniteSet(Pending(c)) /\ Cardinality(Pending(c)) \in Nat
<1>1. Pending(c) \subseteq Requests /\ IsFiniteSet(Requests)
  BY RateLimitAssumption DEF Pending
<1>2. IsFiniteSet(Pending(c))
  BY <1>1, FS_Subset
<1> QED BY <1>2, FS_CardinalityType

LEMMA TallyType ==
    ASSUME TypeOK, NEW c \in Counters
    PROVE  violations[c] \in Entry /\ violations[c].value \in Nat /\ refused[c] \in Nat
  BY DEF TypeOK, Entry

\* A request that goes to another place than the counter adds to no count.
LEMMA PendingShrinks ==
    ASSUME TypeOK, NEW c, NEW r \in Requests, NEW q, q.at # "count", store' = store,
           request' = [request EXCEPT ![r] = q]
    PROVE  Cardinality(Pending(c))' <= Cardinality(Pending(c)) /\ Cardinality(Pending(c))' \in Nat
<1>1. Pending(c)' \subseteq Pending(c)
  BY DEF TypeOK, Pending, Counter
<1>2. IsFiniteSet(Pending(c))
  BY PendingType
<1>3. IsFiniteSet(Pending(c)') /\ Cardinality(Pending(c)') <= Cardinality(Pending(c))
  BY <1>1, <1>2, FS_Subset
<1>4. Cardinality(Pending(c)') \in Nat
  BY <1>3, FS_CardinalityType
<1> QED BY <1>3, <1>4

\* What leaves the counts and the refusals alone, and the requests too or moves one of them on,
\* but to no place after a refusal, or to the penalty with a count that earns it.
LEMMA TalliesStay ==
    ASSUME TypeOK, Tallied, UNCHANGED <<store, refused>>,
           \A c \in Counters : violations'[c].value = violations[c].value,
           \/ request' = request
           \/ \E r \in Requests, q \in {Idle} \cup Waiting :
                /\ request' = [request EXCEPT ![r] = q]
                /\ \/ q.at \notin {"count", "expire", "penalise"}
                   \/ /\ q.at = "penalise" /\ refused[q.key] > 0
                      /\ refused[Counter(q.key)] >= Threshold
    PROVE  Tallied'
<1>1. CASE request' = request
  <2>1. /\ \A c : Pending(c)' = Pending(c)
        /\ \A k : Counter(k)' = Counter(k)
    BY <1>1 DEF Pending, Counter
  <2>2. \A r \in Requests : Counter(request[r].key)' = Counter(request[r].key)
    BY <1>1 DEF Counter
  <2>3. store = "sqlite" => \A k \in Keys : violations'[k].value = refused'[k]
    BY KeyParts DEF Tallied
  <2> QED BY <1>1, <2>1, <2>2, <2>3 DEF Tallied
<1>2. ASSUME NEW r \in Requests, NEW q \in {Idle} \cup Waiting, request' = [request EXCEPT ![r] = q],
             \/ q.at \notin {"count", "expire", "penalise"}
             \/ /\ q.at = "penalise" /\ refused[q.key] > 0
                /\ refused[Counter(q.key)] >= Threshold
      PROVE  Tallied'
  <2>1. ASSUME NEW c \in Counters PROVE violations'[c].value + Cardinality(Pending(c))' <= refused'[c]
    <3>1. Cardinality(Pending(c))' <= Cardinality(Pending(c)) /\ Cardinality(Pending(c))' \in Nat
      BY <1>2, PendingShrinks
    <3>2. Cardinality(Pending(c)) \in Nat /\ violations[c].value \in Nat /\ refused[c] \in Nat
      BY PendingType, TallyType
    <3>3. violations[c].value + Cardinality(Pending(c)) <= refused[c] /\ violations'[c].value = violations[c].value
      BY DEF Tallied
    <3> QED BY <3>1, <3>2, <3>3
  <2>2. ASSUME NEW p \in Requests
        PROVE  /\ request'[p].at \in {"count", "expire", "penalise"} => refused'[request'[p].key] > 0
               /\ request'[p].at = "expire" => request'[p].count <= refused'[Counter(request'[p].key)]
               /\ request'[p].at = "penalise" => refused'[Counter(request'[p].key)] >= Threshold
    <3>1. CASE p = r
      <4>1. request'[p] = q
        BY <1>2, <3>1 DEF TypeOK
      <4> QED BY <1>2, <4>1
    <3>2. CASE p # r
      <4>1. request'[p] = request[p]
        BY <1>2, <3>2 DEF TypeOK
      <4> QED BY <4>1 DEF Tallied
    <3> QED BY <3>1, <3>2
  <2>3. store = "sqlite" => \A k \in Keys : violations'[k].value = refused'[k]
    BY KeyParts DEF Tallied
  <2> QED BY <2>1, <2>2, <2>3 DEF Tallied, Counter
<1> QED BY <1>1, <1>2

\* A penalty that was earned stays so, and one more is, if a refused key has the counts for it.
LEMMA EarnedStays ==
    ASSUME TypeOK, PenaltyEarned, store' = store, \A c \in Counters : refused'[c] >= refused[c],
           refused' \in [Counters -> Nat],
           \/ penalty' = penalty
           \/ \E k \in Keys, t \in Nat :
                Penalise(k, t) /\ refused'[k] > 0 /\ refused'[Counter(k)] >= Threshold
    PROVE  \A a \in Addresses : penalty'[a] # 0 =>
               \E k \in Keys : Address(k) = a /\ refused'[k] > 0 /\ refused'[Counter(k)] >= Threshold
<1> SUFFICES ASSUME NEW a \in Addresses, penalty'[a] # 0
             PROVE  \E k \in Keys : Address(k) = a /\ refused'[k] > 0 /\ refused'[Counter(k)] >= Threshold
  OBVIOUS
<1>1. CASE penalty[a] # 0
  <2>1. PICK k \in Keys : Address(k) = a /\ refused[k] > 0 /\ refused[Counter(k)] >= Threshold
    BY <1>1 DEF PenaltyEarned
  <2>2. refused'[k] >= refused[k] /\ refused'[Counter(k)] >= refused[Counter(k)]
    BY KeyParts
  <2>3. /\ refused[k] \in Nat /\ refused'[k] \in Nat /\ Threshold \in Nat
        /\ refused[Counter(k)] \in Nat /\ refused'[Counter(k)] \in Nat
    BY KeyParts, RateLimitAssumption DEF TypeOK
  <2>4. refused'[k] > 0 /\ refused'[Counter(k)] >= Threshold
    BY <2>1, <2>2, <2>3
  <2> QED BY <2>1, <2>4
<1>2. CASE penalty[a] = 0
  <2>1. PICK k \in Keys, t \in Nat : Penalise(k, t) /\ refused'[k] > 0 /\ refused'[Counter(k)] >= Threshold
    BY <1>2
  <2>2. Address(k) = a
    BY <1>2, <2>1, PenaliseType
  <2> QED BY <2>1, <2>2
<1> QED BY <1>1, <1>2

\* A refusal that is counted at once: memory and SQLite.
LEMMA CountedAtOnce ==
    ASSUME TypeOK, Steps, Tallied, PenaltyEarned, store # "redis",
           NEW k \in Keys, NEW v \in Nat, v <= violations[k].value + 1,
           store = "sqlite" => v = violations[k].value + 1,
           Refuse(k), \E e \in Entry : e.value = v /\ violations' = [violations EXCEPT ![k] = e],
           NEW t \in Nat \ {0}, IF v >= Threshold THEN Penalise(k, t) ELSE UNCHANGED penalty,
           store' = store,
           \A r \in Requests : request'[r] = request[r] \/ request'[r] = Idle
    PROVE  Tallied' /\ PenaltyEarned'
<1>0. /\ k \in Counters /\ \A j \in Keys : j \in Counters /\ j # k[2] /\ Counter(j) = j /\ Counter(j)' = j
      /\ v \in Nat /\ Threshold \in Nat
  BY KeyParts, RateLimitAssumption DEF Counter
<1>1. /\ refused'[k] = refused[k] + 1 /\ refused' \in [Counters -> Nat]
      /\ \A c \in Counters : refused'[c] >= refused[c]
      /\ \A c \in Counters : c \notin {k, k[2]} => refused'[c] = refused[c]
      /\ violations'[k].value = v /\ \A c \in Counters : c # k => violations'[c] = violations[c]
  BY <1>0, RefuseType DEF TypeOK
<1>2. /\ \A r \in Requests : request[r].at \notin {"count", "expire", "penalise"}
      /\ \A r \in Requests : request'[r].at \notin {"count", "expire", "penalise"}
  <2>1. \A r \in Requests : request[r].at \notin {"count", "expire", "penalise"}
    BY DEF Steps
  <2> QED BY <2>1 DEF Idle
<1>3. \A c \in Counters : Pending(c)' = {} /\ Pending(c) = {}
  BY <1>2 DEF Pending
<1>4. \A c \in Counters : violations[c].value \in Nat /\ refused[c] \in Nat
  BY TallyType
<1>5. \A c \in Counters : violations[c].value <= refused[c]
  <2> TAKE c \in Counters
  <2>1. Cardinality(Pending(c)) = 0
    BY <1>3, FS_EmptySet
  <2>2. violations[c].value + Cardinality(Pending(c)) <= refused[c]
    BY DEF Tallied
  <2> QED BY <1>4, <2>1, <2>2
<1>6. \A c \in Counters : violations'[c].value <= refused'[c]
  <2> TAKE c \in Counters
  <2>1. CASE c = k
    BY <1>0, <1>1, <1>4, <1>5, <2>1
  <2>2. CASE c # k
    <3>1. refused'[c] \in Nat /\ refused'[c] >= refused[c]
      BY <1>1
    <3> QED BY <1>1, <1>4, <1>5, <2>2, <3>1
  <2> QED BY <2>1, <2>2
<1>7. store = "sqlite" => \A j \in Keys : violations'[j].value = refused'[j]
  <2> SUFFICES ASSUME store = "sqlite", NEW j \in Keys PROVE violations'[j].value = refused'[j]
    OBVIOUS
  <2>1. violations[j].value = refused[j] /\ violations[k].value = refused[k]
    BY DEF Tallied
  <2>2. CASE j = k
    BY <1>1, <2>1, <2>2
  <2>3. CASE j # k
    BY <1>0, <1>1, <2>1, <2>3
  <2> QED BY <2>2, <2>3
<1>8. Tallied'
  <2>1. \A c \in Counters : violations'[c].value + Cardinality(Pending(c))' <= refused'[c]
    <3> TAKE c \in Counters
    <3>1. Cardinality(Pending(c)') = 0
      BY <1>3, FS_EmptySet
    <3>2. violations'[c].value \in Nat
      BY <1>1, <1>4
    <3> QED BY <1>6, <3>1, <3>2
  <2> QED BY <1>2, <1>7, <2>1 DEF Tallied
<1>9. \A a \in Addresses : penalty'[a] # 0 =>
         \E j \in Keys : Address(j) = a /\ refused'[j] > 0 /\ refused'[Counter(j)] >= Threshold
  <2>1. CASE v >= Threshold
    <3>1. refused'[k] > 0 /\ refused'[Counter(k)] >= Threshold
      <4>1. v <= refused'[k] /\ refused'[k] \in Nat /\ refused[k] \in Nat /\ refused'[k] = refused[k] + 1
        BY <1>0, <1>1, <1>4, <1>6
      <4> QED BY <1>0, <2>1, <4>1
    <3> QED BY <1>1, <2>1, <3>1, EarnedStays
  <2>2. CASE ~(v >= Threshold)
    BY <1>1, <2>2, EarnedStays
  <2> QED BY <2>1, <2>2
<1>10. store' = "sqlite" => \A j \in Keys : refused'[j] >= Threshold => penalty'[Address(j)] # 0
  <2> SUFFICES ASSUME store = "sqlite", NEW j \in Keys, refused'[j] >= Threshold
               PROVE  penalty'[Address(j)] # 0
    OBVIOUS
  <2>1. CASE j = k
    <3>1. v >= Threshold
      BY <1>1, <1>7, <2>1
    <3> QED BY <2>1, <3>1, PenaliseType
  <2>2. CASE j # k
    <3>1. penalty[Address(j)] # 0
      BY <1>0, <1>1, <2>2 DEF PenaltyEarned
    <3>2. penalty'[Address(j)] \in {penalty[Address(j)], t}
      BY KeyParts, PenaliseType
    <3> QED BY <3>1, <3>2
  <2> QED BY <2>1, <2>2
<1>11. \A j \in Keys : Counter(j)' = Counter(j)
  BY DEF Counter
<1> QED BY <1>8, <1>9, <1>10, <1>11 DEF PenaltyEarned

LEMMA MemoryTallied ==
    ASSUME TypeOK, Steps, Tallied, PenaltyEarned, NEW k \in Keys, MemoryAdmits(k) \/ MemoryRefuses(k)
    PROVE  Tallied' /\ PenaltyEarned'
<1>1. CASE MemoryAdmits(k)
  BY <1>1, TalliesStay DEF MemoryAdmits, PenaltyEarned, Counter
<1>2. CASE MemoryRefuses(k)
  <2> DEFINE n == Read(violations[k]) + 1
  <2>1. /\ store = "memory" /\ store' = store /\ request' = request /\ Refuse(k)
        /\ violations' = [violations EXCEPT ![k] = Store(n)]
        /\ IF n >= Threshold THEN Penalise(k, now + CacheTtl) ELSE UNCHANGED penalty
    BY <1>2 DEF MemoryRefuses
  <2>2. n \in Nat /\ n <= violations[k].value + 1
    <3>1. violations[k] \in Entry /\ violations[k].value \in Nat
      BY KeyParts, TallyType
    <3> QED BY <3>1, ReadType
  <2>3. Store(n) \in Entry /\ Store(n).value = n
    BY <2>2, StoreType
  <2>4. now + CacheTtl \in Nat \ {0}
    BY RateLimitAssumption DEF TypeOK, Times
  <2> HIDE DEF n
  <2>5. \E e \in Entry : e.value = n /\ violations' = [violations EXCEPT ![k] = e]
    BY <2>1, <2>3
  <2> QED BY <2>1, <2>2, <2>4, <2>5, CountedAtOnce
<1> QED BY <1>1, <1>2

LEMMA SqliteTallied ==
    ASSUME TypeOK, Steps, Tallied, PenaltyEarned, NEW r \in Requests, SqliteRefuses(r)
    PROVE  Tallied' /\ PenaltyEarned'
<1> DEFINE k == request[r].key
           t == request[r].clock
           n == violations[k].value + 1
           e == [value |-> n, drop |-> t + 2 * Window]
<1>1. k \in Keys /\ t \in Nat
  BY WaitingType DEF SqliteRefuses, SqliteStep, Times
<1>2. /\ store = "sqlite" /\ store' = store /\ Refuse(k) /\ Leave(r)
      /\ violations' = [violations EXCEPT ![k] = e]
      /\ IF n >= Threshold THEN Penalise(k, t + Cooldown) ELSE UNCHANGED penalty
  BY DEF SqliteRefuses, SqliteStep
<1>3. n \in Nat /\ t + Cooldown \in Nat \ {0} /\ t + 2 * Window \in Nat
  BY <1>1, KeyParts, TallyType, RateLimitAssumption
<1>4. e \in Entry /\ e.value = n
  BY <1>3 DEF Entry
<1>5. n <= violations[k].value + 1 /\ n = violations[k].value + 1
  BY <1>3
<1>6. \A q \in Requests : request'[q] = request[q] \/ request'[q] = Idle
  BY <1>2 DEF TypeOK, Leave
<1> HIDE DEF e, n, k, t
<1>7. \E x \in Entry : x.value = n /\ violations' = [violations EXCEPT ![k] = x]
  BY <1>2, <1>4
<1> QED BY <1>1, <1>2, <1>3, <1>5, <1>6, <1>7, CountedAtOnce

LEMMA RedisRefusesTallied ==
    ASSUME TypeOK, Steps, Tallied, PenaltyEarned, NEW r \in Requests, RedisRefuses(r)
    PROVE  Tallied' /\ PenaltyEarned'
<1> DEFINE k == request[r].key
<1>1. request[r] \in Waiting /\ k \in Keys /\ store = "redis" /\ request[r].at = "script"
  BY WaitingType DEF Steps, RedisRefuses
<1>2. /\ Refuse(k) /\ UNCHANGED <<store, violations, penalty>>
      /\ request' = [request EXCEPT ![r].at = "count"]
  BY DEF RedisRefuses
<1>3. /\ refused'[k] = refused[k] + 1 /\ refused'[Counter(k)] = refused[Counter(k)] + 1
      /\ refused' \in [Counters -> Nat]
      /\ \A c \in Counters : refused'[c] >= refused[c]
      /\ \A c \in Counters : refused[c] \in Nat /\ violations[c].value \in Nat
      /\ k \in Counters /\ Counter(k) \in Counters
  BY <1>1, <1>2, RefuseType, TallyType, KeyParts
<1>4. /\ request'[r].at = "count" /\ request'[r].key = k
      /\ \A q \in Requests : q # r => request'[q] = request[q]
      /\ \A j : Counter(j)' = Counter(j)
  BY <1>1, <1>2 DEF TypeOK, Waiting, Counter
<1> HIDE DEF k
<1>5. ASSUME NEW c \in Counters PROVE violations'[c].value + Cardinality(Pending(c))' <= refused'[c]
  <2>0. /\ IsFiniteSet(Pending(c)) /\ Cardinality(Pending(c)) \in Nat
        /\ violations[c].value + Cardinality(Pending(c)) <= refused[c]
        /\ refused'[c] \in Nat /\ refused'[c] >= refused[c]
    BY <1>3, PendingType DEF Tallied
  <2>1. CASE c = Counter(k)
    <3>1. Pending(c)' = Pending(c) \cup {r}
      BY <1>4, <2>1 DEF Pending
    <3>2. Cardinality(Pending(c)') \in {Cardinality(Pending(c)), Cardinality(Pending(c)) + 1}
      BY <2>0, <3>1, FS_AddElement
    <3> QED BY <1>2, <1>3, <2>0, <2>1, <3>2
  <2>2. CASE c # Counter(k)
    <3>1. Pending(c)' \subseteq Pending(c)
      BY <1>4, <2>2 DEF Pending
    <3>2. IsFiniteSet(Pending(c)') /\ Cardinality(Pending(c)') <= Cardinality(Pending(c))
      BY <2>0, <3>1, FS_Subset
    <3>3. Cardinality(Pending(c)') \in Nat
      BY <3>2, FS_CardinalityType
    <3> QED BY <1>2, <1>3, <2>0, <3>2, <3>3
  <2> QED BY <2>1, <2>2
<1>6. ASSUME NEW q \in Requests
      PROVE  /\ request'[q].at \in {"count", "expire", "penalise"} => refused'[request'[q].key] > 0
             /\ request'[q].at = "expire" => request'[q].count <= refused'[Counter(request'[q].key)]
             /\ request'[q].at = "penalise" => refused'[Counter(request'[q].key)] >= Threshold
  <2>1. CASE q = r
    BY <1>3, <1>4, <2>1
  <2>2. CASE q # r /\ request[q].at \in {"count", "expire", "penalise"}
    <3> DEFINE j == request[q].key
    <3>1. request'[q] = request[q] /\ j \in Counters /\ Counter(j) \in Counters /\ request[q].count \in Nat
      BY <1>4, <2>2, WaitingType, KeyParts
    <3>2. /\ refused'[j] >= refused[j] /\ refused'[Counter(j)] >= refused[Counter(j)]
          /\ refused[j] \in Nat /\ refused'[j] \in Nat
          /\ refused[Counter(j)] \in Nat /\ refused'[Counter(j)] \in Nat
      BY <1>3, <3>1
    <3>3. /\ refused[j] > 0
          /\ request[q].at = "expire" => request[q].count <= refused[Counter(j)]
          /\ request[q].at = "penalise" => refused[Counter(j)] >= Threshold
      BY <2>2 DEF Tallied
    <3> HIDE DEF j
    <3>4. /\ refused'[j] > 0
          /\ request[q].at = "expire" => request[q].count <= refused'[Counter(j)]
          /\ request[q].at = "penalise" => refused'[Counter(j)] >= Threshold
      BY <3>1, <3>2, <3>3, RateLimitAssumption
    <3> QED BY <3>1, <3>4 DEF j
  <2>3. CASE q # r /\ request[q].at \notin {"count", "expire", "penalise"}
    <3>1. request'[q] = request[q]
      BY <1>4, <2>3
    <3> QED BY <2>3, <3>1
  <2> QED BY <2>1, <2>2, <2>3
<1>7. Tallied'
  <2>1. \A q \in Requests : Counter(request[q].key)' = Counter(request'[q].key)
    BY <1>2 DEF Counter
  <2> QED BY <1>1, <1>2, <1>5, <1>6, <2>1 DEF Tallied
<1>8. PenaltyEarned'
  <2>1. \A j \in Keys : Counter(j)' = Counter(j)
    BY <1>4
  <2> QED BY <1>1, <1>2, <1>3, <2>1, EarnedStays DEF PenaltyEarned
<1> QED BY <1>7, <1>8

LEMMA RedisCountsTallied ==
    ASSUME TypeOK, Steps, Tallied, PenaltyEarned, NEW r \in Requests, RedisCounts(r)
    PROVE  Tallied' /\ PenaltyEarned'
<1> DEFINE k == request[r].key
           b == Counter(k)
           n == Read(violations[b]) + 1
           e == [value |-> n, drop |-> IF now < violations[b].drop THEN violations[b].drop ELSE Forever]
<1>1. request[r] \in Waiting /\ k \in Keys /\ store = "redis" /\ request[r].at = "count" /\ b \in Counters
  BY WaitingType, KeyParts DEF Steps, RedisCounts
<1>2. /\ violations' = [violations EXCEPT ![b] = e]
      /\ request' = [request EXCEPT ![r].at = "expire", ![r].count = n]
      /\ UNCHANGED <<store, penalty, refused>>
  BY DEF RedisCounts
<1>3. n \in Nat /\ n <= violations[b].value + 1 /\ e.value = n
  <2>1. violations[b] \in Entry /\ violations[b].value \in Nat
    BY <1>1, TallyType
  <2> QED BY <2>1, ReadType
<1>4. /\ \A c \in Counters : refused[c] \in Nat /\ violations[c].value \in Nat
      /\ violations'[b].value = n /\ \A c \in Counters : c # b => violations'[c] = violations[c]
  <2>1. \A c \in Counters : refused[c] \in Nat /\ violations[c].value \in Nat
    BY TallyType
  <2> HIDE DEF e
  <2> QED BY <1>1, <1>2, <1>3, <2>1 DEF TypeOK
<1>5. /\ \A q \in Requests : q # r => request'[q] = request[q]
      /\ request'[r].at = "expire" /\ request'[r].key = k /\ request'[r].count = n
      /\ \A j : Counter(j)' = Counter(j)
  BY <1>1, <1>2 DEF TypeOK, Waiting, Counter
<1>6. r \in Pending(b) /\ \A c : c # b => r \notin Pending(c)
  BY <1>1 DEF Pending
<1> HIDE DEF k, n, e, b
<1>7. ASSUME NEW c \in Counters
      PROVE  /\ IsFiniteSet(Pending(c)) /\ Cardinality(Pending(c)) \in Nat
             /\ Cardinality(Pending(c)') \in Nat
             /\ c = b => Cardinality(Pending(c)') = Cardinality(Pending(c)) - 1
             /\ c # b => Cardinality(Pending(c)') = Cardinality(Pending(c))
  <2>1. IsFiniteSet(Pending(c)) /\ Cardinality(Pending(c)) \in Nat
    BY PendingType
  <2> DEFINE P == Pending(c)
             Q == Pending(c)'
  <2>2. Q = P \ {r}
    BY <1>5 DEF Pending
  <2> HIDE DEF P, Q
  <2>3. /\ IsFiniteSet(P \ {r})
        /\ Cardinality(P \ {r}) = IF r \in P THEN Cardinality(P) - 1 ELSE Cardinality(P)
    BY <2>1, FS_RemoveElement DEF P
  <2>4. Cardinality(Q) \in Nat
    BY <2>2, <2>3, FS_CardinalityType
  <2> QED BY <1>6, <2>1, <2>2, <2>3, <2>4 DEF P, Q
<1>8. ASSUME NEW c \in Counters PROVE violations'[c].value + Cardinality(Pending(c))' <= refused'[c]
  <2>1. violations[c].value + Cardinality(Pending(c)) <= refused[c]
    BY DEF Tallied
  <2> QED BY <1>2, <1>3, <1>4, <1>7, <2>1
<1>9. n <= refused[b] /\ refused[k] > 0
  <2>1. violations[b].value + Cardinality(Pending(b)) <= refused[b]
    BY <1>1 DEF Tallied
  <2>2. Cardinality(Pending(b)) >= 1 /\ Cardinality(Pending(b)) \in Nat
    BY <1>1, <1>7
  <2>3. refused[k] > 0
    BY <1>1 DEF Tallied, k
  <2> QED BY <1>1, <1>3, <1>4, <2>1, <2>2, <2>3
<1>10. ASSUME NEW q \in Requests
       PROVE  /\ request'[q].at \in {"count", "expire", "penalise"} => refused'[request'[q].key] > 0
              /\ request'[q].at = "expire" => request'[q].count <= refused'[Counter(request'[q].key)]
              /\ request'[q].at = "penalise" => refused'[Counter(request'[q].key)] >= Threshold
  <2>1. CASE q = r
    BY <1>2, <1>5, <1>9, <2>1 DEF b
  <2>2. CASE q # r
    BY <1>2, <1>5, <2>2 DEF Tallied
  <2> QED BY <2>1, <2>2
<1>11. Tallied'
  <2>1. \A q \in Requests : Counter(request[q].key)' = Counter(request'[q].key)
    BY <1>2 DEF Counter
  <2> QED BY <1>1, <1>2, <1>8, <1>10, <2>1 DEF Tallied
<1>12. PenaltyEarned'
  <2>1. \A j \in Keys : Counter(j)' = Counter(j)
    BY <1>5
  <2> QED BY <1>1, <1>2, <2>1 DEF PenaltyEarned
<1> QED BY <1>11, <1>12

LEMMA RedisExpiresTallied ==
    ASSUME TypeOK, Steps, Tallied, PenaltyEarned, NEW r \in Requests, RedisExpires(r)
    PROVE  Tallied' /\ PenaltyEarned'
<1> DEFINE k == request[r].key
           b == Counter(k)
           q == [request[r] EXCEPT !.at = "penalise"]
<1>1. request[r] \in Waiting /\ k \in Keys /\ store = "redis" /\ request[r].at = "expire" /\ b \in Counters
  BY WaitingType, KeyParts DEF Steps, RedisExpires
<1>2. /\ UNCHANGED <<store, penalty, refused>>
      /\ \/ Leave(r)
         \/ request' = [request EXCEPT ![r] = q] /\ request[r].count >= Threshold
  BY DEF RedisExpires, TypeOK
<1>3. \A c \in Counters : violations'[c].value = violations[c].value
  <2>1. \A c \in Counters : violations[c] \in Entry
    BY TallyType
  <2>2. violations' = [violations EXCEPT ![b] = IF now < violations[b].drop
                                                   THEN [violations[b] EXCEPT !.drop = now + 2 * Window]
                                                   ELSE violations[b]]
    BY DEF RedisExpires
  <2> HIDE DEF b
  <2> QED BY <1>1, <2>1, <2>2 DEF TypeOK, Entry
<1>4. /\ q \in Waiting /\ q.at = "penalise" /\ q.key = k
      /\ refused[k] > 0 /\ request[r].count <= refused[b]
      /\ request[r].count \in Nat /\ refused[b] \in Nat /\ Threshold \in Nat
  <2>1. q \in Waiting /\ q.at = "penalise" /\ q.key = k /\ request[r].count \in Nat
    BY <1>1 DEF Waiting, Places
  <2>2. refused[k] > 0 /\ request[r].count <= refused[b]
    BY <1>1 DEF Tallied
  <2>3. refused[b] \in Nat
    BY <1>1, TallyType
  <2> QED BY <2>1, <2>2, <2>3, RateLimitAssumption
<1>5. Tallied'
  <2>1. CASE Leave(r)
    <3>1. Idle \in {Idle} \cup Waiting /\ Idle.at \notin {"count", "expire", "penalise"}
      BY DEF Idle
    <3>2. request' = [request EXCEPT ![r] = Idle]
      BY <2>1 DEF Leave
    <3> QED BY <1>2, <1>3, <3>1, <3>2, TalliesStay
  <2>2. CASE request' = [request EXCEPT ![r] = q] /\ request[r].count >= Threshold
    <3>1. refused[b] >= Threshold
      BY <1>4, <2>2
    <3>2. refused[Counter(q.key)] >= Threshold /\ refused[q.key] > 0
      BY <1>4, <3>1
    <3> HIDE DEF q
    <3> QED BY <1>2, <1>3, <1>4, <2>2, <3>2, TalliesStay
  <2> QED BY <1>2, <2>1, <2>2
<1>6. PenaltyEarned'
  BY <1>2 DEF PenaltyEarned, Counter
<1> QED BY <1>5, <1>6

LEMMA RedisPenalisesTallied ==
    ASSUME TypeOK, Steps, Tallied, PenaltyEarned, NEW r \in Requests, RedisPenalises(r)
    PROVE  Tallied' /\ PenaltyEarned'
<1> DEFINE k == request[r].key
<1>1. /\ k \in Keys /\ store = "redis" /\ request[r].at = "penalise"
      /\ refused[k] > 0 /\ refused[Counter(k)] >= Threshold
  BY WaitingType DEF Steps, Tallied, RedisPenalises
<1>2. /\ UNCHANGED <<store, violations, refused>> /\ Penalise(k, now + Cooldown)
      /\ request' = [request EXCEPT ![r] = Idle] /\ now + Cooldown \in Nat
  BY RateLimitAssumption DEF RedisPenalises, Leave, TypeOK, Times
<1>3. Idle \in {Idle} \cup Waiting /\ Idle.at \notin {"count", "expire", "penalise"}
  BY DEF Idle
<1>4. Tallied'
  BY <1>2, <1>3, TalliesStay
<1>5. /\ \A j \in Keys : Counter(j)' = Counter(j)
      /\ refused \in [Counters -> Nat] /\ \A c \in Counters : refused[c] >= refused[c]
  <2>1. \A c \in Counters : refused[c] \in Nat
    BY TallyType
  <2> QED BY <1>2, <2>1 DEF Counter, TypeOK
<1> HIDE DEF k
<1>6. \A a \in Addresses : penalty'[a] # 0 =>
         \E j \in Keys : Address(j) = a /\ refused'[j] > 0 /\ refused'[Counter(j)] >= Threshold
  BY <1>1, <1>2, <1>5, EarnedStays
<1> QED BY <1>1, <1>2, <1>4, <1>5, <1>6 DEF PenaltyEarned

LEMMA NextTallied == TypeOK /\ Steps /\ Tallied /\ PenaltyEarned /\ [Next]_vars => Tallied' /\ PenaltyEarned'
<1> SUFFICES ASSUME TypeOK, Steps, Tallied, PenaltyEarned, [Next]_vars PROVE Tallied' /\ PenaltyEarned'
  OBVIOUS
<1>1. ASSUME NEW r \in Requests, NEW q \in {Idle} \cup Waiting, q.at \notin {"count", "expire", "penalise"},
             request' = [request EXCEPT ![r] = q] \/ request' = request,
             UNCHANGED <<store, violations, penalty, refused>>
      PROVE  Tallied' /\ PenaltyEarned'
  <2>1. Tallied'
    BY <1>1, TalliesStay
  <2> QED BY <1>1, <2>1 DEF PenaltyEarned, Counter
<1>2. ASSUME NEW r \in Requests, NEW k \in Keys, Arrive(r, k) PROVE Tallied' /\ PenaltyEarned'
  <2> DEFINE q == [at |-> "arrived", key |-> k, clock |-> now, since |-> now, count |-> 0]
  <2>1. q \in Waiting /\ q.at = "arrived"
    BY DEF TypeOK, Waiting, Places
  <2>2. request' = [request EXCEPT ![r] = q] /\ UNCHANGED <<store, violations, penalty, refused>>
    BY <1>2 DEF Arrive
  <2> HIDE DEF q
  <2> QED BY <1>1, <2>1, <2>2
<1>3. ASSUME NEW r \in Requests,
             SqlitePenalised(r) \/ SqliteAdmits(r) \/ RedisPenalised(r) \/ RedisAdmits(r) \/ StoreFails(r)
      PROVE  Tallied' /\ PenaltyEarned'
  <2>1. request' = [request EXCEPT ![r] = Idle] /\ UNCHANGED <<store, violations, penalty, refused>>
    BY <1>3 DEF SqlitePenalised, SqliteAdmits, RedisPenalised, RedisAdmits, StoreFails, Leave
  <2>2. Idle \in {Idle} \cup Waiting /\ Idle.at \notin {"count", "expire", "penalise"}
    BY DEF Idle
  <2> QED BY <1>1, <2>1, <2>2
<1>4. ASSUME NEW r \in Requests, RedisAnswers(r) \/ RedisGoesOn(r) PROVE Tallied' /\ PenaltyEarned'
  <2>1. request[r] \in Waiting /\ now \in Times
    BY <1>4, WaitingType DEF RedisAnswers, RedisGoesOn, TypeOK
  <2>2. /\ UNCHANGED <<store, violations, penalty, refused>>
        /\ \/ request' = [request EXCEPT ![r] = [request[r] EXCEPT !.at = "answered"]]
           \/ request' = [request EXCEPT ![r] = [request[r] EXCEPT !.at = "script", !.clock = now]]
    BY <1>4 DEF TypeOK, RedisAnswers, RedisGoesOn
  <2>3. /\ [request[r] EXCEPT !.at = "answered"] \in Waiting
        /\ [request[r] EXCEPT !.at = "script", !.clock = now] \in Waiting
        /\ [request[r] EXCEPT !.at = "answered"].at = "answered"
        /\ [request[r] EXCEPT !.at = "script", !.clock = now].at = "script"
    BY <2>1 DEF Waiting, Places
  <2> QED BY <1>1, <2>2, <2>3
<1>5. CASE Tick \/ UNCHANGED vars
  <2>1. UNCHANGED <<store, request, violations, penalty, refused>>
    BY <1>5 DEF Tick, vars
  <2>2. Tallied'
    BY <2>1, TalliesStay
  <2> QED BY <2>1, <2>2 DEF PenaltyEarned, Counter
<1> QED
  BY <1>2, <1>3, <1>4, <1>5, MemoryTallied, SqliteTallied, RedisRefusesTallied, RedisCountsTallied,
     RedisExpiresTallied, RedisPenalisesTallied DEF Next

\* With every store a penalty has as many refusals behind it as the threshold asks, counted where
\* the store counts them and one of them of the address itself, and with SQLite these never fail
\* to earn one.
THEOREM PenaltiesEarned == Spec => []PenaltyEarned
<1>1. Init => Tallied /\ PenaltyEarned
  <2> SUFFICES ASSUME Init PROVE Tallied /\ PenaltyEarned
    OBVIOUS
  <2>1. \A c : Pending(c) = {}
    BY DEF Init, Pending, Idle
  <2>2. \A c \in Counters : violations[c].value = 0 /\ refused[c] = 0
    BY DEF Init, NoEntry
  <2>3. \A c \in Counters : violations[c].value + Cardinality(Pending(c)) <= refused[c]
    <3> TAKE c \in Counters
    <3>1. Cardinality(Pending(c)) = 0
      BY <2>1, FS_EmptySet
    <3> QED BY <2>2, <3>1
  <2>4. \A r \in Requests : request[r].at = "idle"
    BY DEF Init, Idle
  <2>5. \A k \in Keys : violations[k].value = 0 /\ refused[k] = 0 /\ ~(refused[k] >= Threshold)
    BY <2>2, KeyParts, RateLimitAssumption
  <2>6. \A a \in Addresses : penalty[a] = 0
    BY DEF Init
  <2> QED BY <2>3, <2>4, <2>5, <2>6 DEF Tallied, PenaltyEarned
<1>2. TypeOK /\ Steps /\ [Next]_vars => (TypeOK /\ Steps)'
  BY NextType
<1>3. TypeOK /\ Steps /\ Tallied /\ PenaltyEarned /\ [Next]_vars => (Tallied /\ PenaltyEarned)'
  BY NextTallied
<1> QED BY InitType, <1>1, <1>2, <1>3, PTL DEF Spec

-----------------------------------------------------------------------------
(* Types, and the progress of each request.                                *)

LEMMA IdemInitType == IdemInit => IdemTypeOK /\ Progress
  BY DEF IdemInit, IdemTypeOK, Progress

LEMMA LookupSteps ==
    ASSUME IdemTypeOK, Progress, NEW r \in Mutations, Replay(r) \/ Miss(r) \/ LookupFails(r)
    PROVE  IdemTypeOK' /\ Progress'
<1>1. CASE Replay(r)
  <2>1. key[r] \in IdemKeys /\ phase[r] = "lookup" /\ cache[key[r]] \in Mutations
    BY <1>1 DEF IdemTypeOK, Progress, Replay, Found
  <2>2. IdemTypeOK'
    BY <1>1, <2>1 DEF IdemTypeOK, Replay, Go
  <2>3. Progress'
    BY <1>1, <2>1 DEF IdemTypeOK, Progress, Replay, Go
  <2> QED BY <2>2, <2>3
<1>2. CASE Miss(r)
  <2>1. IdemTypeOK'
    BY <1>2 DEF IdemTypeOK, Miss, Go
  <2>2. Progress'
    BY <1>2 DEF IdemTypeOK, Progress, Miss, Go
  <2> QED BY <2>1, <2>2
<1>3. CASE LookupFails(r)
  <2>1. IdemTypeOK'
    BY <1>3 DEF IdemTypeOK, LookupFails, Go
  <2>2. Progress'
    BY <1>3 DEF IdemTypeOK, Progress, LookupFails, Go
  <2> QED BY <2>1, <2>2
<1> QED BY <1>1, <1>2, <1>3

LEMMA OtherSteps ==
    ASSUME IdemTypeOK, Progress, NEW r \in Mutations,
           \/ \E k \in IdemKeys : Send(r, k)
           \/ \E s \in Statuses : Answer(r, s)
           \/ Keep(r) \/ NotKept(r)
    PROVE  IdemTypeOK' /\ Progress'
<1>1. ASSUME NEW k \in IdemKeys, Send(r, k) PROVE IdemTypeOK' /\ Progress'
  <2>1. IdemTypeOK'
    BY <1>1 DEF IdemTypeOK, Send, Go, Finished
  <2>2. Progress'
    BY <1>1 DEF IdemTypeOK, Progress, Send, Go
  <2> QED BY <2>1, <2>2
<1>2. ASSUME NEW s \in Statuses, Answer(r, s) PROVE IdemTypeOK' /\ Progress'
  <2>1. IdemTypeOK'
    BY <1>2 DEF IdemTypeOK, Answer, Go
  <2>2. Progress'
    BY <1>2 DEF IdemTypeOK, Progress, Answer, Go
  <2> QED BY <2>1, <2>2
<1>3. CASE Keep(r)
  <2>1. IdemTypeOK'
    BY <1>3 DEF IdemTypeOK, Keep, Go
  <2>2. Progress'
    BY <1>3 DEF IdemTypeOK, Progress, Keep, Go
  <2> QED BY <2>1, <2>2
<1>4. CASE NotKept(r)
  <2>1. IdemTypeOK'
    BY <1>4 DEF IdemTypeOK, NotKept, Go
  <2>2. Progress'
    BY <1>4 DEF IdemTypeOK, Progress, NotKept, Go
  <2> QED BY <2>1, <2>2
<1> QED BY <1>1, <1>2, <1>3, <1>4

LEMMA CrashSteps ==
    ASSUME IdemTypeOK, Progress, Crash
    PROVE  IdemTypeOK' /\ Progress'
<1>1. \A r \in Mutations : phase'[r] \in {phase[r], "over"} /\ (phase[r] = "unsent" => phase'[r] = "unsent")
  BY DEF IdemTypeOK, Crash
<1>2. phase' \in [Mutations -> {"unsent", "lookup", "running", "answered", "over"}]
  BY DEF IdemTypeOK, Crash
<1>3. cache' \in [IdemKeys -> Mutations \cup {Absent}] /\ gone' \subseteq Mutations
  BY DEF IdemTypeOK, Crash, Finished
<1>4. IdemTypeOK'
  BY <1>2, <1>3 DEF IdemTypeOK, Crash
<1>5. Progress'
  BY <1>1, <1>2 DEF IdemTypeOK, Progress, Crash
<1> QED BY <1>4, <1>5

\* Every step keeps the types and the progress.
LEMMA IdemNextType == IdemTypeOK /\ Progress /\ [IdemNext]_idemVars => IdemTypeOK' /\ Progress'
<1> SUFFICES ASSUME IdemTypeOK, Progress, [IdemNext]_idemVars PROVE IdemTypeOK' /\ Progress'
  OBVIOUS
<1>1. ASSUME NEW k \in IdemKeys, Expire(k) PROVE IdemTypeOK' /\ Progress'
  BY <1>1 DEF IdemTypeOK, Progress, Expire, Finished
<1>2. CASE UNCHANGED idemVars
  BY <1>2 DEF idemVars, IdemTypeOK, Progress
<1> QED BY <1>1, <1>2, LookupSteps, OtherSteps, CrashSteps DEF IdemNext

\* The middleware's records are well typed, for any number of requests and keys.
THEOREM IdemTypeCorrect == IdemSpec => []IdemTypeOK
<1>1. IdemTypeOK /\ Progress /\ [IdemNext]_idemVars => (IdemTypeOK /\ Progress)'
  BY IdemNextType
<1> QED BY IdemInitType, <1>1, PTL DEF IdemSpec

-----------------------------------------------------------------------------
(* What a step leaves of a request that is over, and of the cache.         *)

\* A request that is over keeps its key, its status and its reply.
LEMMA OverStays ==
    ASSUME IdemTypeOK, [IdemNext]_idemVars, NEW q \in Mutations, phase[q] = "over"
    PROVE  /\ phase'[q] = "over" /\ key'[q] = key[q]
           /\ status'[q] = status[q] /\ reply'[q] = reply[q]
<1>1. ASSUME NEW r \in Mutations, NEW k \in IdemKeys, Send(r, k)
      PROVE  /\ phase'[q] = "over" /\ key'[q] = key[q]
             /\ status'[q] = status[q] /\ reply'[q] = reply[q]
  BY <1>1 DEF IdemTypeOK, Send, Go
<1>2. ASSUME NEW r \in Mutations, Replay(r) \/ Miss(r) \/ LookupFails(r)
      PROVE  /\ phase'[q] = "over" /\ key'[q] = key[q]
             /\ status'[q] = status[q] /\ reply'[q] = reply[q]
  BY <1>2 DEF IdemTypeOK, Replay, Miss, LookupFails, Go
<1>3. ASSUME NEW r \in Mutations, NEW s \in Statuses, Answer(r, s)
      PROVE  /\ phase'[q] = "over" /\ key'[q] = key[q]
             /\ status'[q] = status[q] /\ reply'[q] = reply[q]
  BY <1>3 DEF IdemTypeOK, Answer, Go
<1>4. ASSUME NEW r \in Mutations, Keep(r) \/ NotKept(r)
      PROVE  /\ phase'[q] = "over" /\ key'[q] = key[q]
             /\ status'[q] = status[q] /\ reply'[q] = reply[q]
  BY <1>4 DEF IdemTypeOK, Keep, NotKept, Go
<1>5. CASE Crash \/ UNCHANGED idemVars \/ \E k \in IdemKeys : Expire(k)
  BY <1>5 DEF IdemTypeOK, Crash, idemVars, Expire
<1> QED BY <1>1, <1>2, <1>3, <1>4, <1>5 DEF IdemNext

\* So what is stored stays true.
LEMMA StoredStays ==
    ASSUME IdemTypeOK, [IdemNext]_idemVars, NEW q \in Mutations, NEW k, Stored(q, k)
    PROVE  Stored(q, k)'
  BY OverStays DEF Stored

\* An entry stays, is dropped, or is the response that Keep has stored.
LEMMA EntryMoves ==
    ASSUME IdemTypeOK, Progress, [IdemNext]_idemVars, NEW k \in IdemKeys
    PROVE  \/ cache'[k] \in {cache[k], Absent}
           \/ \E r \in Mutations : Keep(r) /\ k = key[r] /\ cache'[k] = r
<1>1. ASSUME NEW r \in Mutations, Keep(r)
      PROVE  cache'[k] = cache[k] \/ (k = key[r] /\ cache'[k] = r)
  BY <1>1 DEF IdemTypeOK, Keep
<1>2. ASSUME NEW j \in IdemKeys, Expire(j) PROVE cache'[k] \in {cache[k], Absent}
  BY <1>2 DEF IdemTypeOK, Expire
<1>3. CASE Crash
  BY <1>3 DEF IdemTypeOK, Crash
<1>4. ASSUME NEW r \in Mutations,
             \/ \E j \in IdemKeys : Send(r, j)
             \/ Replay(r) \/ Miss(r) \/ LookupFails(r)
             \/ \E s \in Statuses : Answer(r, s)
             \/ NotKept(r)
      PROVE  cache'[k] = cache[k]
  BY <1>4 DEF Send, Replay, Miss, LookupFails, Answer, NotKept
<1>5. CASE UNCHANGED idemVars
  BY <1>5 DEF idemVars
<1> QED BY <1>1, <1>2, <1>3, <1>4, <1>5 DEF IdemNext

\* A reply stays, or is the request's own, or is what the cache holds.
LEMMA ReplyMoves ==
    ASSUME IdemTypeOK, Progress, [IdemNext]_idemVars, NEW r \in Mutations
    PROVE  \/ reply'[r] = reply[r] \/ reply'[r] = r
           \/ /\ phase[r] = "lookup" /\ key[r] \in IdemKeys
              /\ cache[key[r]] # Absent /\ reply'[r] = cache[key[r]]
              /\ phase'[r] = "over" /\ key'[r] = key[r]
<1>1. ASSUME NEW q \in Mutations, Replay(q)
      PROVE  \/ reply'[r] = reply[r]
             \/ /\ phase[r] = "lookup" /\ key[r] \in IdemKeys
                /\ cache[key[r]] # Absent /\ reply'[r] = cache[key[r]]
                /\ phase'[r] = "over" /\ key'[r] = key[r]
  BY <1>1 DEF IdemTypeOK, Progress, Replay, Found, Go
<1>2. ASSUME NEW q \in Mutations, NEW s \in Statuses, Answer(q, s)
      PROVE  reply'[r] = reply[r] \/ reply'[r] = r
  BY <1>2 DEF IdemTypeOK, Answer
<1>3. ASSUME NEW q \in Mutations,
             \/ \E j \in IdemKeys : Send(q, j)
             \/ Miss(q) \/ LookupFails(q) \/ Keep(q) \/ NotKept(q)
      PROVE  reply'[r] = reply[r]
  BY <1>3 DEF Send, Miss, LookupFails, Keep, NotKept
<1>4. CASE Crash \/ UNCHANGED idemVars \/ \E k \in IdemKeys : Expire(k)
  BY <1>4 DEF Crash, idemVars, Expire
<1> QED BY <1>1, <1>2, <1>3, <1>4 DEF IdemNext

-----------------------------------------------------------------------------
(* The cache and the replies tell the truth.                               *)

LEMMA NextCache ==
    ASSUME IdemInv, [IdemNext]_idemVars
    PROVE  CacheTrue'
<1> SUFFICES ASSUME NEW k \in IdemKeys, cache'[k] # Absent PROVE Stored(cache[k], k)'
  BY DEF CacheTrue
<1>1. CASE cache'[k] \in {cache[k], Absent}
  <2>1. cache[k] # Absent /\ cache'[k] = cache[k] /\ cache[k] \in Mutations
    BY <1>1 DEF IdemInv, IdemTypeOK
  <2>2. Stored(cache[k], k)
    BY <2>1 DEF IdemInv, CacheTrue
  <2>3. \A q \in Mutations : Stored(q, k) => Stored(q, k)'
    BY StoredStays DEF IdemInv
  <2> QED BY <2>1, <2>2, <2>3 DEF Stored
<1>2. ASSUME NEW r \in Mutations, Keep(r), k = key[r], cache'[k] = r
      PROVE  Stored(cache[k], k)'
  <2>1. phase'[r] = "over" /\ key'[r] = k /\ status'[r] \in Storable
    BY <1>2 DEF IdemInv, IdemTypeOK, Keep, Go
  <2>2. reply'[r] = r
    BY <1>2 DEF IdemInv, Progress, Keep
  <2> QED BY <1>2, <2>1, <2>2 DEF Stored
<1> QED BY <1>1, <1>2, EntryMoves DEF IdemInv

LEMMA NextReplies ==
    ASSUME IdemInv, [IdemNext]_idemVars
    PROVE  RepliesTrue'
<1> SUFFICES ASSUME NEW r \in Mutations, NEW q \in Mutations, reply'[r] = q, q # r
             PROVE  phase'[r] = "over" /\ Stored(q, key[r])'
  BY DEF RepliesTrue
<1>1. CASE reply'[r] = reply[r]
  <2>1. phase[r] = "over" /\ Stored(q, key[r])
    BY <1>1 DEF IdemInv, RepliesTrue
  <2>2. phase'[r] = "over" /\ key'[r] = key[r]
    BY <2>1, OverStays DEF IdemInv
  <2>3. phase'[q] = "over" /\ key'[q] = key[q] /\ status'[q] = status[q] /\ reply'[q] = reply[q]
    BY <2>1, OverStays DEF IdemInv, Stored
  <2> QED BY <2>1, <2>2, <2>3 DEF Stored
<1>2. CASE /\ phase[r] = "lookup" /\ key[r] \in IdemKeys
           /\ cache[key[r]] # Absent /\ reply'[r] = cache[key[r]]
           /\ phase'[r] = "over" /\ key'[r] = key[r]
  <2>1. Stored(q, key[r])
    BY <1>2 DEF IdemInv, CacheTrue
  <2>2. phase'[q] = "over" /\ key'[q] = key[q] /\ status'[q] = status[q] /\ reply'[q] = reply[q]
    BY <2>1, OverStays DEF IdemInv, Stored
  <2> QED BY <1>2, <2>1, <2>2 DEF Stored
<1> QED BY <1>1, <1>2, ReplyMoves DEF IdemInv

-----------------------------------------------------------------------------
(* What is over and kept is found.                                         *)

LEMMA NextEarlier ==
    ASSUME IdemInv, [IdemNext]_idemVars
    PROVE  EarlierOver'
<1> SUFFICES ASSUME NEW r \in Mutations, NEW q \in earlier'[r] PROVE phase'[q] = "over"
  BY DEF EarlierOver
<1>1. q \in earlier[r] \/ q \in Finished
  BY DEF IdemInv, IdemTypeOK, IdemNext, Send, Replay, Miss, LookupFails, Answer, Keep, NotKept, Expire,
         Crash, idemVars
<1>2. q \in Mutations /\ phase[q] = "over"
  BY <1>1 DEF IdemInv, IdemTypeOK, EarlierOver, Finished
<1> QED BY <1>2, OverStays DEF IdemInv

\* A request that comes to be over leaves an entry for its key, or is gone.
LEMMA NextKept ==
    ASSUME IdemInv, [IdemNext]_idemVars
    PROVE  KeptFound'
<1> SUFFICES ASSUME backend' = "redis", NEW q \in Mutations, phase'[q] = "over", q \notin gone'
             PROVE  cache'[key'[q]] # Absent
  BY DEF KeptFound
<1>1. backend = "redis"
  BY DEF IdemNext, Send, Replay, Miss, LookupFails, Answer, Keep, NotKept, Expire, Crash, idemVars
<1>2. phase[q] = "over" /\ q \notin gone => cache[key[q]] # Absent
  BY <1>1 DEF IdemInv, KeptFound
<1>3. ASSUME NEW r \in Mutations, NEW k \in IdemKeys, Send(r, k) PROVE cache'[key'[q]] # Absent
  <2>1. phase[q] = "over" /\ q # r
    BY <1>3 DEF IdemInv, IdemTypeOK, Send, Go
  <2> QED BY <1>2, <1>3, <2>1 DEF IdemInv, IdemTypeOK, Send
<1>4. ASSUME NEW r \in Mutations, Replay(r) PROVE cache'[key'[q]] # Absent
  <2>1. q = r \/ phase[q] = "over"
    BY <1>4 DEF IdemInv, IdemTypeOK, Replay, Go
  <2> QED BY <1>2, <1>4, <2>1 DEF Replay, Found
<1>5. ASSUME NEW r \in Mutations, Miss(r) PROVE cache'[key'[q]] # Absent
  <2>1. phase[q] = "over"
    BY <1>5 DEF IdemInv, IdemTypeOK, Miss, Go
  <2> QED BY <1>2, <1>5, <2>1 DEF Miss
<1>6. ASSUME NEW r \in Mutations, NEW s \in Statuses, Answer(r, s) PROVE cache'[key'[q]] # Absent
  <2>1. phase[q] = "over"
    BY <1>6 DEF IdemInv, IdemTypeOK, Answer, Go
  <2> QED BY <1>2, <1>6, <2>1 DEF Answer
<1>7. ASSUME NEW r \in Mutations, LookupFails(r) \/ NotKept(r) PROVE cache'[key'[q]] # Absent
  <2>1. phase[q] = "over"
    BY <1>7 DEF IdemInv, IdemTypeOK, LookupFails, NotKept, Go
  <2> QED BY <1>2, <1>7, <2>1 DEF LookupFails, NotKept
<1>8. ASSUME NEW r \in Mutations, Keep(r) PROVE cache'[key'[q]] # Absent
  <2>1. key[r] \in IdemKeys /\ key' = key /\ gone' = gone /\ r # Absent
    BY <1>8, IdempotencyAssumption DEF IdemInv, Progress, Keep
  <2>2. q = r \/ phase[q] = "over"
    BY <1>8 DEF IdemInv, IdemTypeOK, Keep, Go
  <2>3. cache'[key[r]] = r
    BY <1>8, <2>1 DEF IdemInv, IdemTypeOK, Keep
  <2>4. key[q] # key[r] => q # r /\ cache'[key[q]] = cache[key[q]]
    BY <1>8, <2>2, <2>1 DEF IdemInv, IdemTypeOK, Progress, Keep
  <2> QED BY <1>2, <2>1, <2>2, <2>3, <2>4
<1>9. ASSUME NEW k \in IdemKeys, Expire(k) PROVE cache'[key'[q]] # Absent
  <2>1. phase[q] = "over" /\ q \notin gone /\ key[q] # k /\ key' = key
    BY <1>9 DEF Expire, Finished
  <2>2. key[q] \in IdemKeys
    BY <2>1 DEF IdemInv, Progress
  <2>3. cache'[key[q]] = cache[key[q]]
    BY <1>9, <2>1, <2>2 DEF IdemInv, IdemTypeOK, Expire
  <2> QED BY <1>2, <2>1, <2>3
<1>10. CASE Crash
  <2>1. phase[q] = "over" /\ q \notin gone /\ cache' = cache /\ key' = key
    BY <1>1, <1>10 DEF IdemInv, IdemTypeOK, Crash
  <2> QED BY <1>2, <2>1
<1>11. CASE UNCHANGED idemVars
  BY <1>2, <1>11 DEF idemVars
<1> QED BY <1>3, <1>4, <1>5, <1>6, <1>7, <1>8, <1>9, <1>10, <1>11 DEF IdemNext

LEMMA IdemInitInv == IdemInit => IdemInv
<1> SUFFICES ASSUME IdemInit PROVE IdemInv
  OBVIOUS
<1>1. IdemTypeOK /\ Progress
  BY IdemInitType
<1>2. CacheTrue /\ EarlierOver /\ KeptFound
  BY DEF IdemInit, CacheTrue, EarlierOver, KeptFound
<1>3. RepliesTrue
  BY IdempotencyAssumption DEF IdemInit, RepliesTrue
<1> QED BY <1>1, <1>2, <1>3 DEF IdemInv

LEMMA IdemNextInv == IdemInv /\ [IdemNext]_idemVars => IdemInv'
<1> SUFFICES ASSUME IdemInv, [IdemNext]_idemVars PROVE IdemInv'
  OBVIOUS
<1>1. IdemTypeOK' /\ Progress'
  BY IdemNextType DEF IdemInv
<1> QED BY <1>1, NextCache, NextReplies, NextEarlier, NextKept DEF IdemInv

-----------------------------------------------------------------------------

\* For any number of requests and keys, with either store, failures of the store and
\* crashes, a replayed response is the answer that the application gave an earlier request
\* of the same key, and no error.
THEOREM ReplaysTrue == IdemSpec => []ReplayTrue
<1>1. IdemInv => ReplayTrue
  BY DEF IdemInv, RepliesTrue, Stored, ReplayTrue
<1> QED BY IdemInitInv, IdemNextInv, <1>1, PTL DEF IdemSpec

\* The action of SequentialOnce.
Once == backend = "redis" =>
          \A r \in Mutations : phase[r] = "lookup" /\ phase'[r] = "running" =>
              \A q \in earlier[r] : key[q] = key[r] => q \in gone

\* With Redis, for any number of requests and keys, a request is run after another of its key
\* is over only if that one's response was not kept or has expired.
THEOREM OnlyOverlapsRunTwice == IdemSpec => SequentialOnce
<1>1. IdemInv /\ [IdemNext]_idemVars => Once
  <2> SUFFICES ASSUME IdemInv, [IdemNext]_idemVars, backend = "redis", NEW r \in Mutations,
                      phase[r] = "lookup", phase'[r] = "running",
                      NEW q \in earlier[r], key[q] = key[r]
               PROVE  q \in gone
    BY DEF Once
  <2>1. q \in Mutations /\ phase[q] = "over"
    BY DEF IdemInv, IdemTypeOK, EarlierOver
  <2>2. Miss(r)
    BY DEF IdemInv, IdemTypeOK, IdemNext, Send, Replay, Miss, LookupFails, Answer, Keep, NotKept, Expire,
           Crash, idemVars, Go
  <2>3. cache[key[q]] = Absent
    BY <2>2 DEF Miss, Found, Readable
  <2> QED BY <2>1, <2>3 DEF IdemInv, KeptFound
<1>2. IdemInv /\ [IdemNext]_idemVars => [Once]_idemVars
  BY <1>1
<1> QED BY IdemInitInv, IdemNextInv, <1>2, PTL DEF IdemSpec, SequentialOnce, Once
=============================================================================
