----------------------------- MODULE Idempotency -----------------------------
(***************************************************************************)
(* IdempotencyMiddleware (src/src/server/middleware/idempotency.py) around *)
(* the rest of the application: a mutating request that carries a key is   *)
(* looked up, run if nothing was found, answered, and its response stored. *)
(* The client has its answer before the response is stored, and nothing    *)
(* marks a key whose request is still running.                             *)
(*                                                                         *)
(* A response is known by the request that was run for it.  Requests       *)
(* without a key pass through and are not modelled.                        *)
(*                                                                         *)
(* The initial predicate and its like are named for idempotency:           *)
(* MiddlewareProofs extends this module together with RateLimit.           *)
(***************************************************************************)
EXTENDS Naturals

CONSTANTS Mutations,  \* bound: the mutating requests clients send with a key
          IdemKeys,   \* the values of X-Idempotency-Key
          Absent      \* no key, no response

ASSUME IdempotencyAssumption == Absent \notin Mutations /\ Absent \notin IdemKeys

VARIABLES backend,  \* _get_fn and _set_fn of CacheManager, chosen at import
          cache,    \* the entry of each key: the request whose response it holds
          phase,    \* where the middleware is with each request
          key,      \* the key each request carries
          status,   \* what the application answered
          reply,    \* the request whose response the client was sent
          earlier,  \* history: the requests that were over when this one was sent
          gone      \* history: requests whose response was not kept, or is not any more

idemVars == <<backend, cache, phase, key, status, reply, earlier, gone>>

\* Of the statuses, a refusal is any below 500 that is no success, the 429 of the rate limiter
\* inside included; an empty response has no body.
Storable == {"success", "refusal"}
Statuses == Storable \cup {"empty", "error"}

IdemTypeOK ==
    /\ backend \in {"memory", "redis"}
    /\ cache \in [IdemKeys -> Mutations \cup {Absent}]
    /\ phase \in [Mutations -> {"unsent", "lookup", "running", "answered", "over"}]
    /\ key \in [Mutations -> IdemKeys \cup {Absent}]
    /\ status \in [Mutations -> {"none"} \cup Statuses]
    /\ reply \in [Mutations -> Mutations \cup {Absent}]
    /\ earlier \in [Mutations -> SUBSET Mutations]
    /\ gone \subseteq Mutations

\* CacheManager knows two stores: cache.backend = "sqlite" gives the memory one.
IdemInit ==
    /\ backend \in {"memory", "redis"}
    /\ cache = [k \in IdemKeys |-> Absent]
    /\ phase = [r \in Mutations |-> "unsent"]
    /\ key = [r \in Mutations |-> Absent]
    /\ status = [r \in Mutations |-> "none"]
    /\ reply = [r \in Mutations |-> Absent]
    /\ earlier = [r \in Mutations |-> {}]
    /\ gone = {}

Go(r, to) == phase' = [phase EXCEPT ![r] = to]

Finished == {r \in Mutations : phase[r] = "over"}

\* A client sends a request, for the first time or again.
Send(r, k) ==
    /\ phase[r] = "unsent"
    /\ Go(r, "lookup")
    /\ key' = [key EXCEPT ![r] = k]
    /\ earlier' = [earlier EXCEPT ![r] = Finished]
    /\ UNCHANGED <<backend, cache, status, reply, gone>>

-----------------------------------------------------------------------------
(* The lookup.                                                             *)

\* _serve_cached_response can read what the store gives back: Redis parses the JSON, the
\* memory store returns the bytes, whose items are numbers, and the exception is swallowed.
Readable == backend = "redis"

\* Mutant: only a success is replayed.
Found_success(r) == cache[key[r]] # Absent /\ Readable /\ status[cache[key[r]]] = "success"

Found(r) == cache[key[r]] # Absent /\ Readable

Replay(r) ==
    /\ phase[r] = "lookup" /\ Found(r)
    /\ reply' = [reply EXCEPT ![r] = cache[key[r]]]
    /\ Go(r, "over")
    /\ UNCHANGED <<backend, cache, key, status, earlier, gone>>

Miss(r) ==
    /\ phase[r] = "lookup" /\ ~Found(r)
    /\ Go(r, "running")
    /\ UNCHANGED <<backend, cache, key, status, reply, earlier, gone>>

\* Redis cannot be reached: get raises, and so does the middleware.
LookupFails(r) ==
    /\ phase[r] = "lookup" /\ backend = "redis"
    /\ Go(r, "over")
    /\ gone' = gone \cup {r}
    /\ UNCHANGED <<backend, cache, key, status, reply, earlier>>

-----------------------------------------------------------------------------
(* The application, and the store of its response.                         *)

Answer(r, s) ==
    /\ phase[r] = "running"
    /\ Go(r, "answered")
    /\ status' = [status EXCEPT ![r] = s]
    /\ reply' = [reply EXCEPT ![r] = r]
    /\ UNCHANGED <<backend, cache, key, earlier, gone>>

\* Mutant: errors are stored too.
Keep_errors(r) ==
    /\ phase[r] = "answered"
    /\ cache' = [cache EXCEPT ![key[r]] = r]
    /\ Go(r, "over")
    /\ UNCHANGED <<backend, key, status, reply, earlier, gone>>

Keep(r) ==
    /\ phase[r] = "answered" /\ status[r] \in Storable
    /\ cache' = [cache EXCEPT ![key[r]] = r]
    /\ Go(r, "over")
    /\ UNCHANGED <<backend, key, status, reply, earlier, gone>>

\* An error is not stored, nor an empty response, nor one the store refuses: _cache_response
\* swallows that.
NotKept(r) ==
    /\ phase[r] = "answered" /\ (status[r] \notin Storable \/ backend = "redis")
    /\ Go(r, "over")
    /\ gone' = gone \cup {r}
    /\ UNCHANGED <<backend, cache, key, status, reply, earlier>>

-----------------------------------------------------------------------------
(* Around it.                                                              *)

\* The entry of k has lived for cache.idempotency_ttl, or default_ttl in the memory store.
Expire(k) ==
    /\ cache[k] # Absent
    /\ cache' = [cache EXCEPT ![k] = Absent]
    /\ gone' = gone \cup {r \in Finished : key[r] = k}
    /\ UNCHANGED <<backend, phase, key, status, reply, earlier>>

\* The process dies: requests in it end where they are, and with the memory store every entry.
Crash ==
    LET inside == {r \in Mutations : phase[r] \in {"lookup", "running", "answered"}}
    IN  /\ inside # {}
        /\ phase' = [r \in Mutations |-> IF r \in inside THEN "over" ELSE phase[r]]
        /\ IF backend = "memory"
           THEN /\ cache' = [k \in IdemKeys |-> Absent]
                /\ gone' = gone \cup inside \cup Finished
           ELSE /\ gone' = gone \cup inside
                /\ UNCHANGED cache
        /\ UNCHANGED <<backend, key, status, reply, earlier>>

IdemNext ==
    \/ \E r \in Mutations :
         \/ \E k \in IdemKeys : Send(r, k)
         \/ Replay(r) \/ Miss(r) \/ LookupFails(r)
         \/ \E s \in Statuses : Answer(r, s)
         \/ Keep(r) \/ NotKept(r)
    \/ \E k \in IdemKeys : Expire(k)
    \/ Crash

IdemSpec == IdemInit /\ [][IdemNext]_idemVars

-----------------------------------------------------------------------------
(* Properties.                                                             *)

\* A replayed response is the one an earlier request of the same key was given by the
\* application itself, and not an error (_cache_response and _serve_cached_response).
ReplayTrue ==
    \A r, q \in Mutations :
        reply[r] = q /\ q # r =>
            /\ key[q] = key[r] /\ reply[q] = q
            /\ status[q] \in Storable

\* With Redis a request is not run if one of its key was over before it was sent, unless that
\* one's response was not kept or has expired: only requests that overlap run twice.
SequentialOnce ==
    [][backend = "redis" =>
         \A r \in Mutations : phase[r] = "lookup" /\ phase'[r] = "running" =>
             \A q \in earlier[r] : key[q] = key[r] => q \in gone]_idemVars

-----------------------------------------------------------------------------
(* Why they hold.                                                          *)

\* A request has its key once it is sent, no reply before it is answered, and its own
\* response while that is being stored.
Progress ==
    \A r \in Mutations :
        /\ phase[r] # "unsent" => key[r] \in IdemKeys
        /\ phase[r] \in {"unsent", "lookup", "running"} => reply[r] = Absent
        /\ phase[r] = "answered" => reply[r] = r

\* q has ended with a response of its own, of key k, which is no error; nothing changes it.
Stored(q, k) ==
    /\ phase[q] = "over" /\ key[q] = k /\ reply[q] = q
    /\ status[q] \in Storable

CacheTrue == \A k \in IdemKeys : cache[k] # Absent => Stored(cache[k], k)

RepliesTrue ==
    \A r, q \in Mutations :
        reply[r] = q /\ q # r => phase[r] = "over" /\ Stored(q, key[r])

\* The requests that were over still are.
EarlierOver == \A r \in Mutations : \A q \in earlier[r] : phase[q] = "over"

\* Redis holds a response for the key of every request that is over and not gone.
KeptFound ==
    backend = "redis" =>
        \A q \in Mutations : phase[q] = "over" /\ q \notin gone => cache[key[q]] # Absent

\* The inductive invariant.
IdemInv == IdemTypeOK /\ Progress /\ CacheTrue /\ RepliesTrue /\ EarlierOver /\ KeptFound
=============================================================================
