------------------------------ MODULE BanStore ------------------------------
(***************************************************************************)
(* The ban registry of SecurityStorage (src/src/security/storage.py) as    *)
(* it is reached through BanList and the admin handlers: a SQLite table    *)
(* shared by every uvicorn worker, and in each worker a dictionary that is *)
(* the only thing a request is checked against.                            *)
(*                                                                         *)
(* Every coroutine that writes the registry awaits the database between    *)
(* its commit and its update of the dictionary, so a write is three steps  *)
(* here: it begins, it commits (the SQLite transaction), and it applies    *)
(* (the code that resumes on the event loop).  A reload of the dictionary  *)
(* clears, selects and fills.  Code between two awaits is one step.        *)
(***************************************************************************)
EXTENDS Naturals

CONSTANTS Entities,    \* the (type, identifier) pairs that are banned and unbanned
          Workers,     \* the uvicorn worker processes, each with its own dictionary
          Slots,       \* bound: how many coroutines are in flight at once
          Durations,   \* the duration_seconds an administrator sends; 0 also stands for none
          MaxTime,     \* bound: the last instant of the clock
          Reloads,     \* bound: whether databases or webhooks are edited, which reloads
          Crashes,     \* bound: whether a worker may crash and be started again
          Never,       \* expires_at of a permanent ban (NULL)
          NoBan        \* no row, no dictionary entry

ASSUME BanStoreAssumption ==
    /\ Durations \subseteq Nat
    /\ MaxTime \in Nat
    /\ Reloads \in BOOLEAN
    /\ Crashes \in BOOLEAN
    /\ Never \notin Nat
    /\ NoBan \notin Nat
    /\ Never # NoBan

VARIABLES now,      \* time.time()
          db,       \* the bans table: expires_at of each entity
          cache,    \* _bans_cache_ip and _bans_cache_key of each worker
          up,       \* whether a worker has finished its startup
          task,     \* the coroutines in flight
          alone     \* history: the entities whose every write, since the worker
                    \* last agreed with the table, ran at this worker and by itself

vars == <<now, db, cache, up, task, alone>>

Expiry == Nat \cup {Never}
Entry  == Expiry \cup {NoBan}

NoEntries == [e \in Entities |-> NoBan]

-----------------------------------------------------------------------------
(* Coroutines in flight.                                                   *)

WriteKinds == {"ban", "unban", "cleanup"}

\* ban_entity and unban_entity; "cleanup" is the unban_entity that check_ban forks.
\* exp is the expiry a ban writes, hit is cursor.rowcount > 0 of an unban.
Write == [kind : WriteKinds, w : Workers, e : Entities,
          committed : BOOLEAN, exp : Entry, hit : BOOLEAN]

\* _load_bans.  at is the time it read before clearing, rows what its SELECT returned;
\* fresh (history) is the set of entities no write has touched since it began.
Reload == [kind : {"reload"}, w : Workers, selected : BOOLEAN, at : Nat,
           rows : [Entities -> Entry], fresh : SUBSET Entities]

Free == [kind |-> "free"]

TypeOK ==
    /\ now \in Nat
    /\ db \in [Entities -> Entry]
    /\ cache \in [Workers -> [Entities -> Entry]]
    /\ up \in [Workers -> BOOLEAN]
    /\ task \in [Slots -> Write \cup Reload \cup {Free}]
    /\ alone \in [Workers -> SUBSET Entities]

IsFree(t)   == task[t].kind = "free"
IsReload(t) == task[t].kind = "reload"
IsWrite(t)  == task[t].kind \in WriteKinds

\* t may still change what worker w holds of e, or the row of e.
Touches(t, w, e) ==
    \/ IsWrite(t) /\ task[t].e = e
    \/ IsReload(t) /\ task[t].w = w

Quiet(w, e) == \A t \in Slots : ~Touches(t, w, e)

\* History: no write of e is in flight, nor was while the reloads of w in flight ran.
Undisturbed(w, e) ==
    \A t \in Slots : /\ IsWrite(t) => task[t].e # e
                     /\ IsReload(t) /\ task[t].w = w => e \in task[t].fresh

Expired(x) == x \in Nat /\ now > x

\* An expired entry refuses nobody: check_ban treats it as no entry.
Live(x) == IF Expired(x) THEN NoBan ELSE x

\* What check_ban answers at worker w.
Refused(w, e) == up[w] /\ cache[w][e] # NoBan /\ ~Expired(cache[w][e])

Init ==
    /\ now = 0
    /\ db = NoEntries
    /\ cache = [w \in Workers |-> NoEntries]
    /\ up = [w \in Workers |-> TRUE]
    /\ task = [t \in Slots |-> Free]
    /\ alone = [w \in Workers |-> Entities]

-----------------------------------------------------------------------------
(* Beginning a coroutine.                                                  *)

\* History: a write of e begins at w.  It is alone only if nothing else touches e.
Disturb(w, e) ==
    alone' = [v \in Workers |->
                IF v = w /\ Quiet(w, e) THEN alone[v] ELSE alone[v] \ {e}]

NewWrite(kind, w, e, exp) ==
    [kind |-> kind, w |-> w, e |-> e, committed |-> FALSE, exp |-> exp, hit |-> FALSE]

\* History: what the coroutine in slot s becomes when a write of e begins.
Overlapped(s, e) ==
    IF IsReload(s) THEN [task[s] EXCEPT !.fresh = @ \ {e}] ELSE task[s]

\* Puts a new write in slot t.
Fork(t, kind, w, e, exp) ==
    /\ IsFree(t)
    /\ task' = [s \in Slots |-> IF s = t THEN NewWrite(kind, w, e, exp)
                              ELSE Overlapped(s, e)]
    /\ Disturb(w, e)

\* `if duration_seconds` is false of 0 as it is of None: such a ban is permanent.
ExpiresAt(d) == IF d = 0 THEN Never ELSE now + d

\* POST /bans/ip, POST /bans/key: ban_entity up to its first await.
BeginBan(w, e, t, d) ==
    /\ up[w]
    /\ Fork(t, "ban", w, e, ExpiresAt(d))
    /\ UNCHANGED <<now, db, cache, up>>

\* DELETE /bans/ip/{ip}, DELETE /bans/key/{key_name}: unban_entity up to its first await.
BeginUnban(w, e, t) ==
    /\ up[w]
    /\ Fork(t, "unban", w, e, NoBan)
    /\ UNCHANGED <<now, db, cache, up>>

\* check_ban on an entry that has expired: drop it and fork the removal of its row.
\* (On any other entry check_ban changes nothing.)
CheckExpired(w, e, t) ==
    /\ up[w]
    /\ Expired(cache[w][e])
    /\ cache' = [cache EXCEPT ![w][e] = NoBan]
    /\ Fork(t, "cleanup", w, e, NoBan)
    /\ UNCHANGED <<now, db, up>>

\* _load_bans up to its SELECT: the dictionary is emptied.  It runs when a database or
\* webhook is added or updated, and in the startup of a worker that is not up.
BeginReload(w, t) ==
    /\ up[w] => Reloads
    /\ ~up[w] => \A s \in Slots : IsReload(s) => task[s].w # w
    /\ IsFree(t)
    /\ LET fresh == {e \in Entities : Undisturbed(w, e)}
       IN  /\ task' = [task EXCEPT ![t] =
                         [kind |-> "reload", w |-> w, selected |-> FALSE, at |-> now,
                          rows |-> NoEntries, fresh |-> fresh]]
           /\ alone' = [alone EXCEPT ![w] = @ \cap fresh]
    /\ cache' = [cache EXCEPT ![w] = NoEntries]
    /\ UNCHANGED <<now, db, up>>

-----------------------------------------------------------------------------
(* The steps of a coroutine.                                               *)

\* The transaction of a ban: INSERT OR REPLACE, commit.
CommitBan(t) ==
    /\ task[t].kind = "ban"
    /\ ~task[t].committed
    /\ db' = [db EXCEPT ![task[t].e] = task[t].exp]
    /\ task' = [task EXCEPT ![t].committed = TRUE]
    /\ UNCHANGED <<now, cache, up, alone>>

\* The transaction of an unban or of a lazy cleanup: DELETE, commit.
CommitUnban(t) ==
    /\ task[t].kind \in {"unban", "cleanup"}
    /\ ~task[t].committed
    /\ db' = [db EXCEPT ![task[t].e] = NoBan]
    /\ task' = [task EXCEPT ![t].committed = TRUE, ![t].hit = db[task[t].e] # NoBan]
    /\ UNCHANGED <<now, cache, up, alone>>

\* Mutant: the dictionary entry is written without its expiry.
ApplyBan_drops_expiry(t) ==
    /\ task[t].kind = "ban"
    /\ task[t].committed
    /\ cache' = [cache EXCEPT ![task[t].w][task[t].e] = Never]
    /\ task' = [task EXCEPT ![t] = Free]
    /\ UNCHANGED <<now, db, up, alone>>

\* ban_entity resumes, fills the dictionary and returns to the administrator.
ApplyBan(t) ==
    /\ task[t].kind = "ban"
    /\ task[t].committed
    /\ cache' = [cache EXCEPT ![task[t].w][task[t].e] = task[t].exp]
    /\ task' = [task EXCEPT ![t] = Free]
    /\ UNCHANGED <<now, db, up, alone>>

\* unban_entity resumes: it drops the entry only if its DELETE found a row.
ApplyUnban(t) ==
    /\ task[t].kind \in {"unban", "cleanup"}
    /\ task[t].committed
    /\ cache' = IF task[t].hit
                THEN [cache EXCEPT ![task[t].w][task[t].e] = NoBan]
                ELSE cache
    /\ task' = [task EXCEPT ![t] = Free]
    /\ UNCHANGED <<now, db, up, alone>>

\* The SELECT of _load_bans.
SelectRows(t) ==
    /\ IsReload(t)
    /\ ~task[t].selected
    /\ task' = [task EXCEPT ![t].selected = TRUE, ![t].rows = db]
    /\ UNCHANGED <<now, db, cache, up, alone>>

\* Mutant: a NULL expiry is taken for one that has passed.
FillCache_skips_permanent(t) ==
    /\ IsReload(t)
    /\ task[t].selected
    /\ LET w    == task[t].w
           x(e) == task[t].rows[e]
           kept == {e \in Entities : x(e) \in Nat /\ task[t].at <= x(e)}
       IN  /\ cache' = [cache EXCEPT ![w] =
                          [e \in Entities |-> IF e \in kept THEN x(e) ELSE cache[w][e]]]
           /\ up' = [up EXCEPT ![w] = TRUE]
           /\ alone' = [alone EXCEPT ![w] = @ \cup task[t].fresh]
    /\ task' = [task EXCEPT ![t] = Free]
    /\ UNCHANGED <<now, db>>

\* The rows that had not expired when the reload began enter the dictionary.
FillCache(t) ==
    /\ IsReload(t)
    /\ task[t].selected
    /\ LET w    == task[t].w
           x(e) == task[t].rows[e]
           kept == {e \in Entities : x(e) # NoBan /\ ~(x(e) \in Nat /\ task[t].at > x(e))}
       IN  /\ cache' = [cache EXCEPT ![w] =
                          [e \in Entities |-> IF e \in kept THEN x(e) ELSE cache[w][e]]]
           /\ up' = [up EXCEPT ![w] = TRUE]
           /\ alone' = [alone EXCEPT ![w] = @ \cup task[t].fresh]
    /\ task' = [task EXCEPT ![t] = Free]
    /\ UNCHANGED <<now, db>>

\* The database is locked or the disk fails: the coroutine ends before its transaction.
\* A reload that fails leaves the dictionary as it cleared it.
Fail(t) ==
    /\ \/ IsWrite(t) /\ ~task[t].committed
       \/ IsReload(t) /\ ~task[t].selected
    /\ task' = [task EXCEPT ![t] = Free]
    /\ alone' = IF IsReload(t) THEN [alone EXCEPT ![task[t].w] = {}] ELSE alone
    /\ UNCHANGED <<now, db, cache, up>>

-----------------------------------------------------------------------------

\* The worker process dies: its coroutines and its dictionary are gone.
Crash(w) ==
    /\ Crashes
    /\ up[w]
    /\ up' = [up EXCEPT ![w] = FALSE]
    /\ cache' = [cache EXCEPT ![w] = NoEntries]
    /\ task' = [t \in Slots |-> IF ~IsFree(t) /\ task[t].w = w THEN Free ELSE task[t]]
    /\ alone' = [alone EXCEPT ![w] = {}]
    /\ UNCHANGED <<now, db>>

Tick ==
    /\ now < MaxTime
    /\ now' = now + 1
    /\ UNCHANGED <<db, cache, up, task, alone>>

Step(t) ==
    \/ CommitBan(t) \/ CommitUnban(t) \/ ApplyBan(t) \/ ApplyUnban(t)
    \/ SelectRows(t) \/ FillCache(t)

Next ==
    \/ \E w \in Workers, e \in Entities, t \in Slots, d \in Durations : BeginBan(w, e, t, d)
    \/ \E w \in Workers, e \in Entities, t \in Slots : BeginUnban(w, e, t)
    \/ \E w \in Workers, e \in Entities, t \in Slots : CheckExpired(w, e, t)
    \/ \E w \in Workers, t \in Slots : BeginReload(w, t)
    \/ \E t \in Slots : Step(t) \/ Fail(t)
    \/ \E w \in Workers : Crash(w)
    \/ Tick

Spec == Init /\ [][Next]_vars

\* The event loop and aiosqlite's thread resume every coroutine that can go on.
FairSpec == Spec /\ \A t \in Slots : WF_vars(Step(t))

-----------------------------------------------------------------------------
(* Properties.                                                             *)

\* The dictionary of a worker and the table agree, up to expired bans, on every entity
\* that has only been written one coroutine at a time through that worker.  Divergence
\* needs an overlap; a reload or a restart that overlaps no write repairs it.
Agree(w, e) == Live(cache[w][e]) = Live(db[e])

AloneAgrees ==
    \A w \in Workers, e \in Entities :
        up[w] /\ e \in alone[w] /\ Quiet(w, e) => Agree(w, e)

\* A permanent row that nobody else is writing is enforced in the end: the window in which
\* a reload has emptied the dictionary always closes (unless the reload fails).
RowEnforced(w, e) == db[e] = Never /\ e \in alone[w] /\ up[w]
RowEventuallyEnforced ==
    \A w \in Workers, e \in Entities :
        RowEnforced(w, e) ~> (Refused(w, e) \/ ~RowEnforced(w, e))

-----------------------------------------------------------------------------
(* Why AloneAgrees holds: what it says of the states in between.           *)

\* A write of an entity that is alone at w runs at w, overlaps nothing, and finds the
\* dictionary and the table in agreement until it commits.
AloneWrite(w, e, t) ==
    IsWrite(t) /\ task[t].e = e =>
        /\ task[t].w = w
        /\ \A s \in Slots \ {t} : ~Touches(s, w, e)
        /\ ~task[t].committed => Agree(w, e)
        /\ task[t].committed /\ task[t].kind = "ban" => db[e] = task[t].exp
        /\ task[t].committed /\ task[t].kind # "ban" =>
             db[e] = NoBan /\ (task[t].hit \/ Live(cache[w][e]) = NoBan)

AloneStates ==
    \A w \in Workers, t \in Slots : \A e \in alone[w] :
        /\ AloneWrite(w, e, t)
        /\ IsReload(t) /\ task[t].w = w => e \in task[t].fresh

\* What a reload has read of a fresh entity is still the row, and what the dictionary
\* holds of it meanwhile is nothing or right.
FreshRow(t, e) ==
    /\ \A s \in Slots : IsWrite(s) => task[s].e # e
    /\ \A s \in Slots : IsReload(s) /\ task[s].w = task[t].w => e \in task[s].fresh
    /\ task[t].selected => task[t].rows[e] = db[e]
    /\ cache[task[t].w][e] = NoBan \/ Agree(task[t].w, e)

FreshStates ==
    \A t \in Slots : IsReload(t) =>
        task[t].at <= now /\ \A e \in task[t].fresh : FreshRow(t, e)

\* The inductive invariant.
Inv == TypeOK /\ AloneStates /\ FreshStates /\ AloneAgrees
=============================================================================
