------------------------------ MODULE Database ------------------------------
(***************************************************************************)
(* Database requests in one worker process: the handlers and the query     *)
(* pipeline (src/src/api/database/handlers.py), the validator              *)
(* (query_parser.py), the pools of engines (src/src/db/pool.py,            *)
(* src/src/db/engines/sqlite.py), the cache of query results and schemas,  *)
(* and the ways in which the definition of a database changes under them:  *)
(* an administrator (src/src/api/admin/handlers.py), a reload of           *)
(* config.toml, a restart.                                                 *)
(*                                                                         *)
(* A definition is named by the store that its url leads to.  Statements   *)
(* are classes: what the parser makes of them, what they begin with, and   *)
(* whether they write and return rows.  Requests outside the scope of      *)
(* their key are refused first and are left out.                           *)
(***************************************************************************)
EXTENDS Naturals

CONSTANTS DBs,         \* names of databases
          Stores,      \* the databases behind them
          Permissive,  \* the stores whose definition has dangerous_operations
          Toml,        \* what config.toml defines: [DBs -> Stores \cup {None}]
          Earlier,     \* bound: what the table databases may hold at the start
          Clients,     \* bound: the requests of clients
          Sends,       \* bound: what they may send
          Admins,      \* bound: the requests of administrators about databases
          Hooks,       \* bound: those about webhooks
          MaxRows,     \* bound: the rows of one insert
          Reloads,     \* bound: whether config.toml is touched and the process restarted
          Failing,     \* bound: whether statements, connections and reloads fail
          None

Requests == Clients \cup Admins \cup Hooks

ASSUME DatabaseAssumption ==
    /\ DBs # {}
    /\ Permissive \subseteq Stores
    /\ Toml \in [DBs -> Stores \cup {None}]
    /\ Earlier \subseteq [DBs -> Stores \cup {None}]
    /\ MaxRows \in Nat \ {0}
    /\ Reloads \in BOOLEAN /\ Failing \in BOOLEAN
    /\ None \notin Stores

VARIABLES row,      \* table databases: the dynamic definitions
          read,     \* the rows that the reload of a request has read
          config,   \* config.database
          engines,  \* DatabasePoolManager._engines, each the store it connects to
          cache,    \* CacheManager, the query and schema entries: the store they came from
          asked,    \* what each request asks for
          task,     \* the requests in flight: the step that is awaited, the engine, the row
          outcome,  \* how each request ended
          answer,   \* the store that the answered rows came from
          events,   \* the webhook events emitted
          data,     \* external: the statements committed in each store, as <<request, row>>
          stale,    \* history: the databases whose definition was changed by config.toml, by a
                    \* reload on behalf of something else, or by one that raised, since their
                    \* engine was removed
          loose,    \* history: the requests that met a database in change, or a stale one
          named     \* history: the stores that each database has been defined as

vars == <<row, read, config, engines, cache, asked, task, outcome, answer, events, data,
          stale, loose, named>>
history == <<stale, loose, named>>

Modes == {"readwrite", "readonly", "writeonly"}

\* "cte" is WITH .. (INSERT ..) SELECT .., "withinsert" is WITH .. INSERT .. RETURNING ..;
\* "insert" stands for UPDATE and DELETE too.
Selects    == {"select", "cte"}
Writes     == {"insert", "withinsert"}
Statements == Selects \cup Writes \cup {"create"}
Cached     == {"select", "cte", "tables"}

\* A request: the endpoint, the database (some one, where it is about a webhook), the statement
\* that is run n times, the key's mode.
Ask == [kind : {"query", "rows", "tables", "write", "define", "drop", "webhook"}, d : DBs,
        stmt : Statements \cup {"tables", "none"}, mode : Modes, n : 1..MaxRows]

\* What each endpoint runs for a client.
Sendable ==
    [kind : {"query"}, stmt : Statements, mode : Modes, n : {1}]
    \cup [kind : {"rows"}, stmt : {"select"}, mode : Modes, n : {1}]
    \cup [kind : {"tables"}, stmt : {"tables"}, mode : Modes, n : {1}]
    \cup [kind : {"write"}, stmt : {"insert"}, mode : Modes, n : 1..MaxRows]

ASSUME SendsAssumption == Sends \subseteq Sendable

Task == [at : {"lookup", "execute", "store", "read", "apply", "remove"},
         engine : Stores \cup {None}, i : 1..MaxRows]

ASSUME NoneAssumption == None \notin Ask \cup Task

TypeOK ==
    /\ row \in [DBs -> Stores \cup {None}]
    /\ read \in [Requests -> [DBs -> Stores \cup {None}]]
    /\ config \in [DBs -> Stores \cup {None}]
    /\ engines \in [DBs -> Stores \cup {None}]
    /\ cache \in [DBs \X Cached -> Stores \cup {None}]
    /\ asked \in [Requests -> Ask \cup {None}]
    /\ task \in [Requests -> Task \cup {None}]
    /\ outcome \in [Requests -> {"none", "ok", "refused", "failed"}]
    /\ answer \in [Requests -> Stores \cup {None}]
    /\ events \subseteq Requests
    /\ data \in [Stores -> SUBSET (Requests \X (1..MaxRows))]
    /\ stale \subseteq DBs
    /\ loose \subseteq Requests
    /\ named \in [DBs -> SUBSET Stores]

\* The dynamic definitions over those of config.toml.
Merged(t) == [d \in DBs |-> IF t[d] # None THEN t[d] ELSE Toml[d]]

Nothing == [d \in DBs |-> None]

Init ==
    /\ row \in Earlier
    /\ read = [r \in Requests |-> Nothing]
    /\ config = Merged(row)
    /\ engines = Nothing
    /\ cache = [k \in DBs \X Cached |-> None]
    /\ asked = [r \in Requests |-> None]
    /\ task = [r \in Requests |-> None]
    /\ outcome = [r \in Requests |-> "none"]
    /\ answer = [r \in Requests |-> None]
    /\ events = {}
    /\ data = [s \in Stores |-> {}]
    /\ stale = {} /\ loose = {}
    /\ named = [d \in DBs |-> {config[d]} \ {None}]

At(r, step) == task[r] # None /\ task[r].at = step
InChange(d) == \E r \in Requests : At(r, "remove") /\ asked[r].d = d

End(r, result) ==
    /\ task' = [task EXCEPT ![r] = None]
    /\ outcome' = [outcome EXCEPT ![r] = result]

-----------------------------------------------------------------------------
(* What may run.                                                           *)

\* The guards of the endpoints, before the engine is looked for.
EndpointAllows(kind, mode) ==
    /\ kind \in {"rows", "tables"} => mode # "writeonly"
    /\ kind = "write" => mode # "readonly"

\* validate_query: the root of the statement against the mode of the key, and its kind
\* against the definition.  A listing of tables is no statement and is not validated.
Valid(stmt, mode, def) ==
    \/ stmt = "tables"
    \/ /\ mode = "readonly" => stmt \in Selects
       /\ mode = "writeonly" => stmt \in Writes
       /\ stmt = "create" => def \in Permissive

\* Mutant: what is executed is committed.
Commits_always(stmt) == stmt \notin {"select", "tables"}

\* execute: a statement that begins with INSERT, CREATE .. is committed; any other one only
\* if it returned no rows.
Commits(stmt) == stmt \in {"insert", "create"}

\* Without a commit WITH .. INSERT is rolled back, except where the driver has opened no
\* transaction for it: sqlite3 of Python opens one only if the text begins with the INSERT.
MayStay(stmt) == Commits(stmt) \/ stmt = "withinsert"

-----------------------------------------------------------------------------
(* get_db_engine and what follows up to the first step that really waits:  *)
(* connect() of every engine returns at once, the driver connects later.   *)

\* The engine is there, and the definition is read once more: none is a KeyError.
Obtain(r, q, engine) ==
    LET def == config[q.d]
    IN  \/ def = None /\ End(r, "failed")
        \/ def # None /\ ~Valid(q.stmt, q.mode, def) /\ End(r, "refused")
        \/ /\ def # None /\ Valid(q.stmt, q.mode, def)
           /\ task' = [task EXCEPT ![r] =
                [at |-> IF q.stmt \in Cached THEN "lookup" ELSE "execute",
                 engine |-> engine, i |-> 1]]
           /\ UNCHANGED outcome

\* An engine of the dictionary, a new one for the definition (which may not be possible:
\* a driver that is not installed), or neither.
Begin(r, kind, d, stmt, mode, n) ==
    /\ asked[r] = None
    /\ EndpointAllows(kind, mode)
    /\ LET q == [kind |-> kind, d |-> d, stmt |-> stmt, mode |-> mode, n |-> n]
       IN  /\ asked' = [asked EXCEPT ![r] = q]
           /\ \/ engines[d] # None /\ Obtain(r, q, engines[d]) /\ UNCHANGED engines
              \/ engines[d] = None /\ config[d] = None /\ End(r, "refused") /\ UNCHANGED engines
              \/ /\ engines[d] = None /\ config[d] # None
                 /\ Obtain(r, q, config[d])
                 /\ engines' = [engines EXCEPT ![d] = config[d]]
              \/ engines[d] = None /\ Failing /\ End(r, "failed") /\ UNCHANGED engines
    /\ loose' = IF d \in stale \/ InChange(d) THEN loose \cup {r} ELSE loose
    /\ UNCHANGED <<row, read, config, cache, answer, events, data, stale, named>>

-----------------------------------------------------------------------------
(* run_query, run_bulk_inserts and the cached introspection.               *)

\* Mutant: the key of the entry leaves out the name of the database.
Lookup_any_database(r) ==
    /\ At(r, "lookup")
    /\ \E d \in DBs :
          LET hit == cache[<<d, asked[r].stmt>>]
          IN  \/ hit # None /\ End(r, "ok") /\ answer' = [answer EXCEPT ![r] = hit]
              \/ /\ hit = None /\ UNCHANGED <<answer, outcome>>
                 /\ task' = [task EXCEPT ![r].at = "execute"]
    /\ UNCHANGED <<row, read, config, engines, cache, asked, events, data, history>>

\* CacheManager.get: a hit is answered, and no event is emitted for it.
Lookup(r) ==
    /\ At(r, "lookup")
    /\ LET hit == cache[<<asked[r].d, asked[r].stmt>>]
       IN  \/ hit # None /\ End(r, "ok") /\ answer' = [answer EXCEPT ![r] = hit]
           \/ /\ hit = None /\ UNCHANGED <<answer, outcome>>
              /\ task' = [task EXCEPT ![r].at = "execute"]
    /\ UNCHANGED <<row, read, config, engines, cache, asked, events, data, history>>

\* The store as the statement of r leaves it; an engine that was disposed connects again.
Commit(r) ==
    \/ /\ MayStay(asked[r].stmt)
       /\ data' = [data EXCEPT ![task[r].engine] = @ \cup {<<r, task[r].i>>}]
    \/ ~Commits(asked[r].stmt) /\ UNCHANGED data

\* Rows were read: the event, and CacheManager.set, which is awaited.
ExecuteRead(r) ==
    /\ At(r, "execute")
    /\ asked[r].stmt \in Cached
    /\ Commit(r)
    /\ events' = IF asked[r].stmt = "tables" THEN events ELSE events \cup {r}
    /\ answer' = [answer EXCEPT ![r] = task[r].engine]
    /\ task' = [task EXCEPT ![r].at = "store"]
    /\ UNCHANGED <<row, read, config, engines, cache, asked, outcome, history>>

Store(r) ==
    /\ At(r, "store")
    /\ cache' = [cache EXCEPT ![<<asked[r].d, asked[r].stmt>>] = task[r].engine]
    /\ End(r, "ok")
    /\ UNCHANGED <<row, read, config, engines, asked, answer, events, data, history>>

\* One row, in a transaction of its own; the event comes after the last.
ExecuteWrite(r) ==
    /\ At(r, "execute")
    /\ asked[r].stmt \notin Cached
    /\ Commit(r)
    /\ \/ /\ task[r].i < asked[r].n
          /\ task' = [task EXCEPT ![r].i = @ + 1]
          /\ UNCHANGED <<events, outcome>>
       \/ /\ task[r].i = asked[r].n
          /\ events' = events \cup {r}
          /\ End(r, "ok")
    /\ UNCHANGED <<row, read, config, engines, cache, asked, answer, history>>

\* Mutant: a row that fails is passed over.
ExecuteFails_next_row(r) ==
    /\ Failing
    /\ At(r, "execute")
    /\ Commit(r) \/ UNCHANGED data
    /\ \/ /\ task[r].i < asked[r].n
          /\ task' = [task EXCEPT ![r].i = @ + 1]
          /\ UNCHANGED outcome
       \/ task[r].i = asked[r].n /\ End(r, "failed")
    /\ UNCHANGED <<row, read, config, engines, cache, asked, answer, events, history>>

\* The statement raises, or its event does, or the connection breaks once it is committed.
ExecuteFails(r) ==
    /\ Failing
    /\ At(r, "execute")
    /\ Commit(r) \/ UNCHANGED data
    /\ End(r, "failed")
    /\ UNCHANGED <<row, read, config, engines, cache, asked, answer, events, history>>

\* The ttl of an entry is over, or the cache has no room for it.
Expire(k) ==
    /\ cache[k] # None
    /\ cache' = [cache EXCEPT ![k] = None]
    /\ UNCHANGED <<row, read, config, engines, asked, task, outcome, answer, events, data, history>>

-----------------------------------------------------------------------------
(* Definitions that change.                                                *)

\* History: what config' defines.
Naming == named' = [d \in DBs |-> named[d] \cup ({config'[d]} \ {None})]

Differing == {d \in DBs : config'[d] # config[d]}

\* The handler of an administrator, which has committed: it reloads or removes the engine.
Administer(r, kind, d, step) ==
    /\ asked[r] = None
    /\ asked' = [asked EXCEPT ![r] = [kind |-> kind, d |-> d, stmt |-> "none",
                                      mode |-> "readwrite", n |-> 1]]
    /\ task' = [task EXCEPT ![r] = [at |-> step, engine |-> None, i |-> 1]]
    /\ UNCHANGED <<read, engines, cache, outcome, answer, events, data, history>>

\* create_database, update_database.
Define(r, d, s) ==
    /\ Administer(r, "define", d, "read")
    /\ row' = [row EXCEPT ![d] = s]
    /\ UNCHANGED config

\* add_webhook, update_webhook: no definition of a database changes, but all are loaded again.
DefineWebhook(r) ==
    /\ Administer(r, "webhook", CHOOSE d \in DBs : TRUE, "read")
    /\ UNCHANGED <<row, config>>

\* delete_database, of a dynamic one.
Drop(r, d) ==
    /\ row[d] # None
    /\ Administer(r, "drop", d, "remove")
    /\ row' = [row EXCEPT ![d] = None]
    /\ config' = [config EXCEPT ![d] = None]

\* _sync_dynamic_config: the rows are read, and put into the configuration when they have
\* come; the rows may have changed meanwhile.  One that is gone is not taken out.
ReadRows(r) ==
    /\ At(r, "read")
    /\ read' = [read EXCEPT ![r] = row]
    /\ task' = [task EXCEPT ![r].at = "apply"]
    /\ UNCHANGED <<row, config, engines, cache, asked, outcome, answer, events, data, history>>

Assign(r, E) ==
    /\ config' = [e \in DBs |-> IF e \in E /\ read[r][e] # None THEN read[r][e] ELSE config[e]]
    /\ read' = [read EXCEPT ![r] = Nothing]
    /\ Naming
    /\ UNCHANGED <<row, engines, cache, asked, answer, events, data, loose>>

ApplyRows(r) ==
    /\ At(r, "apply")
    /\ Assign(r, DBs)
    /\ \/ /\ asked[r].kind = "define"
          /\ task' = [task EXCEPT ![r].at = "remove"]
          /\ stale' = stale \cup (Differing \ {asked[r].d})
          /\ UNCHANGED outcome
       \/ /\ asked[r].kind = "webhook"
          /\ stale' = stale \cup Differing
          /\ End(r, "ok")

\* The reload raises: the rows cannot be read, or one of them, of a database or a webhook, is
\* no definition.  What came before it stays, and remove_engine is not reached.  (A row that
\* is no definition would also keep the next process from starting.)
ReloadRaises(r, E) ==
    /\ Failing
    /\ At(r, "apply") \/ (At(r, "read") /\ E = {})
    /\ Assign(r, E)
    /\ stale' = stale \cup Differing
    /\ End(r, "failed")

\* Mutant: an engine in use is left alone.
RemoveEngine_if_idle(r) ==
    /\ At(r, "remove")
    /\ LET d == asked[r].d
       IN  /\ engines' = IF \E q \in Requests : At(q, "execute") /\ asked[q].d = d
                         THEN engines ELSE [engines EXCEPT ![d] = None]
           /\ stale' = stale \ {d}
    /\ End(r, "ok")
    /\ UNCHANGED <<row, read, config, cache, asked, answer, events, data, loose, named>>

\* Mutant: only a database that is gone loses its engine.
RemoveEngine_dropped(r) ==
    /\ At(r, "remove")
    /\ LET d == asked[r].d
       IN  /\ engines' = IF config[d] # None THEN engines ELSE [engines EXCEPT ![d] = None]
           /\ stale' = stale \ {d}
    /\ End(r, "ok")
    /\ UNCHANGED <<row, read, config, cache, asked, answer, events, data, loose, named>>

\* remove_engine: popped, and disposed of while the request waits; what runs on it goes on,
\* and the entries of the cache stay.
RemoveEngine(r) ==
    /\ At(r, "remove")
    /\ LET d == asked[r].d
       IN  /\ engines' = [engines EXCEPT ![d] = None]
           /\ stale' = stale \ {d}
    /\ End(r, "ok")
    /\ UNCHANGED <<row, read, config, cache, asked, answer, events, data, loose, named>>

\* _handle_hot_reload replaces the configuration: no dynamic definition is in it, no engine is
\* removed, and a reload that has read its rows will put them into the old one.
HotReload ==
    /\ Reloads
    /\ config' = Toml
    /\ read' = [r \in Requests |-> Nothing]
    /\ stale' = stale \cup Differing
    /\ Naming
    /\ UNCHANGED <<row, engines, cache, asked, task, outcome, answer, events, data, loose>>

\* The process dies, or stops (shutdown), and another one starts.
Restart ==
    /\ Reloads
    /\ config' = Merged(row)
    /\ read' = [r \in Requests |-> Nothing]
    /\ engines' = Nothing
    /\ cache' = [k \in DBs \X Cached |-> None]
    /\ outcome' = [r \in Requests |-> IF task[r] # None THEN "failed" ELSE outcome[r]]
    /\ task' = [r \in Requests |-> None]
    /\ stale' = {}
    /\ Naming
    /\ UNCHANGED <<row, asked, answer, events, data, loose>>

Run(r) == \/ Lookup(r) \/ ExecuteRead(r) \/ Store(r)
          \/ ExecuteWrite(r) \/ ExecuteFails(r) \/ RemoveEngine(r)

Reload(r) == ReadRows(r) \/ ApplyRows(r) \/ \E E \in SUBSET DBs : ReloadRaises(r, E)

Next ==
    \/ \E r \in Clients, d \in DBs, b \in Sends : Begin(r, b.kind, d, b.stmt, b.mode, b.n)
    \/ \E r \in Admins, d \in DBs :
         Drop(r, d) \/ \E s \in Stores : Define(r, d, s)
    \/ \E r \in Hooks : DefineWebhook(r)
    \/ \E r \in Requests : Run(r) \/ Reload(r)
    \/ \E k \in DBs \X Cached : Expire(k)
    \/ HotReload \/ Restart

Spec == Init /\ [][Next]_vars

-----------------------------------------------------------------------------
(* Properties.                                                             *)

\* What waits in the dictionary connects to the database that the configuration defines: a
\* definition that was changed and answered is the one the next request gets, unless the
\* change came from config.toml, by a reload on behalf of something else, or by one that
\* raised, after which remove_engine is not reached.
EngineCurrent ==
    \A d \in DBs :
        engines[d] # None /\ d \notin stale /\ ~InChange(d) => engines[d] = config[d]

\* Validated against the definition and executed on the engine, which are read at two
\* moments: a CREATE has run only where the definition of that very database allows it, or
\* when its request began after such a change and before the engine was removed.
CreatesWherePermitted ==
    \A s \in Stores \ Permissive : \A w \in data[s] :
        asked[w[1]].stmt = "create" => w[1] \in loose

\* Nothing that a read-only key sent has changed a database, whether the validator, the
\* endpoint or the missing commit stopped it.
ReadonlyHarmless ==
    \A s \in Stores : \A w \in data[s] : asked[w[1]].mode # "readonly"

\* A write that was answered as done, or that subscribers were told of, is committed, all of
\* its rows in one database, and of one that failed the rows up to some row: none is skipped.
\* WITH .. INSERT .. RETURNING is answered, and told of, and may have been rolled back.
Rows(r, s) == {i \in 1..MaxRows : <<r, i>> \in data[s]}

AnsweredIsCommitted ==
    \A r \in Requests :
        asked[r] # None /\ asked[r].stmt \in {"insert", "create"} =>
            /\ outcome[r] = "ok" \/ r \in events => \E s \in Stores : Rows(r, s) = 1..asked[r].n
            /\ \A s \in Stores : \A i \in Rows(r, s) : 1..i \subseteq Rows(r, s)

\* Rows that are answered, at once or from the cache, come from a database that was defined
\* under the name that was asked for.
AnswersOwnDatabase ==
    \A r \in Requests : answer[r] # None => answer[r] \in named[asked[r].d]
=============================================================================
