------------------------------ MODULE KeyStore ------------------------------
(***************************************************************************)
(* API keys and the dynamic configuration: SecurityStorage                 *)
(* (src/src/security/storage.py), the admin handlers that write it, the    *)
(* configuration object that config.toml is loaded into and reloaded into  *)
(* (src/src/config/loader.py), and authentication, which reads all of it   *)
(* (src/src/server/middleware/auth.py).                                    *)
(*                                                                         *)
(* Requests of administrators are coroutines: what runs between two awaits *)
(* is one step, each SQLite transaction is one, and so is each SELECT of a *)
(* reload.  Values carry their origin: a key's secret, each of its fields  *)
(* and a stored definition are named by the request that wrote them.       *)
(* `Entries` stands for both databases and webhooks, which are stored,     *)
(* reloaded and removed in the same way.                                   *)
(***************************************************************************)
EXTENDS FiniteSets

CONSTANTS Workers,        \* the uvicorn worker processes
          Leader,         \* the one that watches config.toml
          Static,         \* config.api_key: keys with full_admin
          Dynamic,        \* other key names
          Fields,         \* mode, db_scope, fs_scope, rate_limit_override
          Nodes,          \* config.federation.incoming
          Entries,        \* names of databases and webhooks
          StaticEntries,  \* the ones that config.toml defines
          Past,           \* a request of long ago, whose rows the tables may hold
          Requests,       \* bound: the requests of administrators that write
          Sweepers,       \* bound: the removals of expired bans that are in flight at once
          Crashes,        \* bound: the workers that die and are started again
          HotReloads,     \* bound: whether config.toml is touched
          Toml,           \* what config.toml says of a key or an entry
          None            \* no row, no entry, no header

Names == Static \cup Dynamic

ASSUME KeyStoreAssumption ==
    /\ Leader \in Workers
    /\ Requests \cap Workers = {}
    /\ Sweepers \cap (Requests \cup Workers) = {}
    /\ Past \notin Requests
    /\ Static \cap Dynamic = {}
    /\ StaticEntries \subseteq Entries
    /\ Crashes \subseteq Workers /\ HotReloads \in BOOLEAN
    /\ Toml \notin Requests
    /\ None # Toml /\ None \notin Requests

VARIABLES keyRow,     \* table api_keys
          banRow,     \* the rows of table bans that are about keys: who wrote them
          entryRow,   \* tables databases and webhooks
          keys,       \* _api_keys_cache of each worker
          bans,       \* _bans_cache_key of each worker, in the same way
          config,     \* config.database and config.webhook of each worker
          up,         \* whether the startup of a worker is over
          term,       \* expires_at of the ban each request writes: none, to come, or over
          task,       \* the coroutines in flight, of requests and of startups
          outcome,    \* how each request ended
          calm,       \* history: no two coroutines of the worker overlapped, no other
                      \* worker wrote, nothing failed, config.toml was left alone
          out,        \* history: the keys whose revocation the worker has answered, if nothing
                      \* that could undo it was in flight, until something can
          contested   \* history: two revocations or bans of administrators overlapped, or one
                      \* went through a worker that had not heard of another, or the name of
                      \* an administrator was given to a dynamic key

vars == <<keyRow, banRow, entryRow, keys, bans, config, up, term, task, outcome,
          calm, out, contested>>
tables  == <<keyRow, banRow, entryRow>>
caches  == <<keys, bans, config>>
history == <<calm, out, contested>>

Writers == Requests \cup {Past}
Ids     == Requests \cup Workers \cup Sweepers
Key     == [secret : Writers, fields : [Fields -> Writers]]
Entry   == [by : Writers, valid : BOOLEAN]

NoKeys     == [n \in Names |-> None]
NoBans     == [n \in Names |-> None]
NoEntries  == [e \in Entries |-> None]
NewKey(r)  == [secret |-> r, fields |-> [f \in Fields |-> r]]
TomlConfig == [e \in Entries |-> IF e \in StaticEntries THEN Toml ELSE None]

Kinds   == {"create", "update", "revoke", "ban", "unban", "sweep", "add", "patch", "drop", "boot"}
Loading == {"clear", "keys", "fillkeys", "bans", "fillbans", "entries", "fillentries"}
Steps   == {"write", "apply", "ban", "banned", "unban", "unbanned"} \cup Loading

\* A coroutine: the step it is at, the name or entry it is about, the record an update has
\* computed, whether a stored definition will validate, whether the dictionary it refers to
\* is still the one in use, cursor.rowcount > 0, and what the SELECTs of a reload returned.
Task == [kind : Kinds, w : Workers, at : Steps, on : Names \cup Entries \cup {None},
         rec : Key \cup {None}, valid : BOOLEAN, linked : BOOLEAN, hit : BOOLEAN,
         rows : [Names -> Key \cup {None}], banned : [Names -> Requests \cup {None}],
         defs : [Entries -> Entry \cup {None}]]

ASSUME NoneAssumption == None \notin Key \cup Entry \cup Task

TypeOK ==
    /\ keyRow \in [Names -> Key \cup {None}]
    /\ banRow \in [Names -> Requests \cup {None}]
    /\ entryRow \in [Entries -> Entry \cup {None}]
    /\ keys \in [Workers -> [Names -> Key \cup {None}]]
    /\ bans \in [Workers -> [Names -> Requests \cup {None}]]
    /\ config \in [Workers -> [Entries -> Entry \cup {Toml, None}]]
    /\ up \in [Workers -> BOOLEAN]
    /\ term \in [Requests -> {"never", "later", "over"}]
    /\ task \in [Ids -> Task \cup {None}]
    /\ outcome \in [Writers -> {"none", "ok", "refused", "failed"}]
    /\ calm \in [Workers -> BOOLEAN]
    /\ out \subseteq Workers \X Names
    /\ contested \in BOOLEAN

Init ==
    /\ \E N \in SUBSET Dynamic : keyRow = [n \in Names |-> IF n \in N THEN NewKey(Past) ELSE None]
    /\ \E E \in SUBSET Entries :
         entryRow = [e \in Entries |-> IF e \in E THEN [by |-> Past, valid |-> TRUE] ELSE None]
    /\ banRow = NoBans
    /\ keys = [w \in Workers |-> keyRow]
    /\ bans = [w \in Workers |-> NoBans]
    /\ config = [w \in Workers |->
                   [e \in Entries |-> IF entryRow[e] # None THEN entryRow[e] ELSE TomlConfig[e]]]
    /\ up = [w \in Workers |-> TRUE]
    /\ term = [r \in Requests |-> "never"]
    /\ task = [i \in Ids |-> None]
    /\ outcome = [r \in Writers |-> IF r = Past THEN "ok" ELSE "none"]
    /\ calm = [w \in Workers |-> TRUE]
    /\ out = {} /\ contested = FALSE

At(i, kind, step) == task[i] # None /\ task[i].kind = kind /\ task[i].at = step
Busy(w)           == \E i \in Ids : task[i] # None /\ task[i].w = w

\* A ban of a row or of a dictionary, unless it has expired.
Live(ban)    == IF ban # None /\ term[ban] # "over" THEN ban ELSE None
Lasting(ban) == ban # None /\ term[ban] = "never"

-----------------------------------------------------------------------------
(* Authentication.                                                         *)

\* The federation headers, and the name and secret of a bearer token.  The secret of a
\* static key and of a node is the one config.toml gives it.
Credential == [node : Nodes \cup {None}, name : Names, secret : Writers \cup {Toml}]

Refused            == [name |-> None, admin |-> FALSE]
Context(n, admin)  == [name |-> n, admin |-> admin]

FederationContext(c) == IF c.secret = Toml THEN Context(c.node, FALSE) ELSE Refused

\* A dynamic key shadows a static one of its name: a wrong secret is refused there and then.
KeyContext(w, c) ==
    IF keys[w][c.name] # None
    THEN IF keys[w][c.name].secret = c.secret THEN Context(c.name, FALSE) ELSE Refused
    ELSE IF c.name \in Static /\ c.secret = Toml THEN Context(c.name, TRUE) ELSE Refused

\* get_auth_context.  A node is not checked against the bans.
AuthContext(w, c) ==
    IF c.node # None THEN FederationContext(c)
    ELSE IF Live(bans[w][c.name]) # None THEN Refused
    ELSE KeyContext(w, c)

\* require_admin: the administrators whose requests worker w lets through, when check_ban has
\* removed a ban that is over.
Admins(w) ==
    {a \in Static : /\ up[w] /\ bans[w][a] = None
                    /\ AuthContext(w, [node |-> None, name |-> a, secret |-> Toml]).admin}

-----------------------------------------------------------------------------
(* What the steps have in common.                                          *)

\* i resumes at its next step.
Move(i, step) == task' = [task EXCEPT ![i].at = step]

\* i ends; a request is answered.
End(i, result) ==
    /\ task' = [task EXCEPT ![i] = None]
    /\ outcome' = IF i \in Requests THEN [outcome EXCEPT ![i] = result] ELSE outcome

\* History: worker w has written the tables.
Wrote(w) == calm' = [v \in Workers |-> calm[v] /\ v = w]

\* History: what may undo the revocation of n has begun.
Undone(n) == out' = {x \in out : x[2] # n}

NewTask(kind, w, step, n, rec, valid) ==
    [kind |-> kind, w |-> w, at |-> step, on |-> n, rec |-> rec, valid |-> valid,
     linked |-> TRUE, hit |-> FALSE, rows |-> NoKeys, banned |-> NoBans, defs |-> NoEntries]

\* A request of one of the administrators in A, in a coroutine that awaits its first statement.
BeginAt(step, A, r, kind, w, n, rec, valid) ==
    /\ task[r] = None /\ outcome[r] = "none"
    /\ A # {}
    /\ task' = [task EXCEPT ![r] = NewTask(kind, w, step, n, rec, valid)]
    /\ calm' = [calm EXCEPT ![w] = @ /\ ~Busy(w)]
    /\ UNCHANGED <<tables, caches, up, outcome>>

Begin(A, r, kind, w, n, rec, valid) ==
    BeginAt("write", A, r, kind, w, n, rec, valid) /\ UNCHANGED term

\* The coroutines whose `existing` dictionary is replaced or dropped at worker w lose it.
Unlink(w, N) ==
    [i \in Ids |-> IF At(i, "update", "apply") \/ At(i, "update", "write")
                   THEN IF task[i].w = w /\ task[i].on \in N
                        THEN [task[i] EXCEPT !.linked = FALSE] ELSE task[i]
                   ELSE task[i]]

\* A connect or a statement that raises ("database is locked", a full disk) before its commit.
\* A reload that fails leaves empty what it has cleared.
Fail(i) ==
    /\ task[i] # None
    /\ task[i].at \in {"write", "ban", "unban", "clear", "keys", "bans", "entries"}
    /\ End(i, "failed")
    /\ calm' = [calm EXCEPT ![task[i].w] = FALSE]
    /\ out' = IF task[i].at = "bans"
              THEN {x \in out : x[1] # task[i].w \/ x[2] \in Dynamic} ELSE out
    /\ UNCHANGED <<tables, caches, up, term, contested>>

-----------------------------------------------------------------------------
(* Keys.                                                                   *)

\* create_api_key: the name is looked up in the dictionary, and in no table and no config.
BeginCreate(r, w, n) ==
    /\ keys[w][n] = None
    /\ Begin(Admins(w), r, "create", w, n, NewKey(r), TRUE)
    /\ Undone(n)
    /\ contested' = (contested \/ n \in Static)

CommitCreate(r) ==
    /\ At(r, "create", "write")
    /\ keyRow' = [keyRow EXCEPT ![task[r].on] = task[r].rec]
    /\ Move(r, "apply")
    /\ Wrote(task[r].w)
    /\ UNCHANGED <<banRow, entryRow, caches, up, term, outcome, out, contested>>

ApplyCreate(r) ==
    /\ At(r, "create", "apply")
    /\ LET w == task[r].w  n == task[r].on
       IN  /\ keys' = [keys EXCEPT ![w][n] = task[r].rec]
           /\ task' = [Unlink(w, {n}) EXCEPT ![r] = None]
    /\ outcome' = [outcome EXCEPT ![r] = "ok"]
    /\ UNCHANGED <<tables, bans, config, up, term, history>>

\* update_api_key: every field is computed from the dictionary before the first await.
BeginUpdate(r, w, n, f) ==
    /\ n \notin Static /\ keys[w][n] # None
    /\ Begin(Admins(w), r, "update", w, n, [keys[w][n] EXCEPT !.fields[f] = r], TRUE)
    /\ UNCHANGED <<out, contested>>

CommitUpdate(r) ==
    /\ At(r, "update", "write")
    /\ \/ /\ keyRow[task[r].on] # None
          /\ keyRow' = [keyRow EXCEPT ![task[r].on].fields = task[r].rec.fields]
          /\ Move(r, "apply")
          /\ UNCHANGED outcome
       \/ /\ keyRow[task[r].on] = None
          /\ End(r, "refused")
          /\ UNCHANGED keyRow
    /\ Wrote(task[r].w)
    /\ UNCHANGED <<banRow, entryRow, caches, up, term, out, contested>>

\* Mutant: the entry is written back under its name, as add_api_key does.
ApplyUpdate_by_name(r) ==
    /\ At(r, "update", "apply")
    /\ keys' = [keys EXCEPT ![task[r].w][task[r].on] = task[r].rec]
    /\ End(r, "ok")
    /\ UNCHANGED <<tables, bans, config, up, term, history>>

\* existing.update(..): of no effect if the dictionary is no longer the one in the cache.
ApplyUpdate(r) ==
    /\ At(r, "update", "apply")
    /\ \/ /\ task[r].linked
          /\ keys' = [keys EXCEPT ![task[r].w][task[r].on].fields = task[r].rec.fields]
       \/ ~task[r].linked /\ UNCHANGED keys
    /\ End(r, "ok")
    /\ UNCHANGED <<tables, bans, config, up, term, history>>

\* i is about to ban an administrator.
BansAdmin(i) == task[i] # None /\ task[i].kind \in {"revoke", "ban"} /\ task[i].on \in Static

\* History: n is an administrator, and w may not know of every other ban of one.
Contests(w, n) ==
    /\ n \in Static
    /\ \/ \E a \in Static : Live(banRow[a]) # None /\ Live(bans[w][a]) = None
       \/ \E i \in Ids : BansAdmin(i)

\* Mutant: no lockout protection.
BeginRevoke_oneself(r, w, n) ==
    /\ Begin(Admins(w), r, "revoke", w, n, None, TRUE)
    /\ contested' = (contested \/ Contests(w, n))
    /\ UNCHANGED out

\* revoke_api_key, by an administrator who may not name itself.
BeginRevoke(r, w, n) ==
    /\ Begin(Admins(w) \ {n}, r, "revoke", w, n, None, TRUE)
    /\ contested' = (contested \/ Contests(w, n))
    /\ UNCHANGED out

CommitRevoke(r) ==
    /\ At(r, "revoke", "write")
    /\ keyRow' = [keyRow EXCEPT ![task[r].on] = None]
    /\ task' = [task EXCEPT ![r].at = "apply", ![r].hit = keyRow[task[r].on] # None]
    /\ Wrote(task[r].w)
    /\ UNCHANGED <<banRow, entryRow, caches, up, term, outcome, out, contested>>

\* i may yet undo a revocation of n that worker w answers: a reload there that has read the row
\* before, a create, and for a key of config.toml what removes its ban or gives it an end.
Undoes(i, w, n) ==
    /\ task[i] # None
    /\ \/ task[i].w = w /\ task[i].at \in Loading
       \/ task[i].kind = "create" /\ task[i].on = n
       \/ n \in Static /\ task[i].kind \in {"unban", "sweep"} /\ task[i].on = n
       \/ n \in Static /\ task[i].kind = "ban" /\ task[i].on = n /\ term[i] # "never"

\* History: what is answered holds if nothing has overtaken it.
Answered(r, w, n) ==
    out' = IF \/ keyRow[n] # None
              \/ n \in Static /\ ~Lasting(banRow[n])
              \/ \E i \in Ids \ {r} : Undoes(i, w, n)
           THEN out ELSE out \cup {<<w, n>>}

\* A found key leaves the dictionary; a name of config.toml is banned next.
ApplyRevoke(r) ==
    /\ At(r, "revoke", "apply")
    /\ LET w == task[r].w  n == task[r].on  dropped == IF task[r].hit THEN {n} ELSE {}
       IN  /\ keys' = [keys EXCEPT ![w] = [m \in Names |-> IF m \in dropped THEN None ELSE @[m]]]
           /\ \/ /\ n \in Static
                 /\ task' = [Unlink(w, dropped) EXCEPT ![r].at = "ban"]
                 /\ UNCHANGED <<outcome, out>>
              \/ /\ n \notin Static
                 /\ task' = [Unlink(w, dropped) EXCEPT ![r] = None]
                 /\ outcome' = [outcome EXCEPT ![r] = IF task[r].hit THEN "ok" ELSE "refused"]
                 /\ IF task[r].hit THEN Answered(r, w, n) ELSE UNCHANGED out
    /\ UNCHANGED <<tables, bans, config, up, term, calm, contested>>

Banning(i, step) == At(i, "revoke", step) \/ At(i, "ban", step)

\* ban_entity: INSERT OR REPLACE, and then the dictionary.
CommitBan(r) ==
    /\ Banning(r, "ban")
    /\ banRow' = [banRow EXCEPT ![task[r].on] = r]
    /\ Move(r, "banned")
    /\ Wrote(task[r].w)
    /\ UNCHANGED <<keyRow, entryRow, caches, up, term, outcome, out, contested>>

ApplyBan(r) ==
    /\ Banning(r, "banned")
    /\ bans' = [bans EXCEPT ![task[r].w][task[r].on] = r]
    /\ End(r, "ok")
    /\ IF task[r].kind = "revoke" THEN Answered(r, task[r].w, task[r].on) ELSE UNCHANGED out
    /\ UNCHANGED <<tables, keys, config, up, term, calm, contested>>

-----------------------------------------------------------------------------
(* Bans of keys.                                                           *)

\* ban_key, by an administrator who may not name itself, for good or for a time.
BeginBan(r, w, n, brief) ==
    /\ BeginAt("ban", Admins(w) \ {n}, r, "ban", w, n, None, TRUE)
    /\ term' = [term EXCEPT ![r] = IF brief THEN "later" ELSE "never"]
    /\ IF brief /\ n \in Static THEN Undone(n) ELSE UNCHANGED out
    /\ contested' = (contested \/ Contests(w, n))

\* unban_key.
BeginUnban(r, w, n) ==
    /\ BeginAt("unban", Admins(w), r, "unban", w, n, None, TRUE)
    /\ IF n \in Static THEN Undone(n) ELSE UNCHANGED out
    /\ UNCHANGED <<term, contested>>

\* The time of a ban comes.
Expire(r) ==
    /\ term[r] = "later"
    /\ term' = [term EXCEPT ![r] = "over"]
    /\ UNCHANGED <<tables, caches, up, task, outcome, history>>

\* check_ban, of any request that gives the name n: a ban that is over leaves the dictionary,
\* and a coroutine of its own will remove the row, whoever has written it by then.
CheckExpired(w, n, i) ==
    /\ up[w] /\ bans[w][n] # None /\ Live(bans[w][n]) = None
    /\ task[i] = None
    /\ bans' = [bans EXCEPT ![w][n] = None]
    /\ task' = [task EXCEPT ![i] = NewTask("sweep", w, "unban", n, None, TRUE)]
    /\ calm' = [calm EXCEPT ![w] = @ /\ ~Busy(w)]
    /\ IF n \in Static THEN Undone(n) ELSE UNCHANGED out
    /\ UNCHANGED <<tables, keys, config, up, term, outcome, contested>>

Unbanning(i, step) == At(i, "unban", step) \/ At(i, "sweep", step)

\* unban_entity: DELETE, and then the dictionary if a row was found.
CommitUnban(i) ==
    /\ Unbanning(i, "unban")
    /\ banRow' = [banRow EXCEPT ![task[i].on] = None]
    /\ task' = [task EXCEPT ![i].at = "unbanned", ![i].hit = banRow[task[i].on] # None]
    /\ Wrote(task[i].w)
    /\ UNCHANGED <<keyRow, entryRow, caches, up, term, outcome, out, contested>>

ApplyUnban(i) ==
    /\ Unbanning(i, "unbanned")
    /\ bans' = IF task[i].hit THEN [bans EXCEPT ![task[i].w][task[i].on] = None] ELSE bans
    /\ End(i, IF task[i].hit THEN "ok" ELSE "refused")
    /\ UNCHANGED <<tables, keys, config, up, term, history>>

-----------------------------------------------------------------------------
(* Databases and webhooks.                                                 *)

\* add_database, add_webhook: nothing is validated before it is stored.
BeginAdd(r, w, e, valid) ==
    /\ Begin(Admins(w), r, "add", w, e, None, valid)
    /\ UNCHANGED <<out, contested>>

\* update_database, update_webhook: the row is looked for first.
BeginPatch(r, w, e, valid) ==
    /\ entryRow[e] # None
    /\ Begin(Admins(w), r, "patch", w, e, None, valid)
    /\ UNCHANGED <<out, contested>>

\* INSERT OR REPLACE; then _reload_caches.
CommitAdd(r) ==
    /\ At(r, "add", "write")
    /\ entryRow' = [entryRow EXCEPT ![task[r].on] = [by |-> r, valid |-> task[r].valid]]
    /\ Move(r, "clear")
    /\ Wrote(task[r].w)
    /\ UNCHANGED <<keyRow, banRow, caches, up, term, outcome, out, contested>>

\* UPDATE, which may find that the row has gone, and _reload_caches all the same.
CommitPatch(r) ==
    /\ At(r, "patch", "write")
    /\ LET e == task[r].on
       IN  entryRow' = IF entryRow[e] = None THEN entryRow
                       ELSE [entryRow EXCEPT ![e] = [by |-> r, valid |-> task[r].valid]]
    /\ Move(r, "clear")
    /\ Wrote(task[r].w)
    /\ UNCHANGED <<keyRow, banRow, caches, up, term, outcome, out, contested>>

BeginDrop(r, w, e) ==
    /\ Begin(Admins(w), r, "drop", w, e, None, TRUE)
    /\ UNCHANGED <<out, contested>>

CommitDrop(r) ==
    /\ At(r, "drop", "write")
    /\ entryRow' = [entryRow EXCEPT ![task[r].on] = None]
    /\ task' = [task EXCEPT ![r].at = "apply", ![r].hit = entryRow[task[r].on] # None]
    /\ Wrote(task[r].w)
    /\ UNCHANGED <<keyRow, banRow, caches, up, term, outcome, out, contested>>

\* Mutant: the definition stays in the configuration as a tombstone, its name.
ApplyDrop_marks(r) ==
    /\ At(r, "drop", "apply")
    /\ config' = IF task[r].hit THEN [config EXCEPT ![task[r].w][task[r].on] = task[r].on]
                  ELSE config
    /\ End(r, IF task[r].hit THEN "ok" ELSE "refused")
    /\ UNCHANGED <<tables, keys, bans, up, term, history>>

\* A found definition is popped from the configuration, a static one of its name with it.
ApplyDrop(r) ==
    /\ At(r, "drop", "apply")
    /\ config' = IF task[r].hit THEN [config EXCEPT ![task[r].w][task[r].on] = None] ELSE config
    /\ End(r, IF task[r].hit THEN "ok" ELSE "refused")
    /\ UNCHANGED <<tables, keys, bans, up, term, history>>

-----------------------------------------------------------------------------
(* _reload_caches, in a request that stored a definition or in a startup.  *)

ClearKeys(i) ==
    /\ task[i] # None /\ task[i].at = "clear"
    /\ keys' = [keys EXCEPT ![task[i].w] = NoKeys]
    /\ task' = [Unlink(task[i].w, Names) EXCEPT ![i].at = "keys"]
    /\ UNCHANGED <<tables, bans, config, up, term, outcome, history>>

SelectKeys(i) ==
    /\ task[i] # None /\ task[i].at = "keys"
    /\ task' = [task EXCEPT ![i].at = "fillkeys", ![i].rows = keyRow]
    /\ UNCHANGED <<tables, caches, up, term, outcome, history>>

\* The rows are put in the dictionary, and _load_bans clears the next one.
FillKeys(i) ==
    /\ task[i] # None /\ task[i].at = "fillkeys"
    /\ LET w == task[i].w  got == task[i].rows
       IN  /\ keys' = [keys EXCEPT ![w] = [n \in Names |-> IF got[n] # None THEN got[n] ELSE @[n]]]
           /\ bans' = [bans EXCEPT ![w] = NoBans]
           /\ task' = [Unlink(w, {n \in Names : got[n] # None})
                         EXCEPT ![i].at = "bans", ![i].rows = NoKeys]
    /\ UNCHANGED <<tables, config, up, term, outcome, history>>

\* The rows that have not expired.  Abstracted: the code compares them with a clock that it read
\* before it waited, so a ban that ends during the wait is loaded too, as one that ends after it.
SelectBans(i) ==
    /\ task[i] # None /\ task[i].at = "bans"
    /\ task' = [task EXCEPT ![i].at = "fillbans", ![i].banned = [n \in Names |-> Live(banRow[n])]]
    /\ UNCHANGED <<tables, caches, up, term, outcome, history>>

\* The circuits are loaded in between.  _sync_dynamic_config takes the configuration.
FillBans(i) ==
    /\ task[i] # None /\ task[i].at = "fillbans"
    /\ LET got == task[i].banned
       IN  bans' = [bans EXCEPT ![task[i].w] = [n \in Names |-> IF got[n] # None THEN got[n] ELSE @[n]]]
    /\ task' = [task EXCEPT ![i].at = "entries", ![i].banned = NoBans, ![i].linked = TRUE]
    /\ UNCHANGED <<tables, keys, config, up, term, outcome, history>>

SelectEntries(i) ==
    /\ task[i] # None /\ task[i].at = "entries"
    /\ task' = [task EXCEPT ![i].at = "fillentries", ![i].defs = entryRow]
    /\ UNCHANGED <<tables, caches, up, term, outcome, history>>

\* Mutant: a definition that is known already is left as it is.
Inject_new_only(i, E) ==
    config' = IF ~task[i].linked THEN config
              ELSE [config EXCEPT ![task[i].w] =
                      [e \in Entries |-> IF e \in E /\ @[e] = None THEN task[i].defs[e] ELSE @[e]]]

\* The definitions E are put in the configuration, unless it has been replaced since.
Inject(i, E) ==
    config' = IF ~task[i].linked THEN config
              ELSE [config EXCEPT ![task[i].w] =
                      [e \in Entries |-> IF e \in E THEN task[i].defs[e] ELSE @[e]]]

Stored(i)  == {e \in Entries : task[i].defs[e] # None}
Invalid(i) == {e \in Stored(i) : ~task[i].defs[e].valid}

FillEntries(i) ==
    /\ task[i] # None /\ task[i].at = "fillentries"
    /\ Invalid(i) = {}
    /\ Inject(i, Stored(i))
    /\ End(i, "ok")
    /\ up' = [up EXCEPT ![task[i].w] = TRUE]
    /\ UNCHANGED <<tables, keys, bans, term, history>>

\* Mutant: the exception is logged, and the request answered as if nothing had happened.
FillRaises_swallowed(i) ==
    /\ task[i] # None /\ task[i].at = "fillentries"
    /\ Invalid(i) # {}
    /\ \E E \in SUBSET (Stored(i) \ Invalid(i)) : Inject(i, E)
    /\ End(i, "ok")
    /\ UNCHANGED <<tables, keys, bans, up, term, history>>

\* A definition that does not validate raises: the request is answered with an error, and a
\* startup ends the worker.  The rows before it have been put in.
FillRaises(i) ==
    /\ task[i] # None /\ task[i].at = "fillentries"
    /\ Invalid(i) # {}
    /\ \E E \in SUBSET (Stored(i) \ Invalid(i)) : Inject(i, E)
    /\ End(i, "failed")
    /\ calm' = [calm EXCEPT ![task[i].w] = FALSE]
    /\ UNCHANGED <<tables, keys, bans, up, term, out, contested>>

-----------------------------------------------------------------------------
(* Processes and config.toml.                                              *)

\* _handle_hot_reload replaces the configuration by a new object.
HotReload(w) ==
    /\ HotReloads /\ w = Leader /\ up[w]
    /\ config' = [config EXCEPT ![w] = TomlConfig]
    /\ task' = [i \in Ids |-> IF task[i] # None /\ task[i].at \in {"entries", "fillentries"}
                                   /\ task[i].w = w
                              THEN [task[i] EXCEPT !.linked = FALSE] ELSE task[i]]
    /\ calm' = [calm EXCEPT ![w] = FALSE]
    /\ UNCHANGED <<tables, keys, bans, up, term, outcome, out, contested>>

Crash(w) ==
    /\ w \in Crashes /\ up[w]
    /\ up' = [up EXCEPT ![w] = FALSE]
    /\ keys' = [keys EXCEPT ![w] = NoKeys]
    /\ bans' = [bans EXCEPT ![w] = NoBans]
    /\ config' = [config EXCEPT ![w] = TomlConfig]
    /\ task' = [i \in Ids |-> IF task[i] # None /\ task[i].w = w THEN None ELSE task[i]]
    /\ outcome' = [r \in Writers |-> IF r \in Requests /\ task[r] # None /\ task[r].w = w
                                   THEN "failed" ELSE outcome[r]]
    /\ UNCHANGED <<tables, term, history>>

\* init_db, in a new process.
Start(w) ==
    /\ ~up[w] /\ task[w] = None
    /\ config' = [config EXCEPT ![w] = TomlConfig]
    /\ keys' = [keys EXCEPT ![w] = NoKeys]
    /\ bans' = [bans EXCEPT ![w] = NoBans]
    /\ task' = [task EXCEPT ![w] = NewTask("boot", w, "clear", None, None, TRUE)]
    /\ calm' = [calm EXCEPT ![w] = TRUE]
    /\ UNCHANGED <<tables, up, term, outcome, out, contested>>

Load(i) == \/ ClearKeys(i) \/ SelectKeys(i) \/ FillKeys(i) \/ SelectBans(i) \/ FillBans(i)
           \/ SelectEntries(i) \/ FillEntries(i) \/ FillRaises(i)

Next ==
    \/ \E r \in Requests, w \in Workers :
         \/ \E n \in Names : BeginCreate(r, w, n) \/ BeginRevoke(r, w, n) \/ BeginUnban(r, w, n)
         \/ \E n \in Names, brief \in BOOLEAN : BeginBan(r, w, n, brief)
         \/ \E n \in Names, f \in Fields : BeginUpdate(r, w, n, f)
         \/ \E e \in Entries, valid \in BOOLEAN : BeginAdd(r, w, e, valid) \/ BeginPatch(r, w, e, valid)
         \/ \E e \in Entries : BeginDrop(r, w, e)
    \/ \E r \in Requests :
         \/ Expire(r)
         \/ CommitCreate(r) \/ ApplyCreate(r) \/ CommitUpdate(r) \/ ApplyUpdate(r)
         \/ CommitRevoke(r) \/ ApplyRevoke(r) \/ CommitBan(r) \/ ApplyBan(r)
         \/ CommitAdd(r) \/ CommitPatch(r) \/ CommitDrop(r) \/ ApplyDrop(r)
    \/ \E w \in Workers, n \in Names, i \in Sweepers : CheckExpired(w, n, i)
    \/ \E i \in Ids : CommitUnban(i) \/ ApplyUnban(i) \/ Load(i) \/ Fail(i)
    \/ \E w \in Workers : HotReload(w) \/ Crash(w) \/ Start(w)

Spec == Init /\ [][Next]_vars

-----------------------------------------------------------------------------
(* Properties.                                                             *)

\* A revocation that has been answered holds: no secret of the key opens the worker that
\* answered, whatever reloads, updates, bans of other keys, edits of config.toml and restarts come
\* later, until a key of that name is created.  What revokes a static key is its ban, so for one
\* it also ends with an unban, with a new ban for a time, and with the removal of an expired ban
\* that any worker still knew (security/storage.py:342, :364).  A static key is let in only while
\* a reload has its ban cleared (security/storage.py:156).
RevocationHolds ==
    \A x \in out, c \in Credential :
        LET w == x[1]  n == x[2]
        IN  /\ up[w] /\ c.node = None /\ c.name = n
            /\ AuthContext(w, c) # Refused
            => n \in Static /\ \E i \in Ids : task[i] # None /\ task[i].w = w
                                               /\ task[i].at \in {"bans", "fillbans"}

\* Administrators cannot lock themselves out (docs/API.md:482) by revoking and banning each other
\* one at a time: whatever fails, expires or crashes in between, one of them is let in after the
\* next start.
AdminRemains == contested \/ \E a \in Static : Live(banRow[a]) = None /\ keyRow[a] = None

\* A definition that makes every reload and every startup fail was never acknowledged.
PoisonReported ==
    \A e \in Entries : entryRow[e] # None /\ ~entryRow[e].valid => outcome[entryRow[e].by] # "ok"

\* What a worker acts on is what the tables say, when its coroutines have not overlapped and
\* no other worker has written: then each create, update, revocation, ban, unban, definition,
\* reload and startup leaves dictionaries, configuration and tables in agreement, but for bans
\* that are over.
CalmAgrees ==
    \A w \in Workers :
        calm[w] /\ up[w] /\ ~Busy(w) =>
            /\ keys[w] = keyRow
            /\ \A n \in Names : Live(bans[w][n]) = Live(banRow[n])
            /\ \A e \in Entries :
                 config[w][e] = entryRow[e] \/ (entryRow[e] = None /\ config[w][e] = Toml)
=============================================================================
