------------------------------ MODULE Lifespan ------------------------------
(***************************************************************************)
(* The life of the worker processes (src/src/server/lifespan.py): which of *)
(* them runs the daemons, who follows config.toml while it is edited       *)
(* (src/src/config/loader.py), what is derived from the configuration once *)
(* and then remembered (the feature flags of the database and the storage  *)
(* handlers, the routes and the encoded secrets of                         *)
(* src/src/api/federation/proxy.py), and the requests that are proxied to  *)
(* other servers by means of it.                                           *)
(*                                                                         *)
(* The initial predicate and its like are named for the life: DaemonProofs *)
(* extends this module together with FederationSync and Webhooks.          *)
(***************************************************************************)
EXTENDS Naturals, Sequences

CONSTANTS Workers,
          Servers,    \* config.federation.server
          Secrets,    \* what it gives as the secret of a server
          NodeId,     \* node_id of each server: how this gateway is called there
          Aliases,    \* names of databases and storages that requests ask for
          Matches,    \* the servers whose name and "_" begin an alias, in their order
          Contents,   \* the contents that config.toml may have
          First,      \* the one it has at the start
          MaxEdits,   \* bound: how often it is edited
          Unlockable, \* bound: whether the lock file may be impossible to create
          None

ASSUME LifespanAssumption ==
    /\ Matches \in [Aliases -> Seq(Servers)]
    /\ First \in Contents /\ First.valid
    /\ MaxEdits \in Nat
    /\ Unlockable \in BOOLEAN
    /\ \A c \in Contents : /\ c.valid \in BOOLEAN /\ c.on \in BOOLEAN
                           /\ c.secret \in [Servers -> Secrets \cup {None}]

VARIABLES file,     \* config.toml: its contents and modification time
          lock,     \* whether data/.daemon_lock exists
          phase,    \* of each worker: down, importing, elected, serving
          leader,   \* is_leader
          daemons,  \* whether _daemon_tasks run
          config,   \* ConfigManager._config
          seen,     \* last_mtimes of the watcher; before it starts, of the file that was loaded
          dbOn,     \* _FEDERATION_ENABLED of api/database/handlers.py
          fsOn,     \* _FEDERATION_ENABLED of api/storage/handlers.py
          memo,     \* _ALIAS_TO_SERVER
          secrets,  \* _PROXY_SECRET_CACHE
          sent,     \* external: where the last proxied request went, the secret it carried, the one
                    \* configured for that server, and whether the worker's `rotated' held
          died,     \* history: a leader has ended without releasing the lock
          free,     \* history: a worker leads that could not create the lock
          missed,   \* history: the file was edited after it was loaded and before it was watched
          rotated   \* history: a reload has changed the secret of a server

lifeVars == <<file, lock, phase, leader, daemons, config, seen, dbOn, fsOn, memo, secrets, sent,
          died, free, missed, rotated>>
derived == <<dbOn, fsOn, memo, secrets>>
history == <<died, free, missed, rotated>>

NodeIds == {NodeId[s] : s \in Servers}
Sent  == [to : Servers, secret : Secrets, own : Secrets, rotated : BOOLEAN]

LifeTypeOK ==
    /\ file \in [c : Contents, v : 0..MaxEdits]
    /\ lock \in BOOLEAN
    /\ phase \in [Workers -> {"down", "importing", "elected", "serving"}]
    /\ leader \in [Workers -> BOOLEAN]
    /\ daemons \in [Workers -> BOOLEAN]
    /\ config \in [Workers -> Contents \cup {None}]
    /\ seen \in [Workers -> 0..MaxEdits]
    /\ dbOn \in [Workers -> BOOLEAN] /\ fsOn \in [Workers -> BOOLEAN]
    /\ memo \in [Workers -> [Aliases -> Servers \cup {None}]]
    /\ secrets \in [Workers -> [NodeIds -> Secrets \cup {None}]]
    /\ sent \in Sent \cup {None}
    /\ died \in BOOLEAN /\ free \in BOOLEAN
    /\ missed \in [Workers -> BOOLEAN]
    /\ rotated \in [Workers -> BOOLEAN]

NoRoutes  == [a \in Aliases |-> None]
NoSecrets == [n \in NodeIds |-> None]

LifeInit ==
    /\ file = [c |-> First, v |-> 0]
    /\ lock = FALSE
    /\ phase = [w \in Workers |-> "down"]
    /\ leader = [w \in Workers |-> FALSE]
    /\ daemons = [w \in Workers |-> FALSE]
    /\ config = [w \in Workers |-> None]
    /\ seen = [w \in Workers |-> 0]
    /\ dbOn = [w \in Workers |-> FALSE] /\ fsOn = [w \in Workers |-> FALSE]
    /\ memo = [w \in Workers |-> NoRoutes]
    /\ secrets = [w \in Workers |-> NoSecrets]
    /\ sent = None
    /\ died = FALSE /\ free = FALSE
    /\ missed = [w \in Workers |-> FALSE]
    /\ rotated = [w \in Workers |-> FALSE]

-----------------------------------------------------------------------------
(* A worker starts, is elected or not, and ends.                           *)

\* The modules are imported: the configuration is loaded, the flags are read off it.  A file
\* that does not parse or validate ends the process here.
StartProcess(w) ==
    /\ phase[w] = "down" /\ file.c.valid
    /\ phase' = [phase EXCEPT ![w] = "importing"]
    /\ config' = [config EXCEPT ![w] = file.c]
    /\ seen' = [seen EXCEPT ![w] = file.v]
    /\ dbOn' = [dbOn EXCEPT ![w] = file.c.on]
    /\ fsOn' = [fsOn EXCEPT ![w] = file.c.on]
    /\ UNCHANGED <<file, lock, leader, daemons, memo, secrets, sent, history>>

\* _should_start_daemons: O_CREAT|O_EXCL, and any error but FileExistsError elects as well.
Elect(w) ==
    /\ phase[w] = "importing"
    /\ phase' = [phase EXCEPT ![w] = "elected"]
    /\ \/ leader' = [leader EXCEPT ![w] = ~lock] /\ lock' = TRUE /\ UNCHANGED free
       \/ /\ Unlockable
          /\ leader' = [leader EXCEPT ![w] = TRUE] /\ free' = TRUE
          /\ UNCHANGED lock
    /\ UNCHANGED <<file, daemons, config, seen, derived, sent, died, missed, rotated>>

\* The tables are loaded and the leader starts its daemons, the watcher with the
\* modification time the file has now.
Boot(w) ==
    /\ phase[w] = "elected"
    /\ phase' = [phase EXCEPT ![w] = "serving"]
    /\ daemons' = [daemons EXCEPT ![w] = leader[w]]
    /\ missed' = [missed EXCEPT ![w] = seen[w] # file.v]
    /\ seen' = [seen EXCEPT ![w] = file.v]
    /\ UNCHANGED <<file, lock, leader, config, derived, sent, died, free, rotated>>

\* The process of w is gone, with all that it remembers.
Gone(w) ==
    /\ phase' = [phase EXCEPT ![w] = "down"]
    /\ leader' = [leader EXCEPT ![w] = FALSE]
    /\ daemons' = [daemons EXCEPT ![w] = FALSE]
    /\ config' = [config EXCEPT ![w] = None]
    /\ seen' = [seen EXCEPT ![w] = 0]
    /\ dbOn' = [dbOn EXCEPT ![w] = FALSE] /\ fsOn' = [fsOn EXCEPT ![w] = FALSE]
    /\ memo' = [memo EXCEPT ![w] = NoRoutes]
    /\ secrets' = [secrets EXCEPT ![w] = NoSecrets]
    /\ missed' = [missed EXCEPT ![w] = FALSE]
    /\ rotated' = [rotated EXCEPT ![w] = FALSE]
    /\ UNCHANGED <<file, sent, free>>

\* Mutant: every worker that stops removes the lock file.
StopProcess_releases(w) ==
    /\ phase[w] = "serving"
    /\ lock' = FALSE
    /\ Gone(w)
    /\ UNCHANGED died

\* A graceful end: a leader cancels its daemons and removes the lock file, whosever it is.
StopProcess(w) ==
    /\ phase[w] = "serving"
    /\ lock' = IF leader[w] THEN FALSE ELSE lock
    /\ Gone(w)
    /\ UNCHANGED died

\* The process is killed, or _init_storage_backends raises: the lock file is left behind.
Die(w) ==
    /\ phase[w] # "down"
    /\ died' = (died \/ leader[w])
    /\ Gone(w)
    /\ UNCHANGED lock

-----------------------------------------------------------------------------
(* config.toml is edited and followed.                                     *)

Edit(c) ==
    /\ file.v < MaxEdits /\ c # file.c
    /\ file' = [c |-> c, v |-> file.v + 1]
    /\ UNCHANGED <<lock, phase, leader, daemons, config, seen, derived, sent, history>>

\* Mutant: a file that does not validate ends the watcher.
HotReload_ends(w) ==
    /\ daemons[w] /\ seen[w] # file.v
    /\ seen' = [seen EXCEPT ![w] = file.v]
    /\ \/ /\ file.c.valid
          /\ config' = [config EXCEPT ![w] = file.c]
          /\ dbOn' = [dbOn EXCEPT ![w] = file.c.on]
          /\ memo' = [memo EXCEPT ![w] = IF file.c.on THEN NoRoutes ELSE @]
          /\ rotated' = [rotated EXCEPT ![w] = @ \/ config[w].secret # file.c.secret]
          /\ UNCHANGED daemons
       \/ /\ ~file.c.valid /\ UNCHANGED <<config, dbOn, memo, rotated>>
          /\ daemons' = [daemons EXCEPT ![w] = FALSE]
    /\ UNCHANGED <<file, lock, phase, leader, fsOn, secrets, sent, died, free, missed>>

\* Mutant: the routes are kept.
HotReload_keeps_routes(w) ==
    /\ daemons[w] /\ seen[w] # file.v
    /\ seen' = [seen EXCEPT ![w] = file.v]
    /\ \/ /\ file.c.valid
          /\ config' = [config EXCEPT ![w] = file.c]
          /\ dbOn' = [dbOn EXCEPT ![w] = file.c.on]
          /\ rotated' = [rotated EXCEPT ![w] = @ \/ config[w].secret # file.c.secret]
          /\ UNCHANGED memo
       \/ ~file.c.valid /\ UNCHANGED <<config, dbOn, memo, rotated>>
    /\ UNCHANGED <<file, lock, phase, leader, daemons, fsOn, secrets, sent, died, free, missed>>

\* The watcher notices another modification time.  What validates replaces the configuration,
\* with the flag of the database handlers and, if federation is on, the routes; the flag of
\* the storage handlers and the secrets stay.
HotReload(w) ==
    /\ daemons[w] /\ seen[w] # file.v
    /\ seen' = [seen EXCEPT ![w] = file.v]
    /\ \/ /\ file.c.valid
          /\ config' = [config EXCEPT ![w] = file.c]
          /\ dbOn' = [dbOn EXCEPT ![w] = file.c.on]
          /\ memo' = [memo EXCEPT ![w] = IF file.c.on THEN NoRoutes ELSE @]
          /\ rotated' = [rotated EXCEPT ![w] = @ \/ config[w].secret # file.c.secret]
       \/ ~file.c.valid /\ UNCHANGED <<config, dbOn, memo, rotated>>
    /\ UNCHANGED <<file, lock, phase, leader, daemons, fsOn, secrets, sent, died, free, missed>>

-----------------------------------------------------------------------------
(* Proxied requests.                                                       *)

\* The first server of the configuration whose name begins the alias.
Resolve(c, a) ==
    LET m        == Matches[a]
        Leads(i) == c.secret[m[i]] # None /\ \A j \in 1..(i - 1) : c.secret[m[j]] = None
    IN  IF \E i \in DOMAIN m : Leads(i) THEN m[CHOOSE i \in DOMAIN m : Leads(i)] ELSE None

\* _resolve_server: what is remembered comes first.
Route(w, a) == IF memo[w][a] # None THEN memo[w][a] ELSE Resolve(config[w], a)

\* Mutant: one cached secret for all servers.
SecretFor_any(w, s) ==
    IF \E n \in NodeIds : secrets[w][n] # None
    THEN secrets[w][CHOOSE n \in NodeIds : secrets[w][n] # None] ELSE config[w].secret[s]

\* _build_proxy_headers: the secret is remembered under the name this gateway has there.
SecretFor(w, s) ==
    IF secrets[w][NodeId[s]] # None THEN secrets[w][NodeId[s]] ELSE config[w].secret[s]

\* proxy_request, from a database or a storage handler that takes the alias for a federated
\* one; a server that is not configured is answered 404, as is no server.
Proxy(w, a) ==
    /\ phase[w] = "serving"
    /\ dbOn[w] \/ fsOn[w]
    /\ LET s == Route(w, a)
       IN  /\ s # None
           /\ memo' = [memo EXCEPT ![w][a] = s]
           /\ \/ /\ config[w].secret[s] # None
                 /\ secrets' = [secrets EXCEPT ![w][NodeId[s]] = SecretFor(w, s)]
                 /\ sent' = [to |-> s, secret |-> SecretFor(w, s),
                             own |-> config[w].secret[s], rotated |-> rotated[w]]
              \/ config[w].secret[s] = None /\ UNCHANGED <<secrets, sent>>
    /\ UNCHANGED <<file, lock, phase, leader, daemons, config, seen, dbOn, fsOn, history>>

LifeNext ==
    \/ \E w \in Workers : \/ StartProcess(w) \/ Elect(w) \/ Boot(w) \/ StopProcess(w) \/ Die(w)
                          \/ HotReload(w)
                          \/ \E a \in Aliases : Proxy(w, a)
    \/ \E c \in Contents : Edit(c)

LifeSpec == LifeInit /\ [][LifeNext]_lifeVars

\* The watcher wakes every five seconds.
LifeFairSpec == LifeSpec /\ \A w \in Workers : WF_lifeVars(HotReload(w))

-----------------------------------------------------------------------------
(* Properties.                                                             *)

\* The daemons "must only run in ONE worker" (server/lifespan.py:30): with a lock file that
\* can be created, whatever workers stop, die and start.
OneLeader ==
    free \/ \A v, w \in Workers : daemons[v] /\ daemons[w] => v = w

\* The process that watches config.toml comes to have what is in it, as often as it is
\* edited and whatever it held in between, unless the edit came while the worker started.
FollowsFile ==
    \A w \in Workers :
        leader[w] /\ phase[w] = "serving" /\ ~missed[w] /\ file.c.valid
            ~> config[w] = file.c \/ ~file.c.valid \/ phase[w] # "serving"

\* A request for a database goes where the configuration of its worker says now, although
\* routes are remembered and configurations replaced.
RoutedRight ==
    \A w \in Workers, a \in Aliases :
        dbOn[w] /\ memo[w][a] # None => memo[w][a] = Resolve(config[w], a)

\* What a server gets is its own secret, if this gateway has another name on each server and
\* no secret was changed while the process ran.
OwnSecret ==
    LET distinct == \A s, t \in Servers : NodeId[s] = NodeId[t] => s = t
    IN  distinct /\ sent # None /\ ~sent.rotated => sent.secret = sent.own
=============================================================================
