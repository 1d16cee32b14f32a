# NexusGate in TLA+

NexusGate is a FastAPI server, run by several uvicorn worker processes, that puts one
HTTP interface in front of databases and file storages, with API keys, bans, rate limits,
idempotency keys, circuit breakers, webhooks and a federation of servers. This directory
holds TLA+ modules translated from its Python source, the TLC configurations that check
them, and theorems about them that TLAPS checks.

All paths of code below are relative to the package, `src/` of the repository; lines are
those of the commit the modules were written from. Documents are in `docs/`.

    tlc -workers 2 -config BanStore_safety.cfg MCBanStore.tla
    tlapm BanStoreProofs.tla

Contents: [the system](#the-system) · [the modules](#the-modules) · [the runs](#the-runs) ·
[fairness](#fairness) · [the proofs](#the-proofs) · [findings](#findings) ·
[behaviours observed](#behaviours-observed) · [not modelled](#what-is-not-modelled) ·
[plan](#plan)

## The system

Every worker process runs one asyncio event loop. Code between two `await`s is atomic for
its process; workers share nothing but files: SQLite databases under `data/`, the storage
directories, the configuration, and Redis where it is configured. Most of what is hard in
this code comes from two patterns:

* a coroutine reads or changes a dictionary, awaits a transaction, and changes the
  dictionary again with what it knew before;
* a fact is held twice: in a dictionary of each process, which is what requests are
  checked against, and in a file that all processes share.

### Components

| component | state | operations | what must be right | status |
|---|---|---|---|---|
| Ban registry (`security/storage.py`, `ban_list.py`) | table `bans`; two dictionaries in each worker | ban, unban, check (removes what has expired), reload, startup | a ban acknowledged is enforced; dictionary and table agree | modelled, proved |
| Circuit breaker (`security/circuit_breaker.py`, `storage.py`) | table `circuit_breakers`; a record in each worker | is_open, record_success, record_failure, reset, forked persistence, reload | no record from which the circuit cannot trip or recover; no success invented; the row tells what the worker acts on | modelled, proved |
| Webhook pipeline (`webhook/`) | a queue in each worker; sleeping retries | emit_event, the dispatcher, post, retry | an accepted event is delivered or given up after all its attempts; never two tasks for one delivery | modelled, proved |
| Chunked upload (`api/storage/chunked_upload.py`) | session in the cache; chunk files; target file | initiate, write_chunk_stream, finalize, cancel | a file that was answered for stays; what is counted is on disk | partly (memory cache), proved |
| Federation heartbeat (`api/federation/sync.py`, `state.py`) | `_nodes`, `_CIRCUIT_STATE`, `data/federation.db` | load, seed, poll, persist, sleep | the two stores of failures agree; backoffs are kept over restarts; the file comes to tell the truth | modelled, proved |
| Rate limiter (`server/middleware/rate_limit.py`, `cache/`) | counters, rows, violations and penalties in one of three stores | check_rate_limit | the cap over every stretch of time; penalties earned and kept | modelled, proved |
| Idempotency (`server/middleware/idempotency.py`) | responses in the cache | look up, run, store | a replay is a true answer to that key; an operation runs once | modelled, proved |
| Key store and dynamic configuration (`security/storage.py`, `api/admin/handlers.py`) | tables of keys, databases, webhooks; dictionaries; the configuration object | create, update, revoke, ban and unban a key, define, patch, drop, reload | a revoked key is refused; an administrator remains; a definition that makes reloads fail is not acknowledged; dictionaries and tables agree | modelled, proved |
| Authentication and scopes (`server/middleware/auth.py`, `utils/types.py`) | reads the above | get_auth_context, require_admin | the order of nodes, bans, dynamic and static keys | partly (not the scopes) |
| Daemon election (`server/lifespan.py`) | `data/.daemon_lock` | create, remove on a graceful stop | at most one worker runs the daemons | modelled, proved |
| Configuration reload (`config/loader.py`) | the configuration object; flags and routes derived from it | load, watch, validate, replace | the leader comes to hold what the file says; what is derived agrees with it | modelled |
| Federation proxy (`api/federation/proxy.py`) | remembered routes and secrets | forward | the server the configuration says, with its own secret | partly, proved |
| Database queries (`api/database/`) | cached results and schemas | query, rows, tables, insert | what is answered is committed, and comes from the database that was asked for; a read-only key changes nothing | partly, proved |
| Database pool (`db/`) | engines, created when first used | get, remove, shutdown | the engine is that of the current definition | modelled, proved |
| File operations (`api/storage/`) | the files of a storage; cached listings | upload, copy, move, delete, make folders, bulk forms, list | what was answered is what is on the disk; no direct upload leaves what the scanner rejects | partly, proved |
| Streaming (`api/storage/streaming.py`) | open responses | serve, ranges | what is sent is what was announced and asked for | modelled, proved |
| Scanning, archives, images (`api/storage/`) | none | verdicts, conversions | when a verdict is asked of a direct upload, and what follows; the bytes of a chunked upload are never scanned | partly (the verdict, in direct uploads) |
| MCP server (`api/mcp/`) | sessions of the library | tools that call the handlers above | — | not modelled |
| Firewall, headers, logging, metrics | none, or counters | — | — | not modelled |

### How they interact

A request passes, from the outside in, compression, security headers, request identifier,
CORS, the firewall, **idempotency**, the **rate limiter**, logging and the handler; the
handler's dependencies ask for the headers of a federation node, then for a bearer token,
then the **bans** of its address and key, then the dynamic and the static keys. Because
the idempotency layer is outside the rate limiter, what it stores may be a 429.

Handlers of `/admin` call the ban registry, the breaker and the key store. Adding or
updating a database or a webhook reloads every dictionary of `SecurityStorage`, the bans
and the circuits included; so does a startup. Changing a database also removes its engine from the
pool, after the new definition is in force. File streams consult the breaker
when they start and report to it when they end. Queries and file operations end in
`emit_event`. The cache is shared: upload sessions, idempotent responses, rows of queries,
listings and, in the memory store, rate counters live in one `TTLCache`.

Requests for a database or a storage of another server go through the proxy, whose routes are
remembered until the configuration is reloaded and whose secrets until the worker ends.

The leader, the worker that created the lock file, also runs the dispatcher of webhooks,
the federation heartbeat, the configuration watcher and the log rotator.

### What is hard to test in it

Interleavings at `await`s (bans, keys, circuits, uploads, definitions and engines), tasks that
are forked and forgotten and land late (`storage.py:366`, `circuit_breaker.py:55`),
dictionaries cleared before the `SELECT` that fills them again (`storage.py:156`), a
configuration object that is replaced under those who edit it (`loader.py:146`), threads that
copy and remove folders entry by entry while requests write into them (`file_ops.py:114`), crashes
between a commit and its dictionary, and of a leader that holds the lock file, clocks read
before a lock is awaited (`sqlite_backend.py:182`), a reload that raises half-way (`storage.py:194`), answers lost after they had an effect
(webhooks), retries of what was already done (chunks, idempotency keys), bulk requests that fail
half-way (`handlers.py:403`), full queues, off-by-ones at thresholds, window edges and byte
ranges, and a circuit that has to close again. `PROJECT.json` lists each at its line with the
properties that watch it.

## The modules

`MC*.tla` only declare the model values of the configurations and their symmetry.
History variables (marked so in each module) are written and never read by an action
except to write history.

### BanStore

| TLA+ | code |
|---|---|
| `db`, `cache` | table `bans`; `_bans_cache_ip` and `_bans_cache_key` of each worker, keyed by (type, identifier) |
| `task` | coroutines suspended in an `await` |
| `BeginBan`, `CommitBan`, `ApplyBan` | `ban_entity`: up to the first await; its transaction; the dictionary and the answer |
| `BeginUnban`, `CommitUnban`, `ApplyUnban` | `unban_entity`, which leaves the dictionary alone when its DELETE found no row |
| `CheckExpired` | `check_ban` on an expired entry: drops it and forks `unban_entity`; on other entries it changes nothing (`Refused`) |
| `BeginReload`, `SelectRows`, `FillCache` | `_load_bans`, at a startup and from `_reload_caches` |
| `Fail`, `Crash`, `Tick` | a database error before the transaction, the death of a worker, time |

A duration of 0 is a permanent ban, as in the code (`if duration_seconds`). The `SELECT`
is one step, which is exact for at most 64 bans (the driver fetches rows in
chunks of that size). `list_bans` only reads.

The history variable `alone` holds, for a worker, the entities whose every write since it
last agreed with the table ran there and overlapped nothing else. It makes `AloneAgrees`
say precisely when dictionary and table may be relied on to agree: always, except after an
overlap.

### CircuitBreaker

| TLA+ | code |
|---|---|
| `cache`, `row` | `_circuit_breakers_cache["storage_streaming"]` of each worker; its row |
| `streams` | file streams admitted and not finished |
| `Serve`, `HalfOpen` | `is_open` in `serve_file`, closed or half-open; open with the timeout over |
| `SucceedHalfOpen`, `Recover`, `SucceedElse` | the branches of `record_success` |
| `CountFailure`, `Trip` | the branches of `record_failure` |
| `Abandon` | a client that disconnects: `GeneratorExit` is no `Exception` |
| `Fork`, `Commit`, `Apply` | `_persist_state`: the task it forks, the transaction, and the replacement of the whole record by the snapshot |
| `Reset` | `reset` from the admin handler |
| `BeginReload`, `SelectRow`, `FillCache` | `_load_circuit_breakers` |

Only one key is used in the code. `tripped` is 0 for `None`. `healed` counts the successes
recorded since the circuit half-opened; `clean` marks a worker whose storage coroutines
have not overlapped.

### Webhooks, Delivery

`Delivery` is what the pipeline promises of each delivery (an event and a hook that
matches it): at most so many posts, given up only after all of them, never posted after an
acknowledgement. `Webhooks` is the code; `PromiseKept` says it implements `Delivery` with
`max_retries + 1` posts. The refinement mapping is the identity on the three history
variables `status`, `posts` and `received`; the content is that the queue, the dispatcher's
task and the sleeping retries produce only behaviours the promise allows.

| TLA+ | code |
|---|---|
| `queue`, `current`, `asleep` | `WebhookQueueList._queue`; the task in `dispatcher_worker`; the tasks of `retry_routine` |
| `Emit`, `EmitRaises` | `emit_event` (no await in it); `Room` is `put_nowait` until `QueueFull` |
| `Get`, `PostSucceeds`, `PostFails` | one turn of `dispatcher_worker` |
| `RetryWakes` | `retry_routine` after its sleep, dropped when the queue is full |
| `WorkerStops`, `WorkerStarts` | the end and the start of the worker process |
| `EditRule` | a change of a hook's rule |
| `received` | external: what the subscriber has got, which a failed post may have reached |

The queue is filled in the order in which the hooks are walked. `HookMatches` states that order
without recursion: the hooks that match are the values of a strictly increasing function into the
configured order, so that the module can be proved about.

### ChunkedUpload

One upload with the memory cache (the default). The session is one dictionary that every
request shares and that survives its entry in the cache as long as a request holds it.

| TLA+ | code |
|---|---|
| `SendChunk`, `OpenChunk`, `WriteChunk`, `Conclude` | `write_chunk_stream`: the session is read; `open(.., "wb")`; bytes; hash, count and `set` |
| `BeginFinalize`, `OpenTarget` | `finalize` up to `_reassemble_chunks`, and its open of the target |
| `CheckChunk`, `ReadChunk`, `CloseTarget` | the loop: `os.path.exists`, an await, `open`; the close |
| `Answer` | `rmtree`, `delete` of the session, `_verify_final_hash` |
| `Cancel`, `Expire`, `Crash` | `cancel`, the life of the cache entry, the death of the worker |

The contents of a file are good, damaged or absent. `linked` and `holed` keep what POSIX
says of two writers: a file that is unlinked while open takes the bytes with it, and one
that another truncates loses what was written before. `rmtree` is one step. Without a
checksum the response reports `checksum_verified` true all the same; the module says only
that nothing is verified.

### FederationSync

| TLA+ | code |
|---|---|
| `nodes`, `disk`, `circuit` | `FederationStateManager._nodes`, `data/federation.db`, `_CIRCUIT_STATE` |
| `Start`, `Stop` | `load` and the seeding in `sync_federated_servers`; crash or cancellation |
| `Due`, `Poll`, `NothingDue` | `get_next_retry_nodes` and `_poll_node_with_circuit_breaker` up to the request |
| `AnswerHealthy`, `AnswerFails`, `AnswerGarbled` | the answers, a body that is no report included |
| `Persist`, `PersistFails`, `Wake` | `persist`, the choice of the sleep, its end |
| `Reload` | the configuration replaced with a node added or removed |

`next_retry_at` is kept as the time that is left, so no clock and no bound on it is needed:
every behaviour, of any length, is explored. `last_check` is left out because it changes nothing: a
node that is up has `next_retry_at` 0 and is due at every turn anyway.

### RateLimit

The three implementations of `check_rate_limit` behind one interface.

| TLA+ | code |
|---|---|
| `Keys`, `Address` | `limits_key`, an address and the name of a key; the penalty is kept by address |
| `Counter` | `violation_key`: all of `limits_key`, but with Redis the name alone, which all addresses share (`redis_backend.py:61`) |
| `MemoryAdmits`, `MemoryRefuses` | the fixed windows of `cache/memory.py`, with no await |
| `Arrive`, `SqliteAdmits`, `SqliteRefuses`, `SqlitePenalised` | the clock, and the exclusive transaction of `cache/sqlite_backend.py` that comes later |
| `Arrive`, `RedisPenalised`, `RedisAnswers`, `RedisGoesOn` | the GET of the penalty is sent, read by Redis, and when its answer has come the clock is read |
| `RedisAdmits`, `RedisRefuses` | the script |
| `RedisCounts`, `RedisExpires`, `RedisPenalises` | INCR, EXPIRE and SETEX of `_handle_penalty_application`, a round trip each |
| `StoreFails` | an exception, after which a request is let in uncounted (or ends) |

`PenaltyKept` has to except Redis requests that came before the penalty was set: they may have read
it too early, and their clock and their script come later. `PenaltyEarned` counts refusals where the
store counts them. A counter whose INCR was done and whose EXPIRE was not has no expiry; `Forever`, past the
end of the clock, stands for that. `refused` is bounded by `MaxRefused` for each name.
Left out: two ZADDs of one member at one instant, which Redis merges, and evictions of a
full cache (`TTLCache` holds at least 100 entries).

`CapHeld` is worth an argument. With SQLite and Redis a request may be counted at a time up
to `Delay` before it is admitted, and rows come out of order. Take a stretch of
`Window - Delay` and the last request admitted in it, at time `a`. Its clock is at most `a`,
so the cut it makes is at `a - Window`; an earlier request of the stretch was admitted at
`a - Window + Delay` or later, so its row, at most `Delay` older, is not before the cut, and
has not been cut by another request either. So all of them are rows, and there are at most
`Cap`. The theorem `CapsHeld` follows these lines. The Redis script also drops the row at the edge: one tick less. The memory store
lets in `Cap` at the end of a window and `Cap` at the start of the next. The run was also
made with each stretch one tick longer and each number one smaller: all are violated.

### Idempotency

The middleware around an application that succeeds, refuses (a status below 500 without
effect), answers without a body or fails. A response is named by the request that was run
for it, so `ReplayTrue` can say where a reply came from. `Readable` is the parsing of
`_serve_cached_response`: it accepts what Redis gives back and raises on what the memory
store does. `NotKept` is an error status, a response without a body or a `set` that raised;
`gone` remembers them.

### KeyStore

| TLA+ | code |
|---|---|
| `keyRow`, `banRow`, `entryRow` | the tables `api_keys`, `bans` (those about keys), `databases` and `webhooks` |
| `keys`, `bans`, `config` | `_api_keys_cache`, `_bans_cache_key`, `config.database` and `config.webhook` of each worker |
| `task`, `up` | coroutines suspended in an `await`, of requests and of startups; whether a startup is over |
| `BeginCreate`, `CommitCreate`, `ApplyCreate` | `create_api_key`, the transaction and the dictionary of `add_api_key` |
| `BeginUpdate`, `CommitUpdate`, `ApplyUpdate` | `update_api_key`, which computes every field from the dictionary before its first await and afterwards writes into the dictionary object it holds |
| `BeginRevoke` … `ApplyRevoke`, `CommitBan`, `ApplyBan` | `revoke_api_key`: `delete_api_key`, and `ban_entity` for a name of `config.toml` |
| `BeginBan`, `BeginUnban`, `CommitUnban`, `ApplyUnban` | `ban_key`, for good or for a time, and `unban_key`; `ban_entity` is shared with a revocation |
| `Expire`, `CheckExpired` | the time of a ban comes; `check_ban` drops it from the dictionary and forks a removal of the row, of which `Sweepers` bounds how many are in flight |
| `BeginAdd`, `BeginPatch`, `CommitAdd`, `CommitPatch` | create and update of databases and webhooks up to the reload they end in |
| `BeginDrop`, `CommitDrop`, `ApplyDrop` | `delete_database`, `delete_webhook` |
| `ClearKeys` … `FillEntries`, `FillRaises` | `_reload_caches`, one step per `SELECT` and per stretch between two, and the exception of a row that does not validate |
| `AuthContext`, `Admins` | `get_auth_context`, `require_admin` |
| `HotReload`, `Crash`, `Start`, `Fail` | the watcher replaces the configuration; death; `init_db`; a database error |

Values carry the request that wrote them (a key's secret, each field, a definition), so
`RevocationHolds` can say that *no* secret of a revoked key opens the worker. Dictionaries in
Python are references: `linked` says whether the one an update holds is still in the cache, and
whether the configuration a reload has taken is still the current one. `calm`, `out`
and `contested` are history variables that say when agreement, a revocation and the
remaining administrator are promised. Databases and webhooks are one kind of entry: they are
stored, reloaded and removed alike. `term` says of the ban that a request writes whether it ends, and has
ended (`Live`).

What revokes a key of `config.toml` is a row of `bans`, and that row is not its own: a ban for a time replaces
it, `unban_key` removes it, and so does the removal of an expired ban that any worker has kept in its dictionary,
since it deletes by name. `Undone` takes the key out of `out` when one of these begins, and
`Answered` puts it there only when none is under way. In the instance `Crashes` has only the
leader die; the theorems are about any set of workers.

### Lifespan

| TLA+ | code |
|---|---|
| `file` | `config.toml`, its contents and modification time |
| `lock`, `leader`, `daemons`, `phase` | `data/.daemon_lock`; `is_leader`, `_daemon_tasks` and the stage of each worker |
| `StartProcess`, `Elect`, `Boot` | the import of the modules, which loads the configuration; `_should_start_daemons`; `_init_storage_backends` and `_start_background_daemons` |
| `StopProcess`, `Die` | the end of `lifespan`, which removes the lock file of a leader; a kill or a failing `init_db`, which do not |
| `Edit` | external: an administrator edits `config.toml` |
| `HotReload` | `watch` notices another modification time, `_handle_hot_reload` validates and replaces |
| `dbOn`, `fsOn`, `memo`, `secrets` | what is derived once and kept: `_FEDERATION_ENABLED` of the two handlers, `_ALIAS_TO_SERVER`, `_PROXY_SECRET_CACHE` |
| `Route`, `SecretFor`, `Proxy` | `_resolve_server`, `_build_proxy_headers`, `proxy_request` |

`_should_start_daemons` elects on every `OSError` but `FileExistsError`: `free` marks a run in
which that happened. `missed` marks a worker whose file was edited between its load and
the watcher's first look. `sent` is the last request that went out.

### Database

One worker process; definitions are named by the store their URL leads to, so that an engine of
an old definition can be told from one of the new.

| TLA+ | code |
|---|---|
| `row`, `read`, `config`, `engines`, `cache` | table `databases`; its rows as a reload has read them; `config.database`; `DatabasePoolManager._engines`; the cached results and schemas |
| `EndpointAllows`, `Valid`, `Commits`, `MayStay` | the guards of the endpoints; `validate_query`; what `execute` of an engine commits, and what may stay without |
| `Begin` (`Obtain`) | an endpoint up to its first real await: `get_db_engine` creates the engine or finds it, the definition is read again |
| `Lookup`, `ExecuteRead`, `Store` | `run_query`: the cache, the statement and its event, the cache again |
| `ExecuteWrite`, `ExecuteFails` | one row of `run_bulk_inserts` or one statement, and the event after the last; an exception before or after the commit |
| `Define`, `DefineWebhook`, `Drop` | the administrators' transactions |
| `ReadRows`, `ApplyRows`, `ReloadRaises` | `_sync_dynamic_config`: the `SELECT`, the rows put into the configuration, and the exception of a row that is no definition, after which the rows before it stay and the handler ends in an error |
| `RemoveEngine` | `remove_engine`, reached when the reload did not raise |
| `HotReload`, `Restart`, `Expire` | the configuration replaced; a new process; the life of a cache entry |

Statements are classes by what the parser, the first word and the result make of them: `cte` is
a `WITH` that writes and selects, `withinsert` a `WITH … INSERT … RETURNING`, which no engine commits, but for which Python's `sqlite3`
opens no transaction, so that it may stay. Which row is invalid is left open (`KeyStore` has the invalid rows):
any reload may raise, after any of the rows. `HotReload` replaces the object that a reload is about to fill,
so that what it has read is lost. `stale`, `loose` and `named` are history: `stale` has the databases
whose definition changed without the removal of an engine to follow, by `config.toml`, on behalf of another definition, or
in a reload that raised; `loose` the requests that found such a database or one in change.

### Files

One storage with a POSIX file system (external): a file is a node that goes on
existing for who has it open when its path is moved, removed or replaced. Blocks name the
request that sent them.

| TLA+ | code |
|---|---|
| `BeginUpload`, `Open`, `Write`, `Discard` | `_handle_direct_upload`, `_stream_direct_upload`, `_process_streamed_chunk`: the name is scanned, the target opened `"wb"`, the first block scanned and then written, each written and then counted; what is refused is removed by path |
| `BeginCopy` … `CopyEnd` | `copy_path`: `copytree` entry by entry, or `copy2`, block by block |
| `BeginItems`, `Move`, `Delete`, `Unlink`, `RmtreeScan`, `Rmtree`, `Item` | `rename_path`, `delete_path` and their bulk forms; `rmtree` entry by entry |
| `BeginMkdir` | `mkdir` |
| `BeginDownload`, `Serve`, `StreamOpen`, `Stream`, `Bounds` | `download_file`, `serve_file` (the headers, from a `stat`), the open when the body is sent, the two streamers; `_evaluate_range_bounds` |
| `BeginList`, `Lookup`, `Scandir`, `Store` | `list_folder` and its cache |
| `Crash`, `Expire` | the death of the process; the life of a cache entry |

`Undisturbed` says of a request that no other one that changes anything came near its paths since
it began, directly or through any number of others that did (an upload goes on writing to its file
while one request after another moves it); the promises about contents are made for those.
`NothingDangerous` and the length of a body hold without it. The items of a bulk request keep the
positions they were sent at; `Executed` are those of the complete ones. `results` are what the client is told:
the k-th answer names the k-th of all items, whichever was tried (`handlers.py:778-782`), so that after an
incomplete item of a move the answers name others than were tried. `ItemsToldTruly` is therefore about
items with no incomplete one up to them. `NothingDangerous` is about direct uploads: chunked ones are assembled
without a look at their bytes. `rmtree` is modelled by path. On Linux it works on open directories, and a
folder that is renamed while it is removed goes on losing its entries: the removal and the rename have
then come near each other, and the properties promise nothing of the trees of such requests. `Goal` is where a copy really
goes (`copy2` into a folder keeps the name of the file), and `CopyWhole` leaves out the parts of the source
that the copy itself lies in: a folder copied into itself is listed before its copy is made. `First` and
`Final` say of a range which blocks it asks for. Two things are bounded in the module itself and not by
a configuration: paths have at most two names, so that a folder in a folder is empty, and bulk requests
two items.

## The runs

| run | instance | distinct states | what it shows |
|---|---|---|---|
| `ban_safety` | 2 workers, 1 entity, 2 coroutines, clock 0–2, permanent and short bans, reloads, failures, crashes | 257 k | dictionary and table disagree only after an overlap; the window of a reload closes (liveness) |
| `circuit_reload` | 1 worker, 2 coroutines, 2 streams, thresholds of 2, clock 1–4, failures counted to 4, resets, reloads, crashes | 1.7 M | every record is sound; no success is invented; the row tells what the worker acts on |
| `webhooks_safety` | 2 events, 2 hooks, queue of 2, 1 retry, one editable rule, restarts | 317 k | one task per delivery, `Delivery` implemented, every accepted task ends (liveness) |
| `upload_safety` | 2 chunks, each sent twice, 3 requests, corruption, crashes | 334 k | an answered file stays; a counted chunk is stored |
| `federation_safety` | 2 nodes, threshold 2, backoffs of 2 and 3 ticks, sleeps of 1 to 3 | 387 k | circuits and states agree, backoffs kept, and two liveness properties of the file |
| `ratelimit_safety` | 2 requests of 2 addresses with one name, cap 1, window 3, cooldown 2, threshold 2, delay 1, clock 0–5, 2 refusals | 4.05 M | the cap over every stretch; penalties earned and kept, in the three stores |
| `idempotency_safety` | 3 requests, 2 keys | 264 k | replays are true; with Redis no run after a kept response |
| `keystore_safety` | 2 workers, one of them the leader, 2 administrators, 1 dynamic key, 1 database that is static too, 2 requests, 1 removal of an expired ban, failures, crashes of the leader, restarts, reloads of `config.toml` | 981 k | an answered revocation holds; an administrator remains; a definition that stops reloads is never acknowledged; without overlaps dictionaries, configuration and tables agree |
| `lifespan_safety` | 2 workers, 2 servers, 2 aliases, 4 contents of the file (one invalid), 2 edits | 389 k | one leader; routes and secrets agree with the configuration; the leader comes to follow the file (liveness) |
| `database_safety` | 2 databases, one static and one dynamic, 2 stores, 2 requests of clients of 6 forms (`ClientSends`), 1 of an administrator, 1 about a webhook, reloads that raise, inserts of 2 rows | 3.8 M | the engine is the current one; what was answered or told of is committed, whole; a read-only key changes nothing; rows come from the database asked for |
| `files_safety` | 4 paths (two folders and a name in each), 3 requests of about thirty forms, 2 blocks allowed, crashes | 3.0 M | uploads, copies, moves and deletions did what they answered; nothing rejected is left; bodies are as announced |
| `files_listing` | the same with listings only | counterexample | the finding below |

The type invariants are proved for all constants; those of `Webhooks`, `KeyStore` and `Files`, which say
more than types, are in their runs as well. Every property of a passing run has a mutant in `PROJECT.json`: a plausible bug, written as
a variant of a definition, that makes TLC find the property violated.

### Why the bounds are enough

* Two coroutines in flight are the least in which one overtakes another; every hazard
  listed for bans, circuits, keys and definitions is about a pair. A chunked upload gets three
  requests (a chunk, and two finalizes that remove each other's files), and so do the files of a
  storage (a request, one that disturbs it, and one that moves what the other is writing).
* One ban of duration 1 and a clock of 2 let a ban expire, be removed lazily and be
  replaced. Entities do not interact (an entity is one key of a dictionary and one row).
* Thresholds of 2 separate the first, an intermediate and the last failure or success;
  `MaxFailures` of 4 lets the count pass the threshold twice, which late snapshots do.
* The TLC run of the breaker has one worker, because two with reloads
  exceed the time allowed; the theorems cover any number.
* A queue of two with four deliveries overflows by new events and by a retry that wakes.
* A window of three ticks and the stretch after it fit in a clock of five, and the wait of one tick makes requests
  reach the store out of order. Two addresses with one name show what Redis shares between them; a cap of 1 and a
  threshold of 2 let a second refusal, at either address, be the one that earns the penalty.
* Federation has no time bound at all; the backoff of 2 is the exponential one and that of
  3 the capped one.
* Two administrators are the least that can revoke each other, and two workers the least of which one
  has not heard. The entry is static and dynamic at once, which is every case of the merge.
* Two edits let a file become invalid and valid again, or change twice; four contents are a server with
  both, with one, federation off, and nothing valid. One alias begins with the names of both servers.
* Two stores behind two databases: a definition can change to a store of the other one, and the answer
  of the wrong one is seen. The statements of a read-only key are one that is stopped
  by the missing commit and two that the validator stops. The request about a webhook is a reload on behalf of something else. The table holds a definition at the start, so that it can be dropped.
* A folder, a file in it and a free name beside it give every case of `rename`, `copytree` and `rmtree`
  (onto a file, a folder, nothing, itself moved away); two blocks separate the first, the last
  and one too many. Ranges are explicit and suffix, within and beyond the file.

`CHECK_DEADLOCK FALSE` is given where a bound is what stops the model: no request is left to
send, or the clock has reached its end.

## Fairness

* `BanStore`: weak fairness of each step of a coroutine. The event loop resumes a coroutine
  whose await is over, and aiosqlite's thread runs every statement it is given. Nothing is
  assumed of requests, of crashes or of time.
* `Webhooks`: weak fairness of `Get` (the dispatcher loops for ever in a running worker), of
  the answer of a post (httpx gives up at its timeout) and of each wake (a sleep
  ends). A worker that is stopped need not be started again.
* `FederationSync`: weak fairness of the steps of the loop, of time, and of each answer
  (`per_node_timeout`); `Start`, because a supervisor restarts the worker. Strong fairness
  of `Persist`: the disk does not refuse every transaction for ever. The liveness properties
  are conditional on the worker no longer being stopped and on the node having settled on
  one kind of answer.

* `Lifespan`: weak fairness of `HotReload`, because the watcher wakes every five seconds. Starts,
  elections and requests are assumed of nobody.

The other modules state safety only.

## The proofs

The type invariants of all modules, and the properties below, hold for all values of the
constants that satisfy the named assumptions of the modules (naturals, positive thresholds;
values like `None` that are none of the things they are told apart from; of `FederationSync` that
powers of two are naturals, which the provers do not know; of `RateLimit` that there are finitely
many requests; of `Files` that paths are sequences of at most two names whose fronts are paths or the root,
that the files at the start lie in folders, and that a value of none is no path, node, request or task).
Sets of workers, entities, coroutines,
servers and databases may be infinite.

A proof module may be about several components: `MiddlewareProofs` about `RateLimit` and
`Idempotency`, `DaemonProofs` about `Lifespan`, `FederationSync` and `Webhooks`. It extends them
together, which is why the initial predicate, the next-state relation and the type invariant of
all but one of them carry a prefix (`IdemInit`, `LifeInit`, `HookInit`).

**BanStore: `AloneAgreement`.** `AloneAgrees` speaks of quiet states only. `Inv` adds what
holds in between: `AloneStates` (a write of an alone entity runs at this worker, overlaps
nothing, and until it commits the dictionary and the table still agree; once it has, the
table holds what the write will put in the dictionary) and `FreshStates` (a reload whose
entity no write has touched has read the row as it still is, and holds nothing or the truth
in the dictionary meanwhile). Time is the subtle case: an entry that expires between the
commit and the dictionary counts as none on both sides (`Live`).

**CircuitBreaker: `RecordsAlwaysSound`, `NoSuccessInvented`, `DiskAgreement`.** `Inv` adds
`SnapshotsSound`: the row, every snapshot in flight and whatever a reload has read are sound
and, if half-open, count no success. That is why a snapshot may land at any time: it can
lose successes but never leave a half-open circuit below its failure threshold, from which it
would not trip, nor an open one without a trip time, from which it would not recover.
`DiskInv` is independent of it: `CleanStates` and `FreshReloads` say for a worker without
overlaps what the one update in flight is about to make of the row.

**ChunkedUpload: `AnsweredFile`** (assuming the session has a checksum). `Inv` adds
`SoleStates`: a finalize that no other one has overlapped has its target to itself, so that
what it has read is what the file holds; `SettledStates`: after an answer given alone there is
no session and no request, hence nothing from which a later request could start — this is
what makes the session that `Conclude` sets again harmless; `NothingBefore` and `InLoop`
are about initiation and the loop index. **`CountedStored`** has an invariant of its own: a chunk
that was sent once has at most one coroutine that writes it, a counted one has none, and until
the directory is removed the file that was written is the one the path leads to.

**FederationSync: `CircuitsTold`, `BackoffsKept`.** `Asked` says that answers are awaited by a
running loop only, of nodes whose circuit is closed: this is why a count cannot pass
the threshold. `OwedHeld` says where a backoff is kept: in the state in memory while the loop
runs and in the row on disk while it is stopped, unless a stop came before it was
persisted. Without it nothing relates what a failure owed to what the next start loads.

**Idempotency: `ReplaysTrue`, `OnlyOverlapsRunTwice`.** `CacheTrue` and `RepliesTrue` say that an entry,
and a reply that is another request's, is the stored response of a request of that key that is
over; nothing changes such a request any more (`OverStays`). `KeptFound` says that with
Redis a key has an entry as long as one of its requests is over and not gone, and
`EarlierOver` that a request which was over stays over; a request that is run has found no entry.

**Lifespan: `AtMostOneLeader`, `RoutesRight`, `SecretsKept`.** `Led` adds to "at most one leads"
that the lock file exists exactly while somebody leads or a leader has died without removing
it, and that after such a death nobody leads: this is why a second election fails, and why the
release of a lock that is not one's own does not happen as long as `free` does not hold.
`RoutedRight` is inductive with the type of the configuration (`Loaded`): a reload either clears
the routes or turns federation off for the handler that would use them. `SecretsOwn` says it of
what is remembered, from which `OwnSecret` follows for what is sent, provided that names of nodes
are distinct.

**Webhooks: `TasksSingle`, `PromiseHeld`.** `HookInv` has `OneTask` in parts: what waits is held
somewhere (`WaitingHeld`), once in its worker (`HeldOnce`) and in no other one (`HeldApart`).
`Ledger` says that the attempt a task names is the number of its posts, so that a retry that sleeps
has one left; this is what makes the last failure give up after exactly `max_retries + 1`
posts. With it each action is mapped to one of `Delivery`: `Emit` accepts the deliveries that had
room and loses the others, `EmitRaises` loses them all, `Get` posts, an answer and a retry that finds the queue full
finish, a stop ends all that its worker held, and the rest stutters. The fairness
of `Delivery` is not part of the refinement.

**KeyStore: `RevocationsHold`, `AdministratorsRemain`, `PoisonIsReported`, `CalmWorkersAgree`.** All
rest on `Shape`, which says of each coroutine which stages its kind has. `Revoked` says what
keeps a revocation: of a dynamic key that no row, no entry, no creation under way and no `SELECT` already
made has it (`Forgotten`); of a key of `config.toml` that the row of its ban is there and has no end, that nothing under way
would remove it or give it one, and that the worker has such a ban or a reload that will fill it
(`Banned`, of bans that are `Firm` and `Unchallenged`). `AdminInv` says that some administrator
is neither banned nor about to be, because no request revokes or bans the one it is made as.
`Poison` says that the request that stored an invalid definition is still going to reload it, and will raise,
or was answered with an error. `CalmInv` has, for a worker whose only coroutine is at a given
stage, what its dictionaries still differ from the tables by: before, between and after the three
clears and fills of a reload, and between each commit and its dictionary; bans that are over count as none on
both sides (`SameBans`). `Told` says that only a request of `ban_key` writes a ban with an end.

**Files: `NothingDangerousStored`.** `Clean` says it of every block of every file, also of those that
no path leads to any more: a copy reads block by block what somebody else may be writing, and a rename
puts any file anywhere, so that nothing weaker is inductive. `StepFits` says what a
request has with it at each step: that an upload past its first block was let through, and that
the item of a bulk request lies beyond its results.

**Files: `UploadToldTruly`, `CopyIsWhole`, `ItemsTold`, `BodyAsAnnounced`.** They say what an answer is worth
at any later time, for requests that were `Undisturbed`, and follow from one invariant, `WholeInv`
(`WholeInvariance`), which TLC checked first. It has three layers.

* *The disk* (`DiskInv`). `IsTree`: what is there lies in a folder, and a file is at one path only, which is
  what makes a rename take it away from where it was. `NodesNew`: a file that a request may still make is
  nowhere. `TodoFits`: what is left of a `copytree` or an `rmtree` is below what was named.
* *Who can still write* (`HandlesNear`). An upload or a copy goes on writing to its file after others have
  moved it. The file is then at a path that some request `m` named, and the writer is `Connected` with `m`: every
  `Closed` set of requests that has `m` has the writer. This is why `Undisturbed` is defined with closed
  sets, and not by comparing paths with those of the request alone: a file that was moved twice lies where
  nothing that its writer named is near, and is still written to.
* *How far each request is* (`Progress`). `UploadFits`: the file at the path has exactly the blocks written so
  far. `CopyFits`: each part of the source is like its image, or still to do, or being copied (`InCopy`). `ItemsGo`:
  as many results as items tried, the k-th named k, and what one took away is `Gone`. `BodyFits`: what was sent is the
  part of the file up to the block it has reached.

`Acts` states once what any step of any request may do to the tree, to handles and to contents; a lemma for
each action shows that it does no more. From it come `DiskInv` again and `LeftAlone`: a step of another
request changes nothing at or below the paths of one that stays undisturbed, and no file
there. Each kind of request then needs only its own steps.

**Database: `EnginesCurrent`, `CreatesPermitted`, `ReadonlyCommitsNothing`, `AnswersOwn`,
`AnsweredCommitted`.** `Placed` says of a task what kind of statement waits where. `EngineCurrent`
is inductive: a reload changes definitions of others only with their names in `stale`, and its own is in change until
`remove_engine`, or stale when it raised. `Checked` carries the verdict of the validator to the moment the statement is executed: by
then the definition may be another one, but the engine of the task was current when the definition was
read, unless the request is `loose`. `Known` and `RunsOwn` say that engines, cached rows and tasks hold
stores that their database has been defined as. `Going` and `Told` count the rows of a write: while
it runs exactly those before its index are committed, in the store of its engine.

**RateLimit: `PenaltiesKept`, `PenaltiesEarned`.** A Redis request reads whether its address is
penalised, then the clock, and is counted in later round trips; `ReadBefore` says that a penalty it could
overlook was set after it came, and so lasts for the cooldown from then at least. `Tallied` bounds what each counter says plus those
that are refused and not yet counted (a cardinality) by the refusals of the key or, with Redis, of the name.
`CapHeld` follows from `Covered`: as long as a stretch may go on, each request admitted in it has its row,
of those no older than `Delay` before it. Rows and admissions are sets of stamps, a time and a number that
tells apart what happens at one time, so that a cut or a new row changes a cardinality by what it takes or
adds. For the memory store `Windows` says instead that the count of an entry is no less than the
admissions since its window opened, and bounds those before and after the opening apart.

All steps of the proofs follow one form: one lemma per action, one step per conjunct
it may disturb, and a last theorem that combines them with temporal logic.

Every invariant and every action property that a passing run checks is a theorem. Not proved, and left to
TLC, is everything temporal beyond them (the prover handles neither fairness nor ENABLED):
`RowEventuallyEnforced`, `Settles`, `DeadNoticed`, `Recovers` and `FollowsFile`.

## Findings

**A cached listing is a page that is taken for the whole** (`api/storage/handlers.py:679`, run
`files_listing`). `list_folder` caches the items of the page that missed the cache, under a key
without limit and offset, and slices them again on a hit. The comment at `handlers.py:678` says
that the full result is cached. While the entry lives, the second page of a folder is empty
although the first one told `has_more`. `PROJECT.json` quotes the text and the lines.

## Behaviours observed

Met while modelling, visible in the modules as actions and states, and not claimed by a run of
their own. Where a property of a passing run would be false because of one of them, its
statement says so.

Texts of the repository that the code does not keep:

* The lazy removal of an expired ban is forked and deletes by entity whatever row is there when it
  runs (`storage.py:366`): a ban placed meanwhile, "a strict network-level lockout"
  (`ban_list.py:24`), is lost.
* Events of a worker that is not the leader wait in the queue of a process without a dispatcher
  (`lifespan.py:88`), although "a background worker picks up the event" (`docs/WEBHOOKS.md:11`).
* A chunk sent twice counts for two (`chunked_upload.py:108`): `finalize` goes ahead where its message
  (`:122`) would be "Incomplete blob sequence detected", truncates the target and removes it with every
  chunk when it finds one missing.
* A node whose circuit has opened never rejoins (`sync.py:86`): only a success lowers the count, and no
  request is made while it is high. `docs/FEDERATION.md:131` says it is skipped until its backoff expires.
* With the memory store idempotency does nothing (`idempotency.py:98`): bytes are stored, text is
  expected, the exception is swallowed, and the operation runs again; see `docs/SECURITY.md:63`.
* Two servers configured with one `node_id` share an entry of `_PROXY_SECRET_CACHE` (`proxy.py:105`): the
  second is sent the secret of the first. `docs/FEDERATION.md:66` calls `node_id` "your identity on" that
  server, so that one name everywhere is natural; `sync.py` keeps its own cache in the same way.
* `limit` and `mode` of storages and `mode` of databases (`docs/CONFIGURATION.md:125`, `:142`) are read
  from the configuration and enforced by nothing.

The rest:

* A snapshot forked before a trip and applied after it puts the circuit back to half-open
  (`storage.py:410`): the worker serves before the timeout has passed. The same happens across
  workers through reloads. `RecordsSound` shows that it will trip again on its next failure.
* The dictionaries of bans are per worker: a ban or unban made through one
  worker is unknown to the others until they reload (`storage.py:334`); this needs more
  than the one worker that `workers = 0` starts (`main.py:20`). While a reload runs, nothing is banned (`storage.py:156`).
  Two overlapping writes of one entity may leave the dictionary the opposite of the table.
* A hook whose rule has a second `@` passes the schema and makes `emit_event` raise for
  every hook (`emitter.py:86`), in a handler whose statement is already committed.
* A chunk removed between `exists` and `open` leaves the target partly merged, since only
  the first is guarded (`chunked_upload.py:45`, `:21`). A corrupted retry removes a chunk that
  was counted (`:103`). The memory cache drops a session after `default_ttl`, 60 s, not the
  3600 s it asks for.
* Federation: nodes that a reload adds are not seeded, hence not polled until a restart; a
  body that is no health report changes nothing, so that the node stays up; nodes that are up
  are polled every turn whatever `sync_interval` says; open circuits are forgotten by a restart,
  though the file still says down.
* Rate limiter: with the memory store a window longer than `cache.default_ttl` is shortened to
  it. The SQLite counter of violations is neither reset nor deleted, so that after the
  threshold each refusal is a penalty; nor are violations consecutive in any store
  (`schema.py:62` says they are). Redis counts them by the name of the key for all addresses
  (`redis_backend.py:61`): refusals at one address earn the penalty of another, and all anonymous clients share a
  counter. The limit of a key is read once per process. A store that
  fails while a violation is written lets the refused request in.
* Idempotency: two overlapping requests of one key both run; a 429 is stored and replayed for
  the whole `idempotency_ttl`; with `cache.backend = "sqlite"` the memory store is
  used, and its entries live for `default_ttl`.
* Keys: a key created under the name of an administrator of `config.toml` shadows it in the worker that
  created it, and in all after their next reload, so that it is refused; `docs/API.md:482` promises
  protection from lockout for bans and revocations only. Two revocations that overlap, or go through two
  workers, shut both administrators out. Two creations of one name at once are both answered, and the
  first one's secret opens nothing. The revocation of an administrator of `config.toml` is a ban by
  name: a ban for a time, an unban, and the removal of an expired ban that any worker still had in its dictionary
  (`storage.py:364`) each let the key in again. An update computes all fields from the dictionary, so that
  of two at once one is lost; a revocation pops a key that was created meanwhile. While a reload runs,
  and after one that failed, dictionaries are empty, and dynamic keys are refused.
* Dynamic configuration: `POST /databases` stores NULL for what is not given, `DatabaseDefConfig` rejects
  it, and from then on every reload and every startup fails at that row until the table is repaired. Deleting a
  dynamic database whose name is in `config.toml` too removes the static one until the next start. An
  edit of `config.toml` makes the leader forget all dynamic definitions until the next write.
* Daemons: when the leader dies, or its `init_db` fails, the lock file stays and nobody runs the
  daemons until it is removed by hand. An error other than "exists" elects every worker. Only the leader
  follows `config.toml`, and not an edit made while it started. A reload that turns federation
  on starts no heartbeat, does not reach the storage handlers' flag, and one that turns it off
  leaves the routes. An alias that begins with the names of two servers goes to the first.
* Database requests: between a change of a definition and `remove_engine` requests use the old engine
  with the new definition, and with the definition gone `KeyError` is a 500. Edits of `config.toml`, and
  reloads on behalf of another database, remove no engine. Cached rows survive writes and
  redefinitions for their lifetime. A reload that raises, at the row of another database or a webhook, comes after the new
  definition and before `remove_engine` (`handlers.py:376`, `:437`): the request is a 500, and the old engine goes on under the
  new definition, a permissive one too. `WITH … INSERT … RETURNING` is answered, and told to subscribers, and may have
  been rolled back: it is never committed, and stays only where the driver opened no transaction. A failing row of a bulk insert leaves those before it committed without an event.
* Files: an upload opens its target under its own name, so that one that is refused has destroyed the
  file that was there, a crash leaves a part, and two to one path mix, both answered. `Discard` removes what is
  at the path by then. `rmtree` may remove a file whose upload is answered afterwards. Incomplete operations
  of a bulk move are left out beforehand, and the results are named by the positions of all (`handlers.py:778-782`): after an
  incomplete one another item than was moved is told as done. Chunked uploads are never scanned. The
  headers of a download are of the file at the time of the `stat`, the bytes of that at the open. A
  suffix range longer than the file, and an end beyond it, are answered 416.
* The tools of the MCP server call the handlers with the authentication of whoever opened the stream.

## What is not modelled

* **Parts of modelled components**: the Redis cache under `ChunkedUpload` (where each request has its own
  copy of the session, and counts are lost) and two chunked uploads to one path; scopes of keys over
  databases and storages (set membership); `list_databases`, the count of `get_rows`, columns, the
  construction of `WHERE` clauses and queries distributed over servers; the mesh of the proxy, the
  streamed body and the endpoints that answer other nodes; usage of storages, archives of folders,
  entity tags.
* **Left out for good**: the firewall (stateless pattern tests), headers, identifiers, CORS,
  logging and the rotation of logs, metrics and health reports (they read the other components),
  signatures of files, archives and images (verdicts about bytes and conversions by libraries), the
  MCP sessions (the library's), the database drivers.
* **Abstracted**: payloads, signatures, response bodies and file contents, to what the
  properties tell apart; the length of a retry's sleep (it may wake at any time); the
  several keys of a dictionary where they do not interact.

## Plan

Done, in this order: `BanStore`, `CircuitBreaker`, `Delivery` and `Webhooks`, `ChunkedUpload`,
`FederationSync`, `RateLimit`, `Idempotency`, `KeyStore`, `Lifespan`, `Database`, `Files`, with proofs of
all of them.

1. **Composition**: `Lifespan` in place of the constants `Dispatchers` of `Webhooks` and of the starts and
   stops of `FederationSync`: at most one dispatcher, and none after a leader that died.
2. **ChunkedUpload** over a cache that hands out copies; two uploads to one path, with `Files`.
3. **Files** with deeper folders: the bound of two names is used by the proofs wherever what is below a
   folder is taken for its children.
4. **Database**: distributed queries and the mesh, with the failures that are dropped on the way.

One run per question is kept.
