\* Two databases, one of them in config.toml, two stores behind them, two requests of clients, one of an
\* administrator about a database and one about a webhook.
CONSTANTS
    d1 = d1
    d2 = d2
    s1 = s1
    s2 = s2
    r1 = r1
    r2 = r2
    a1 = a1
    h1 = h1
    DBs = {d1, d2}
    Stores = {s1, s2}
    Permissive = {s2}
    Toml <- TomlDefinitions
    Earlier <- EarlierRows
    Clients = {r1, r2}
    Sends <- ClientSends
    Admins = {a1}
    Hooks = {h1}
    MaxRows = 2
    Reloads = TRUE
    Failing = TRUE
    None = None
SYMMETRY Symmetric
SPECIFICATION Spec
INVARIANTS
    EngineCurrent
    CreatesWherePermitted
    ReadonlyHarmless
    AnsweredIsCommitted
    AnswersOwnDatabase
CHECK_DEADLOCK FALSE
