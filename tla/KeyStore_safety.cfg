\* Two workers, two administrators, one dynamic key, one database that config.toml has too.
CONSTANTS
    w1 = w1
    w2 = w2
    a1 = a1
    a2 = a2
    k1 = k1
    f1 = f1
    f2 = f2
    n1 = n1
    db1 = db1
    db2 = db2
    r0 = r0
    r1 = r1
    r2 = r2
    s1 = s1
    Workers = {w1, w2}
    Leader = w1
    Static = {a1, a2}
    Dynamic = {k1}
    Fields = {f1}
    Nodes = {n1}
    Entries = {db1}
    StaticEntries = {db1}
    Past = r0
    Requests = {r1, r2}
    Sweepers = {s1}
    Crashes = {w1}
    HotReloads = TRUE
    Toml = Toml
    None = None
SYMMETRY Symmetric
SPECIFICATION Spec
INVARIANTS
    TypeOK
    RevocationHolds
    AdminRemains
    PoisonReported
    CalmAgrees
CHECK_DEADLOCK FALSE
