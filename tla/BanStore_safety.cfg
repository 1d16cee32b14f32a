\* Two workers, expiry, reloads and crashes: two coroutines in flight.
CONSTANTS
    w1 = w1
    w2 = w2
    ip1 = ip1
    key1 = key1
    s1 = s1
    s2 = s2
    s3 = s3
    Workers = {w1, w2}
    Entities = {ip1}
    Slots = {s1, s2}
    Durations = {0, 1}
    MaxTime = 2
    Reloads = TRUE
    Crashes = TRUE
    Never = Never
    NoBan = NoBan
SPECIFICATION FairSpec
INVARIANTS
    AloneAgrees
PROPERTY RowEventuallyEnforced
