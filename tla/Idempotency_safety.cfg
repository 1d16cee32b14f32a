\* Three requests of two keys, overlapping or one after the other, with either store.
CONSTANTS
    r1 = r1
    r2 = r2
    r3 = r3
    k1 = k1
    k2 = k2
    Mutations = {r1, r2, r3}
    IdemKeys = {k1, k2}
    Absent = Absent
SPECIFICATION IdemSpec
INVARIANTS
    ReplayTrue
PROPERTIES
    SequentialOnce
CHECK_DEADLOCK FALSE
