\* Two requests in flight, two addresses with one key between them, a window of three ticks and a
\* clock of five.
CONSTANTS
    r1 = r1
    r2 = r2
    a1 = a1
    a2 = a2
    k1 = k1
    Requests = {r1, r2}
    Addresses = {a1, a2}
    Names = {k1}
    Cap = 1
    Window = 3
    CacheTtl = 3
    Cooldown = 2
    Threshold = 2
    Delay = 1
    MaxTime = 5
    MaxRefused = 2
    None = None
SPECIFICATION Spec
SYMMETRY Symmetric
INVARIANTS
    CapHeld
    PenaltyEarned
PROPERTIES
    PenaltyKept
CHECK_DEADLOCK FALSE
