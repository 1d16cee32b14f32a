\* Two nodes, one of them removed and added again; a backoff of two or three ticks, a sleep of one to three.
CONSTANTS
    n1 = n1
    n2 = n2
    Nodes = {n1, n2}
    Editable = {n2}
    Threshold = 2
    BackoffMax = 3
    SyncInterval = 2
    DegradedSleep = 1
    IdleSleep = 3
    NoState = NoState
SPECIFICATION FairSpec
INVARIANTS
    CircuitTold
PROPERTIES
    BackoffKept
    DeadNoticed
    Recovers
