\* One worker with reloads: two storage coroutines in flight.
CONSTANTS
    w1 = w1
    w2 = w2
    s1 = s1
    s2 = s2
    s3 = s3
    Workers = {w1}
    Slots = {s1, s2}
    FailureThreshold = 2
    SuccessThreshold = 2
    Timeout = 1
    MaxStreams = 2
    MaxFailures = 4
    MaxTime = 4
    Resets = TRUE
    Reloads = TRUE
    Crashes = TRUE
    NoRow = NoRow
SPECIFICATION Spec
SYMMETRY Symmetry
INVARIANTS
    RecordsSound
    SuccessesRecorded
    PersistedWhenQuiet
