\* Two events, two hooks and a queue for two tasks: overflow, retries and restarts.
CONSTANTS
    w1 = w1
    w2 = w2
    e1 = e1
    e2 = e2
    h1 = h1
    h2 = h2
    Processes = {w1}
    Dispatchers = {w1}
    Events = {e1, e2}
    Hooks = {h1, h2}
    HookOrder <- TwoHooks
    EditableHooks = {h2}
    QueueSize = 2
    MaxRetries = 1
    Restarts = TRUE
    NoTask = NoTask
SPECIFICATION HookFairSpec
INVARIANTS
    HookTypeOK
    OneTask
PROPERTIES
    PromiseKept
    Settles
