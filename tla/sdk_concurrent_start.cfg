\* Two threads call start() on an initialized SDK.
CONSTANTS
    c1 = c1
    c2 = c2
    Clients = {c1, c2}
    Applications <- MCConcurrentStart
    MaxCalls = 2
    Loops = {1, 2}
    SpawnMayFail = FALSE
SPECIFICATION Spec
INVARIANTS
    NoTerminate
CHECK_DEADLOCK FALSE
