\* One owner that calls everything, or two that initialize and shut down.
CONSTANTS
    c1 = c1
    c2 = c2
    Clients = {c1, c2}
    Applications <- MCApplications
    MaxCalls = 5
    Loops = {1, 2}
    SpawnMayFail = TRUE
SPECIFICATION Spec
INVARIANTS
    TypeOK
    PartsBacked
    NoUseAfterFree
    NoTerminate
    NoOrphanLoop
    QuietWhenDown
PROPERTIES
    CallsReturn
CHECK_DEADLOCK FALSE
