\* One owner, and an update thread that cannot be created.
CONSTANTS
    c1 = c1
    c2 = c2
    Clients = {c1, c2}
    Applications <- MCApplications
    MaxCalls = 2
    Loops = {1, 2}
    SpawnMayFail = TRUE
SPECIFICATION Spec
INVARIANTS
    RunningMeansLoop
CHECK_DEADLOCK FALSE
