\* One thread uses the SDK while another shuts it down.
CONSTANTS
    c1 = c1
    c2 = c2
    Clients = {c1, c2}
    Applications <- MCUseAndShutdown
    MaxCalls = 2
    Loops = {1, 2}
    SpawnMayFail = FALSE
SPECIFICATION Spec
INVARIANTS
    NoUseAfterFree
CHECK_DEADLOCK FALSE
