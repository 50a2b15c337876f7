\* One thread that starts, stops, calibrates and destroys, another that reads and calibrates.
CONSTANTS
    owner = owner
    user = user
    loop = loop
    Callers = {owner, user}
    Loops = {loop}
    SpawnMayFail = TRUE
    Applications <- MCApplications
    MaxCalls <- MCMaxCalls
    Poses <- MCPoses
    MaxMoves = 1
SPECIFICATION Spec
INVARIANTS
    TypeOK
    NoDataRace
    AnglesBounded
    NoTerminate
    FlagMeansThread
    NoOrphanLoop
PROPERTIES
    CacheCatchesUp
    CallsReturn
CHECK_DEADLOCK FALSE
