\* One thread and a glove that answers within the timeout: losses, damaged
\* frames, failed sends and reconnections do not put the replies out of step.
CONSTANTS
    t1 = t1
    t2 = t2
    Threads = {t1}
    Ops = {"connect", "disconnect", "exchange", "receive", "reset"}
    MaxCalls = 6
    MaxQueue = 2
    ReplyDelay = 20
    ReceiveTimeout = 100
    Faults = {"lose", "damage", "malform", "sendError", "socketError", "setupError"}
SPECIFICATION Spec
INVARIANTS
    RepliesMatch
CHECK_DEADLOCK FALSE
