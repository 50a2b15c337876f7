\* The same prompt glove and a perfect network, but two threads.
CONSTANTS
    t1 = t1
    t2 = t2
    Threads = {t1, t2}
    Ops = {"connect", "exchange"}
    MaxCalls = 2
    MaxQueue = 2
    ReplyDelay = 20
    ReceiveTimeout = 100
    Faults = {}
SPECIFICATION Spec
INVARIANTS
    RepliesMatch
CHECK_DEADLOCK FALSE
