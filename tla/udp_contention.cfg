\* Two threads share the client; everything that can fail does.
CONSTANTS
    t1 = t1
    t2 = t2
    Threads = {t1, t2}
    Ops = {"connect", "disconnect", "exchange"}
    MaxCalls = 2
    MaxQueue = 2
    ReplyDelay = 150
    ReceiveTimeout = 100
    Faults = {"lose", "duplicate", "damage", "receiveError", "setupError"}
SPECIFICATION Spec
INVARIANTS
    TypeOK
    SocketStable
    NoDescriptorLeak
    ExchangesCounted
PROPERTIES
    TransportSpec
    CallsReturn
CHECK_DEADLOCK FALSE
