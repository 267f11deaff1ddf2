SPECIFICATION Spec
CONSTANTS
    c1 = c1
    sc = sc
    s1 = s1
    Calls = {c1, sc}
    ShutdownCall = sc
    NoCall = NoCall
    Stoppers = {s1}
    PipeCap = 2
INVARIANTS
    TypeOK
    SendNeverBlocks
    OwnReply
    SlotsReleased
PROPERTY RefinesRpcSession
CHECK_DEADLOCK FALSE
