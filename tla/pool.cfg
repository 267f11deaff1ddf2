SPECIFICATION FairSpec
CONSTANTS
    r1 = r1
    r2 = r2
    r3 = r3
    k1 = k1
    c1 = c1
    c2 = c2
    None = None
    Requests = {r1, r2, r3}
    Keys = {k1}
    KeyOf <- OneKey
    Closers = {c1, c2}
    MaxTries = 2
INVARIANTS
    TypeOK
    SingleFlight
    OneServingSession
    HandedReady
    ClosedPoolEmpty
    NoSessionOutlivesPool
PROPERTY RequestsReturn
CHECK_DEADLOCK FALSE
