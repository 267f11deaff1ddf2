SPECIFICATION FairSpec
CONSTANTS
    sc = sc
    Calls = {sc}
    ShutdownCall = sc
    NoCall = NoCall
    s1 = s1
    Stoppers = {s1}
    PipeCap = 1
PROPERTY ShutdownEnds
CHECK_DEADLOCK FALSE
