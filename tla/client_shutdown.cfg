SPECIFICATION FairSpec
CONSTANTS
    sc = sc
    Calls = {sc}
    ShutdownCall = sc
    NoCall = NoCall
    s1 = s1
    s2 = s2
    Stoppers = {s1, s2}
    PipeCap = 1
INVARIANTS
    ShutdownReaps
PROPERTIES
    DeathReleasesCalls
    DeadSessionShutsDown
    DrainedShutdownEnds
CHECK_DEADLOCK FALSE
