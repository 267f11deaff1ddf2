SPECIFICATION FairSpec
CONSTANTS
    a = a
    b = b
    u1 = u1
    u2 = u2
    c1 = c1
    None = None
    Repos <- TwoRepos
    Updates <- TwoUpdates
    Calls <- OneCall
INVARIANTS
    TypeOK
    JobsExclusive
    SlotMeansJob
    CollectorStopsFirst
    DrainedBeforeClose
PROPERTY RunEnds
CHECK_DEADLOCK FALSE
