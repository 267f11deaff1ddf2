SPECIFICATION QuerySpec
CONSTANTS
    ra = ra
    rb = rb
    fa = fa
    fb = fb
    p1 = p1
    c1 = c1
    c2 = c2
    q1 = q1
    T = T
    TM = TM
    TU = TU
    struct = struct
    interface = interface
    Absent = Absent
    Repos = {ra, rb}
    Files = {fa, fb}
    RepoOf <- MCRepoOf
    NameOf <- MCNameOf
    Versions <- MCVersions
    Cycles = {c1, c2}
    RepoFor <- BothForA
    Searches = {q1}
    TargetOf <- MCTargetOf
    KindsOf <- MCKindsOf
    MaxLive = 2
    NamesOf <- MCNamesOf
    RepoFilters = {ra}
    AnyRepo = AnyRepo
    LiveScan = TRUE
    MaxResults = 1
    DeleteBatch = 1
    Refusable = {TU}
    MaxEdits = 1
    MaxEnds = 1
SYMMETRY Symmetry
INVARIANTS
    QueryTypeOK
    CycleExact
    RepeatHeals
    NotFoundMeansAbsent
    FiltersHold
PROPERTIES
    LosesOnlyMissed
    ReposIndependent
CHECK_DEADLOCK FALSE
