SPECIFICATION Spec
CONSTANTS
    ra = ra
    rb = rb
    fa = fa
    fb = fb
    p1 = p1
    c1 = c1
    c2 = c2
    q1 = q1
    T = T
    TM = TM
    TU = TU
    struct = struct
    interface = interface
    Absent = Absent
    Repos = {ra, rb}
    Files = {fa, fb}
    RepoOf <- MCRepoOf
    NameOf <- MCNameOf
    Versions <- MCVersions
    Cycles = {c1, c2}
    RepoFor <- BothForA
    Searches = {}
    TargetOf <- MCTargetOf
    KindsOf <- MCKindsOf
    MaxLive = 2
    DeleteBatch = 1
    Refusable = {}
    MaxEdits = 0
    MaxEnds = 1
INVARIANT PruneSparesProduced
CHECK_DEADLOCK FALSE
