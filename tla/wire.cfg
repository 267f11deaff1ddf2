SPECIFICATION Spec
CONSTANTS
    r1 = r1
    r2 = r2
    r3 = r3
    p1 = p1
    p2 = p2
    ReadLoop = ReadLoop
    Requesters = {r1, r2}
    Paths = {p1, p2}
    PathOf <- TwoDocuments
    MaxAnswers = 1
SYMMETRY Symmetry
INVARIANTS
    TypeOK
    RequestAfterOpen
CHECK_DEADLOCK FALSE
