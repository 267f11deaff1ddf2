SPECIFICATION Spec
CONSTANTS
    r1 = r1
    r2 = r2
    r3 = r3
    p1 = p1
    p2 = p2
    ReadLoop = ReadLoop
    Requesters = {r1, r3}
    Paths = {p1, p2}
    PathOf <- TwoDocuments
    MaxAnswers = 0
INVARIANT
    FramesIntact
CHECK_DEADLOCK FALSE
