SPECIFICATION Spec
CONSTANTS
    t1 = t1
    t2 = t2
    Threads = {t1, t2}
    Ref <- TwoSingles
    Size = 2
    MaxPages = 3
    Value = {0}
    Zero = 0
    NoPage = NoPage
    NoFrame = NoFrame
    OverlappingGets = TRUE
INVARIANTS
    TypeOK
    TableSound
    DirtyHasPage
