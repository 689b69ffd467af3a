SPECIFICATION Spec
CONSTANTS
    t1 = t1
    t2 = t2
    Threads = {t1, t2}
    Ref <- TwoSingles
    Size = 1
    MaxPages = 2
    Value = {0}
    Zero = 0
    NoPage = NoPage
    NoFrame = NoFrame
    OverlappingGets = TRUE
INVARIANT
    PinnedStaysCached
