SPECIFICATION Spec
CONSTANTS
    t1 = t1
    t2 = t2
    Threads = {t1, t2}
    Ref <- TwoThreads
    Size = 2
    MaxPages = 3
    Value = {0, 1}
    Zero = 0
    NoPage = NoPage
    NoFrame = NoFrame
    OverlappingGets = FALSE
INVARIANTS
    PinsCountRefs
    PinnedStaysCached
    FramesAccounted
    NoPanic
    OneFramePerPage
PROPERTIES
    ExhaustedOnlyWhenAllPinned
    ReadsCurrent
    StoreSpec
