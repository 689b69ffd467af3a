SPECIFICATION FairSpecOnPool
CONSTANTS
    t1 = t1
    t2 = t2
    Inserters = {t1}
    Scanners = {t2}
    Objects = 1
    Key = {1, 2, 3, 4}
    LeafCap = 2
    NodeCap = 1
    Frames = 3
    Ranges <- SomeRanges
    Duplicates = FALSE
    NoScan = NoScan
    NULL_PTR = NULL_PTR
INVARIANTS
    ScanComplete
    ChainKeepsKeys
    FewReferences
PROPERTIES
    RefsReturned
