SPECIFICATION FairSpec
CONSTANTS
    t1 = t1
    t2 = t2
    t3 = t3
    Inserters = {t1, t2}
    Scanners = {}
    Objects = 1
    Key = {1, 2, 3, 4, 5}
    LeafCap = 2
    NodeCap = 1
    Duplicates = FALSE
    NoScan = NoScan
    NULL_PTR = NULL_PTR
    MaxPages = 99
INVARIANTS
    TypeOK
    ChainKeepsKeys
    PagesFilled
    LeftIsBefore
    NoPanic
PROPERTIES
    CallsEnd
