SPECIFICATION Spec
CONSTANTS
    Key = {1, 2, 3, 4, 5}
    Sizes = {2, 3}
    PageSize = 24
    Header = 4
    Slot = 2
    Word = 64
INVARIANTS
    TypeOK
    CheckPreventsCollision
    ContiguousIsThere
    SplitMakesRoom
    SplitPartitions
