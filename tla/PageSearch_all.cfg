SPECIFICATION Spec
CONSTANTS
    Key = {0, 1, 2, 3, 4}
    MaxSlots = 6
INVARIANTS
    TypeOK
    WindowInPage
    AnswerRight
PROPERTIES
    WindowHalves
