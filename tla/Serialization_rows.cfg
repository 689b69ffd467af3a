SPECIFICATION Spec
CONSTANTS
    Word = 8
    CharSizes = {2, 3}
    Rows <- SomeRows
    Calls <- SomeCalls
    MaxReads = 2
    Keys <- SomeKeys
INVARIANTS
    TypeOK
    RoundTrip
    TupleCarriesRow
    BytesKeepOrder
PROPERTIES
    ErrorsStick
