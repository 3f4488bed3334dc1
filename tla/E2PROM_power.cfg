SPECIFICATION FairSpec
CONSTANTS
    PAGE = 4
    FREE = 2
    WORD = 2
    U16 = 16
    Asked = {0, 1, 2, 3}
    Safe = {TRUE, FALSE}
    MaxCalls = 2
    MaxPut = 2
INVARIANTS
    TypeOK
    ReservedKept
    NothingDropped
PROPERTIES
    ImplementsNvm
    CallReturns
