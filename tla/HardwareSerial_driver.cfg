SPECIFICATION FairSpec
CONSTANTS
    TX_SIZE = 2
    RX_SIZE = 2
    MaxWrites = 4
    MaxFrames = 2
    Reopen = FALSE
INVARIANTS
    InOrder
    UdrieMeansData
    PromisesKept
PROPERTIES
    FlushDrains
    ImplementsPort
    Progress
