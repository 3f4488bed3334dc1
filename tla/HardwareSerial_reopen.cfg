SPECIFICATION Spec
CONSTANTS
    TX_SIZE = 3
    RX_SIZE = 2
    MaxWrites = 3
    MaxFrames = 0
    Reopen = TRUE
INVARIANTS
    UdrieMeansData
