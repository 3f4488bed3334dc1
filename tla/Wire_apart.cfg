SPECIFICATION WireSpec
CONSTANTS
    BUF = 2
    Ops = {"W", "R"}
    Timeouts = {"none", "reset"}
    Roles = {"master", "slave"}
    Noise = FALSE
    RemoteBytes = 2
INVARIANTS
    SentAsWritten
    
PROPERTIES
    UnreadKept
