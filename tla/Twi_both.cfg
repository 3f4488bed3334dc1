SPECIFICATION Spec
CONSTANTS
    BUF = 1
    Ops = {"W"}
    Timeouts = {"none"}
    Roles = {"both"}
    Noise = FALSE
    RemoteBytes = 2
INVARIANTS
    TypeOK
    
    StopsOnlyOurs
