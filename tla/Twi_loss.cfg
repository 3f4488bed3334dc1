SPECIFICATION Spec
CONSTANTS
    BUF = 2
    Ops = {"W", "R"}
    Timeouts = {"none"}
    Roles = {"both"}
    Noise = FALSE
    RemoteBytes = 1
INVARIANTS
    LossReported
