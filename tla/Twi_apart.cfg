SPECIFICATION TimedSpec
CONSTANTS
    BUF = 2
    Ops = {"W", "R"}
    Timeouts = {"none", "plain", "reset"}
    Roles = {"master", "slave"}
    Noise = TRUE
    RemoteBytes = 2
INVARIANTS
    
    HandedOver
    
PROPERTIES
    CallReturns
