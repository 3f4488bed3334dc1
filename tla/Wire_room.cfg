SPECIFICATION WireSpec
CONSTANTS
    BUF = 2
    Ops = {"W"}
    Timeouts = {"none"}
    Roles = {"both"}
    Noise = FALSE
    RemoteBytes = 1
INVARIANTS
    RoomMeansSlot
