SPECIFICATION HandlersSpec
CONSTANTS
  INTS = {0, 1}  Numbers = {0, 255}  Triggers = {{}, {0}}  Others = {0}
  Pins = {1, 2, 3}  SLOTS = 2  Modes = {0, 2}
  Objects = {1, 2}  RX_BUFF = 3  MaxFrames = 4
  Outputs = {1, 2}  Duties = {0, 60, 120, 255}  U16 = 8  BYTE_ = 4  DECIMAL = 3  Bases = {1, 2, 3, 4}
INVARIANTS
    TypeOK
    
    EdgesSeen
    ReceivedTrue
    Obeyed
    Computes
