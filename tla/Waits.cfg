SPECIFICATION WaitsSpec
CONSTANTS
  Parts = {"clock", "tone", "transfer", "stream", "string", "pulse"}
  TOP = 4  TICK_US = 1  MS = 3  FRACT_UNIT = 1  BYTE = 4  U32 = 16  MaxPending = 2  MaxLag = 1  Delays = {2}
  TonePins = {1, 2}  F_CPU = 32768  Frequencies = {1, 4, 32, 2000}  Durations = {0, 2, 5}  OCR_MAX = 7  HALF = 2
  Letters = {"a", "b"}  MaxTarget = 3  MaxSent = 4  TIMEOUT = 1
  Characters = {"a", "_"}  BLANK = "_"  WIDTH = 8  MaxText = 3  Reckless = FALSE
  DEPTH = 2  Lengths = {1, 3, 6}
  ULONG = 14  Timeouts = {0, 2, 5}  LAG = 1
INVARIANTS
    TypeOK
    ClockTrue
    DelayNotEarly
    ToneTrue
    OwnReplies
    
    
PROPERTIES
    AllReturn
CHECK_DEADLOCK FALSE
