-------------------------------- MODULE Wire --------------------------------
(***************************************************************************)
(* The Wire library, libraries/Wire/Wire.cpp, over the driver of Twi: the  *)
(* calls a sketch makes, and the two services the driver's handler calls   *)
(* back, which share rxBuffer (in) and txBuffer (out) with the sketch.     *)
(*                                                                         *)
(* Byte values tell who made a byte: the sketch writes 1, 2, ..., a device *)
(* answers -1, -2, ..., the request callback replies from 50 up, another   *)
(* master sends from 60 or 70 up, alternating between its messages.        *)
(***************************************************************************)
EXTENDS Twi

VARIABLES
    rxBufferIndex, rxBufferLength, txBufferIndex, txBufferLength, transmitting,
    at,      \* where the sketch is inside a Wire call
    reg,     \* the register in which write() keeps the new index
    said,    \* history: the bytes write() accepted since beginTransmission()
    owner,   \* history: whose bytes the sketch was last told rxBuffer holds
    turn,    \* history: which of its two marks another master's next message has
    reply    \* history: bytes the request callback wrote for the current request

wire_rx == <<rxBufferIndex, rxBufferLength>>
wire_tx == <<txBufferIndex, txBufferLength, transmitting>>
history == <<said, owner, turn, reply>>
wireVars == <<wire_rx, wire_tx, at, reg, history>>
allVars == <<vars, wireVars>>

ReplyByte(x)     == 50 + x
RemoteByte(t, x) == 60 + 10 * t + x

WireInit ==
    /\ Init
    /\ rxBufferIndex = 0 /\ rxBufferLength = 0
    /\ txBufferIndex = 0 /\ txBufferLength = 0 /\ transmitting = FALSE
    /\ at = "idle" /\ reg = 0 /\ said = <<>> /\ owner = "none" /\ turn = 0 /\ reply = 0

InSketch == pc = "idle" /\ Running
twi      == <<soft, master, slave, pc, call, isr, hard, seen>>

(***************************************************************************)
(* The sketch as master                                                    *)
(***************************************************************************)
beginTransmission ==
    /\ at = "idle" /\ InSketch /\ "W" \in Calls
    /\ transmitting' = TRUE /\ txBufferIndex' = 0 /\ txBufferLength' = 0
    /\ said' = <<>>
    /\ UNCHANGED <<vars, wire_rx, at, reg, owner, turn, reply>>

RoomToWrite == txBufferLength < BUF

\* write() stores the byte and its index, and then the length: two steps,
\* because a request callback may come between them.
WriteStore ==
    /\ at = "idle" /\ InSketch /\ transmitting /\ RoomToWrite
    /\ out' = [x \in DOMAIN out \union {txBufferIndex} |->
                 IF x = txBufferIndex THEN Len(said) + 1 ELSE out[x]]
    /\ said' = Append(said, Len(said) + 1)
    /\ txBufferIndex' = txBufferIndex + 1 /\ reg' = txBufferIndex + 1
    /\ at' = "write"
    /\ UNCHANGED <<twi, in, wire_rx, txBufferLength, transmitting, owner, turn, reply>>

WriteLength ==
    /\ at = "write" /\ InSketch
    /\ txBufferLength' = reg
    /\ at' = "idle" /\ reg' = 0
    /\ UNCHANGED <<vars, wire_rx, txBufferIndex, transmitting, history>>

endTransmission(s) ==
    /\ at = "idle" /\ "W" \in Calls
    /\ Call("W", txBufferLength, s)
    /\ at' = "tx"
    /\ UNCHANGED <<wire_rx, wire_tx, history, reg>>

KeepsLength == txBufferLength
Emptied == 0

EndDone ==
    /\ at = "tx" /\ InSketch
    /\ txBufferIndex' = 0 /\ txBufferLength' = Emptied /\ transmitting' = FALSE
    /\ at' = "idle" /\ said' = <<>>
    /\ UNCHANGED <<vars, wire_rx, owner, turn, reply, reg>>

\* A longer request is cut to the buffer; none at all reads nothing.
requestFrom(q, s) ==
    /\ at = "idle" /\ "R" \in Calls
    /\ IF q = 0
       THEN /\ InSketch
            /\ rxBufferIndex' = 0 /\ rxBufferLength' = 0 /\ at' = at
            /\ UNCHANGED vars
       ELSE /\ Call("R", Smaller(q, BUF), s)
            /\ at' = "rx"
            /\ UNCHANGED wire_rx
    /\ UNCHANGED <<wire_tx, history, reg>>

AsAsked == Smaller(len, BUF)
AsRead == ret

RequestDone ==
    /\ at = "rx" /\ InSketch
    /\ rxBufferIndex' = 0 /\ rxBufferLength' = AsRead
    /\ owner' = "request"
    /\ at' = "idle"
    /\ UNCHANGED <<vars, wire_tx, said, turn, reply, reg>>

\* read() takes the byte and then moves the index past it.
ReadByte ==
    /\ at = "idle" /\ InSketch /\ rxBufferIndex < rxBufferLength
    /\ at' = "read"
    /\ UNCHANGED <<vars, wire_rx, wire_tx, history, reg>>

ReadNext ==
    /\ at = "read" /\ InSketch
    /\ rxBufferIndex' = rxBufferIndex + 1
    /\ at' = "idle"
    /\ UNCHANGED <<vars, rxBufferLength, wire_tx, history, reg>>

end ==
    /\ at = "idle" /\ InSketch
    /\ Disabled
    /\ at' = "ended"
    /\ UNCHANGED <<soft, master, slave, data, pc, call, isr, status, twdr, seen,
                   wire_rx, wire_tx, history, reg>>

\* begin() empties the buffers but does not end a transmission.  (Without end()
\* it is not called during a repeated start: what the peripheral then does with
\* the withdrawn TWSTA is not known.)
begin ==
    /\ InSketch
    /\ at = "ended" \/ (at = "idle" /\ ~inRepStart)
    /\ rxBufferIndex' = 0 /\ rxBufferLength' = 0
    /\ txBufferIndex' = 0 /\ txBufferLength' = 0
    /\ Initialise
    /\ at' = "idle" /\ said' = <<>>
    /\ UNCHANGED <<slarw, error, timedOut, master, slave, data, pc, call, isr, twint, status,
                   twdr, link, bus, seen, transmitting, owner, turn, reply, reg>>

(***************************************************************************)
(* The services, inside the handler                                        *)
(***************************************************************************)
NeverInUse == FALSE
RxInUse == rxBufferIndex < rxBufferLength

\* onReceiveService(): the callback reads some of the bytes, the sketch the rest.
onReceiveService ==
    /\ IsrSlaveStop
    /\ IF rxindex = 0 \/ RxInUse
       THEN UNCHANGED <<in, wire_rx, owner, turn>>
       ELSE /\ in' = [x \in 0 .. BUF - 1 |-> IF x < rxindex THEN RemoteByte(turn, x) ELSE in[x]]
            /\ rxBufferIndex' \in 0 .. rxindex /\ rxBufferLength' = rxindex
            /\ owner' = "remote" /\ turn' = 1 - turn
    /\ UNCHANGED <<out, wire_tx, at, said, reply, reg>>

\* onRequestService(): the callback replies with n bytes.  write() puts them in
\* txBuffer if it takes itself to be in a transmission.  Both callbacks of the
\* user are taken to be registered.
onRequestService(n) ==
    /\ reply' = n
    /\ txBufferIndex' = IF transmitting THEN n ELSE 0
    /\ txBufferLength' = txBufferIndex'
    /\ IF transmitting
       THEN /\ IsrSlaveRequest(0)
            /\ out' = [x \in DOMAIN out |-> IF x < n THEN ReplyByte(x) ELSE out[x]]
       ELSE IsrSlaveRequest(n) /\ out' = out
    /\ UNCHANGED <<in, wire_rx, transmitting, at, said, owner, turn, reg>>

WireSketch ==
    \/ beginTransmission \/ WriteStore \/ WriteLength \/ EndDone
    \/ (\E s \in BOOLEAN : endTransmission(s) \/ \E q \in 0 .. BUF + 1 : requestFrom(q, s))
    \/ RequestDone \/ ReadByte \/ ReadNext \/ end \/ begin

Services == onReceiveService \/ \E n \in 0 .. BUF : onRequestService(n)

Driver == CallStep \/ ClearTimeoutFlag \/ MasterHandler \/ SlaveHandler \/ Peripheral \/ Others

WireNext == (WireSketch \/ Services \/ (Driver /\ UNCHANGED wireVars)) /\ UNCHANGED settings

WireSpec == WireInit /\ [][WireNext]_allVars
=============================================================================
