----------------------------- MODULE SoftSerial -----------------------------
(***************************************************************************)
(* libraries/SoftwareSerial: objects that share one receive buffer and one *)
(* pin-change handler, which receives for the object that listens.  The    *)
(* sketch runs one access to shared state per step.                        *)
(***************************************************************************)
EXTENDS Integers, Sequences

CONSTANTS
    Objects,    \* SoftwareSerial objects
    RX_BUFF,    \* slots of the buffer (code: _SS_MAX_RX_BUFF)
    MaxFrames   \* bound: frames that arrive

NULL == 0
Quiet == <<NULL, 0>>
ASSUME SoftAssumption ==
    Objects \subseteq Nat \ {NULL} /\ RX_BUFF \in Nat \ {0, 1} /\ MaxFrames \in Nat

VARIABLES
    active_object,   \* the object that listens: a pointer is two bytes
    buffer, tail, head, overflow,
    begun,           \* objects that begin() has given their delays
    rxMask, rxFlag,     \* the pins that interrupt, and the pending interrupt
    line,            \* the frame on each pin: object and number
    pc, this, byte,  \* the sketch: place, object, and the byte that read() has taken
    frames,          \* history: frames so far
    kept, got,       \* history: bytes saved and not yet read, and the last one read
    late,            \* history: an interrupt was pending when the mask was cleared
    tornObject             \* history: the handler called half of one pointer and half of another

ring == <<buffer, tail, head, overflow>>
pinState == <<rxMask, rxFlag, line>>
softVars == <<active_object, ring, begun, pinState, pc, this, byte, frames, kept, got, late, tornObject>>

Whole(o) == <<o, o>>

SoftInit ==
    /\ active_object = Whole(NULL)
    /\ buffer = [k \in 0..RX_BUFF - 1 |-> Quiet] /\ tail = 0 /\ head = 0 /\ overflow = FALSE
    /\ begun = {} /\ rxMask = {} /\ rxFlag = FALSE
    /\ line = [o \in Objects |-> Quiet]
    /\ pc = "idle" /\ this = NULL /\ byte = Quiet
    /\ frames = 0 /\ kept = <<>> /\ got = Quiet /\ late = FALSE /\ tornObject = FALSE

-----------------------------------------------------------------------------
(* begin(), listen(), stopListening() and end() *)

Call(o, place) == pc = "idle" /\ pc' = place /\ this' = o

begin(o) ==
    /\ begun' = begun \union {o}
    /\ Call(o, "listen")
    /\ UNCHANGED <<active_object, ring, pinState, byte, frames, kept, got, late, tornObject>>

\* The object that listens does nothing more; any other first stops that one.
listen(o) ==
    /\ o \in begun /\ Call(o, "listen")
    /\ UNCHANGED <<active_object, ring, begun, pinState, byte, frames, kept, got, late, tornObject>>

Listening == active_object[1]

end(o) ==
    /\ Listening = o /\ Call(NULL, "mask")
    /\ UNCHANGED <<active_object, ring, begun, pinState, byte, frames, kept, got, late, tornObject>>

Listen ==
    /\ pc = "listen"
    /\ pc' = IF Listening = this THEN "idle" ELSE IF Listening = NULL THEN "reset" ELSE "mask"
    /\ this' = IF Listening = this THEN NULL ELSE this
    /\ UNCHANGED <<active_object, ring, begun, pinState, byte, frames, kept, got, late, tornObject>>

Cleared == rxMask \ {Listening}

\* setRxIntMsk(false) of the object that listened
Mask ==
    /\ pc = "mask" /\ rxMask' = Cleared
    /\ pc' = "nullLow" /\ late' = (late \/ rxFlag)
    /\ UNCHANGED <<active_object, ring, begun, rxFlag, line, this, byte, frames, kept, got, tornObject>>

Store(from, half, o, to) ==
    /\ pc = from /\ pc' = to
    /\ active_object' = [active_object EXCEPT ![half] = o]
    /\ UNCHANGED <<ring, begun, pinState, byte, frames, kept, got, late, tornObject>>

NullLow  == Store("nullLow", 1, NULL, "nullHigh") /\ this' = this
NullHigh == Store("nullHigh", 2, NULL, IF this = NULL THEN "idle" ELSE "reset") /\ this' = this

KeepsTail == tail
ResetTail == 0

\* _receive_buffer_head = _receive_buffer_tail = 0
Reset ==
    /\ pc = "reset" /\ pc' = "thisLow"
    /\ overflow' = FALSE /\ tail' = ResetTail /\ head' = 0
    /\ kept' = <<>>
    /\ UNCHANGED <<active_object, buffer, begun, pinState, this, byte, frames, got, late, tornObject>>

ThisLow  == Store("thisLow", 1, this, "thisHigh") /\ this' = this
ThisHigh == Store("thisHigh", 2, this, "unmask") /\ this' = this

UnmaskRx ==
    /\ pc = "unmask"
    /\ rxMask' = rxMask \union {this}
    /\ pc' = "idle" /\ this' = NULL
    /\ UNCHANGED <<active_object, ring, begun, rxFlag, line, byte, frames, kept, got, late, tornObject>>

-----------------------------------------------------------------------------
(* read() and available(), for the object that listens *)

read(o) ==
    /\ Listening = o
    /\ IF head = tail
       THEN got' = Quiet /\ UNCHANGED <<pc, this, byte>>
       ELSE Call(o, "free") /\ byte' = buffer[head] /\ got' = got
    /\ pc = "idle"
    /\ UNCHANGED <<active_object, ring, begun, pinState, frames, kept, late, tornObject>>

Free ==
    /\ pc = "free"
    /\ head' = (head + 1) % RX_BUFF
    /\ got' = byte /\ kept' = Tail(kept)
    /\ pc' = "idle" /\ this' = NULL /\ byte' = Quiet
    /\ UNCHANGED <<active_object, buffer, tail, overflow, begun, pinState, frames, late, tornObject>>

available == (tail + RX_BUFF - head) % RX_BUFF

-----------------------------------------------------------------------------
(* The pins and the handler.  recv() takes the whole frame, interrupts off. *)

StartBit(o) ==
    /\ line[o] = Quiet /\ frames < MaxFrames
    /\ frames' = frames + 1
    /\ line' = [line EXCEPT ![o] = <<o, frames + 1>>]
    /\ rxFlag' = (rxFlag \/ o \in rxMask)
    /\ UNCHANGED <<active_object, ring, begun, rxMask, pc, this, byte, kept, got, late, tornObject>>

\* The frame ends, received or not.
StopBit(o) ==
    /\ line[o] # Quiet
    /\ o \in rxMask => ~rxFlag
    /\ line' = [line EXCEPT ![o] = Quiet]
    /\ UNCHANGED <<active_object, ring, begun, rxMask, rxFlag, pc, this, byte, frames, kept, got, late, tornObject>>

EverySlot == tail + 1
NextTail == (tail + 1) % RX_BUFF

Room == NextTail # head

\* The edges of the frame leave the interrupt pending: the next call sees no start bit.
recv(o) ==
    /\ IF line[o] = Quiet
       THEN rxFlag' = FALSE /\ UNCHANGED <<ring, line, kept, rxMask>>
       ELSE /\ line' = [line EXCEPT ![o] = Quiet] /\ rxFlag' \in BOOLEAN /\ rxMask' = rxMask \union {o}
            /\ IF Room
               THEN /\ buffer' = [buffer EXCEPT ![tail] = line[o]] /\ tail' = NextTail
                    /\ kept' = Append(kept, line[o]) /\ UNCHANGED <<head, overflow>>
               ELSE overflow' = TRUE /\ UNCHANGED <<buffer, tail, head, kept>>

handle_interrupt ==
    /\ rxFlag
    /\ tornObject' = (tornObject \/ active_object[1] # active_object[2])
    /\ IF active_object[1] = active_object[2] /\ active_object[1] # NULL
       THEN recv(active_object[1])
       ELSE rxFlag' = FALSE /\ UNCHANGED <<ring, line, kept, rxMask>>
    /\ UNCHANGED <<active_object, begun, pc, this, byte, frames, got, late>>

Sketch ==
    \/ \E o \in Objects : begin(o) \/ listen(o) \/ end(o) \/ read(o)
    \/ Listen \/ Mask \/ NullLow \/ NullHigh \/ Reset \/ ThisLow \/ ThisHigh \/ UnmaskRx \/ Free

SoftNext == Sketch \/ handle_interrupt \/ \E o \in Objects : StartBit(o) \/ StopBit(o)
=============================================================================
