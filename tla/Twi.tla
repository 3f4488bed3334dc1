-------------------------------- MODULE Twi --------------------------------
(***************************************************************************)
(* The I2C driver of libraries/Wire/utility/twi.c: twi_writeTo() and       *)
(* twi_readFrom() in the sketch, ISR(TWI_vect), and the TWI peripheral     *)
(* they talk through, on a bus with a device and perhaps another master.   *)
(*                                                                         *)
(* The sketch runs one access to shared state per step, and may complete   *)
(* one with the interrupt already pending; the handler is one step per     *)
(* interrupt, except where twi_stop() spins inside it.  The bytes a caller *)
(* hands to twi_writeTo() are 1, 2, ..., a device sends -1, -2, ... in     *)
(* every read.  Wire always waits, so the argument wait is TRUE.           *)
(***************************************************************************)
EXTENDS Integers, Sequences

CONSTANTS
    BUF,          \* TWI_BUFFER_LENGTH
    Ops,          \* what a sketch that is a master calls: a subset of {"W", "R"}
    Timeouts,     \* what setWireTimeout() may choose
    Roles,        \* what this node may be on its bus
    Noise,        \* TRUE: illegal START and STOP conditions occur
    RemoteBytes   \* bound on the bytes another master sends us in one go

ASSUME BufAssumption     == BUF \in Nat /\ BUF > 0
ASSUME OpsAssumption     == Ops \subseteq {"W", "R"}
ASSUME TimeoutAssumption == Timeouts \subseteq {"none", "plain", "reset"}
ASSUME BusAssumption     == /\ Roles \subseteq {"master", "slave", "both"}
                            /\ Noise \in BOOLEAN /\ RemoteBytes \in Nat

VARIABLES
    \* chosen before the first call: the timeout, and the only master on the bus,
    \* a slave, or both (another master uses the bus and may address us)
    timeout, role,
    \* twi.c
    state, slarw, sendStop, inRepStart, error, timedOut,
    mbuf, mindex, mlength, txindex, txlength, rxindex,
    \* the caller's buffers: what a write sends, where a read puts the bytes
    out, in,
    \* the sketch: program counter, operation, its length and stop flag,
    \* return value
    pc, op, len, stopArg, ret,
    \* the handler: "none", or "stop" while it spins in twi_stop()
    isr,
    \* the peripheral: TWCR, TWINT, TWSR, TWDR, its part in the transfer, the bus
    twcr, twint, status, twdr, link, bus,
    \* history of the current call: the address and the bytes that passed with
    \* an acknowledgement, what came last; of a slave reception: bytes acknowledged
    wire, answer, acked

settings == <<timeout, role>>
soft   == <<state, slarw, sendStop, inRepStart, error, timedOut>>
master == <<mbuf, mindex, mlength>>
slave  == <<txindex, txlength, rxindex>>
data   == <<out, in>>
call   == <<op, len, stopArg, ret>>
hard   == <<twcr, twint, status, twdr, link, bus>>
seen   == <<wire, answer, acked>>
vars   == <<settings, soft, master, slave, data, pc, call, isr, hard, seen>>

READY == "READY"
MRX == "MRX"
MTX == "MTX"
SRX == "SRX"
STX == "STX"
NoError == "none"
SlaW == 100   \* the two address bytes, apart from all data
SlaR == 101
Listening == {"TWEN", "TWIE", "TWEA"}

Init ==
    /\ timeout \in Timeouts /\ role \in Roles
    /\ state = READY /\ slarw = SlaW /\ sendStop = TRUE /\ inRepStart = FALSE
    /\ error = NoError /\ timedOut = FALSE
    /\ mbuf = [x \in 0 .. BUF - 1 |-> 0] /\ mindex = 0 /\ mlength = 0
    /\ txindex = 0 /\ txlength = 0 /\ rxindex = 0
    /\ out = [x \in 0 .. BUF - 1 |-> x + 1] /\ in = [x \in 0 .. BUF - 1 |-> 0]
    /\ pc = "idle" /\ op = "R" /\ len = 0 /\ stopArg = TRUE /\ ret = 0
    /\ isr = "none"
    /\ twcr = Listening /\ twint = FALSE /\ status = "NO_INFO" /\ twdr = 0
    /\ link = "idle" /\ bus = "free"
    /\ wire = <<>> /\ answer = "none" /\ acked = 0

\* Writing TWCR with TWINT set starts the next operation of the peripheral.
Go(bits) == twcr' = bits /\ twint' = FALSE

(***************************************************************************)
(* The sketch.  twi_writeTo() and twi_readFrom() take the same steps.      *)
(***************************************************************************)
Running == isr = "none"
Target  == IF op = "W" THEN MTX ELSE MRX

\* A message longer than the buffer is refused; so is a read of no byte.
Refused(o, n) == n > BUF \/ (o = "R" /\ n = 0)

Call(o, n, s) ==
    /\ pc = "idle" /\ Running
    /\ op' = o /\ len' = n /\ stopArg' = s
    /\ IF Refused(o, n)
       THEN pc' = "idle" /\ ret' = (IF o = "W" THEN 1 ELSE 0)
       ELSE pc' = "ready" /\ ret' = 0
    /\ UNCHANGED <<soft, master, slave, data, isr, hard, seen>>

NeverReadsClock == FALSE
ReadsClock == timeout # "none"

\* A waiting loop reads the state, and only while it must wait, the clock.
Wait(at, done, next, clock) ==
    /\ pc = at /\ Running
    /\ pc' = IF done THEN next ELSE IF ReadsClock THEN clock ELSE at
    /\ UNCHANGED <<soft, master, slave, data, call, isr, hard, seen>>

ClockOk(clock, at) ==
    /\ pc = clock /\ Running
    /\ pc' = at
    /\ UNCHANGED <<soft, master, slave, data, call, isr, hard, seen>>

MayClaim == state = READY

WaitReady == Wait("ready", MayClaim, "claim", "ready_clock") \/ ClockOk("ready_clock", "ready")

Claim ==
    /\ pc = "claim" /\ Running
    /\ state' = Target
    /\ pc' = "setup"
    /\ UNCHANGED <<slarw, sendStop, inRepStart, error, timedOut, master, slave, data, call, isr, hard, seen>>

\* A write sends the whole message; for a read the last byte is counted apart,
\* because the answer to it is chosen one byte ahead.
LastIndex == IF op = "W" THEN len ELSE len - 1

\* The error and the index of an earlier call are forgotten.
FreshError == NoError
KeepsIndex == mindex
FirstIndex == 0

Setup ==
    /\ pc = "setup" /\ Running
    /\ sendStop' = stopArg /\ error' = FreshError /\ slarw' = IF op = "W" THEN SlaW ELSE SlaR
    /\ mindex' = FirstIndex /\ mlength' = LastIndex
    /\ mbuf' = IF op = "W" THEN [x \in 0 .. BUF - 1 |-> IF x < len THEN out[x] ELSE mbuf[x]]
                           ELSE mbuf
    /\ wire' = <<>> /\ answer' = "none"
    /\ pc' = "start"
    /\ UNCHANGED <<state, inRepStart, timedOut, slave, data, call, isr, hard, acked>>

Start ==
    /\ pc = "start" /\ Running
    /\ inRepStart' = FALSE
    /\ IF inRepStart
       THEN pc' = "rep" /\ UNCHANGED <<twcr, twint>>
       ELSE pc' = "wait" /\ Go(Listening \union {"TWSTA"})
    /\ UNCHANGED <<state, slarw, sendStop, error, timedOut, master, slave, data, call, isr,
                   status, twdr, link, bus, seen>>

\* After a repeated start, TWDR takes the address only once TWINT is up; the
\* clock is read before TWWC tells whether it did.
RepLoad ==
    /\ pc = "rep" /\ Running
    /\ twdr' = IF twint THEN slarw ELSE twdr
    /\ pc' = IF twint THEN IF ReadsClock THEN "loaded_clock" ELSE "rep_go"
                      ELSE IF ReadsClock THEN "rep_clock" ELSE "rep"
    /\ UNCHANGED <<soft, master, slave, data, call, isr, twcr, twint, status, link, bus, seen>>

RepGo ==
    /\ pc = "rep_go" /\ Running
    /\ Go(Listening)
    /\ pc' = "wait"
    /\ UNCHANGED <<soft, master, slave, data, call, isr, status, twdr, link, bus, seen>>

WaitDone == \/ Wait("wait", state # Target, "result", "wait_clock")
            \/ ClockOk("wait_clock", "wait")
            \/ ClockOk("rep_clock", "rep") \/ ClockOk("loaded_clock", "rep_go")

Smaller(x, y) == IF x < y THEN x ELSE y

\* The return codes documented above twi_writeTo(); the length for a read.
Code(e) == CASE e = NoError -> 0
             [] e = "MT_SLA_NACK" -> 2
             [] e = "MT_DATA_NACK" -> 3
             [] OTHER -> 4

Result ==
    /\ pc = "result" /\ Running
    /\ ret' = IF op = "W" THEN Code(error) ELSE Smaller(mindex, len)
    /\ in' = IF op = "R" THEN [x \in 0 .. BUF - 1 |-> IF x < ret' THEN mbuf[x] ELSE in[x]] ELSE in
    /\ pc' = "idle"
    /\ UNCHANGED <<soft, master, slave, out, op, len, stopArg, isr, hard, seen>>

\* A timeout ends the call; with "reset", twi_disable() and twi_init() follow.
TimeoutMain ==
    /\ pc \in {"ready_clock", "wait_clock", "rep_clock", "loaded_clock"} /\ Running
    /\ timedOut' = TRUE
    /\ ret' = IF op = "W" THEN 5 ELSE 0
    /\ pc' = IF timeout = "reset" THEN "disable" ELSE "idle"
    /\ UNCHANGED <<state, slarw, sendStop, inRepStart, error, master, slave,
                   data, op, len, stopArg, isr, hard, seen>>

\* twi_disable(): clears its bits of TWCR, and with them a pending TWINT.
Disabled ==
    /\ twcr' = twcr \ Listening /\ twint' = FALSE
    /\ link' = "idle"
    /\ bus' = IF bus = "us" THEN "free" ELSE bus

Disable ==
    /\ pc = "disable" /\ Running
    /\ Disabled
    /\ pc' = "init"
    /\ UNCHANGED <<soft, master, slave, data, call, isr, status, twdr, seen>>

\* twi_init(): clears no TWINT.
KeepsState == state
InitState == READY

Initialise ==
    /\ state' = InitState /\ sendStop' = TRUE /\ inRepStart' = FALSE
    /\ twcr' = Listening

InitMain ==
    /\ pc = "init" /\ Running
    /\ Initialise
    /\ pc' = "idle"
    /\ UNCHANGED <<slarw, error, timedOut, master, slave, data, call, isr, twint, status, twdr,
                   link, bus, seen>>

ClearTimeoutFlag ==
    /\ pc = "idle" /\ Running /\ timedOut
    /\ timedOut' = FALSE
    /\ UNCHANGED <<state, slarw, sendStop, inRepStart, error, master, slave, data, pc, call, isr, hard, seen>>

CallStep == \/ WaitReady \/ Claim \/ Setup \/ Start \/ RepLoad \/ RepGo \/ WaitDone
            \/ Result \/ TimeoutMain \/ Disable \/ InitMain

(***************************************************************************)
(* ISR(TWI_vect)                                                           *)
(***************************************************************************)
Enter(codes) == isr = "none" /\ twint /\ "TWIE" \in twcr /\ status \in codes

Reply(ack) == Go(IF ack THEN Listening ELSE Listening \ {"TWEA"})

\* twi_stop(): the handler spins until the peripheral has sent the STOP.
Stop == /\ Go(Listening \union {"TWSTO"})
        /\ isr' = "stop"

\* The repeated start is sent with the interrupt off.
SilentStart == {"TWSTA", "TWEN"}

\* Leave the bus to the next transaction: twi_stop(), or the repeated start
\* that the next call finds already sent, with the interrupt off.
Finish ==
    IF sendStop
    THEN Stop /\ UNCHANGED <<state, inRepStart>>
    ELSE /\ inRepStart' = TRUE /\ state' = READY
         /\ Go(SilentStart)
         /\ isr' = isr

IsrStart ==
    /\ Enter({"START", "REP_START"})
    /\ twdr' = slarw
    /\ Reply(TRUE)
    /\ UNCHANGED <<soft, master, slave, data, pc, call, isr, status, link, bus, seen>>

MoreToSend == mindex < mlength

IsrSend ==
    /\ Enter({"MT_SLA_ACK", "MT_DATA_ACK"})
    /\ IF MoreToSend
       THEN /\ twdr' = mbuf[mindex] /\ mindex' = mindex + 1
            /\ Reply(TRUE)
            /\ UNCHANGED <<state, inRepStart, isr>>
       ELSE Finish /\ UNCHANGED <<twdr, mindex>>
    /\ UNCHANGED <<slarw, sendStop, error, timedOut, mbuf, mlength, slave, data, pc, call,
                   status, link, bus, seen>>

IsrNack ==
    /\ Enter({"MT_SLA_NACK", "MT_DATA_NACK", "MR_SLA_NACK", "BUS_ERROR"})
    /\ error' = IF status = "MR_SLA_NACK" THEN error ELSE status
    /\ Stop
    /\ UNCHANGED <<state, slarw, sendStop, inRepStart, timedOut, master, slave, data, pc, call,
                   status, twdr, link, bus, seen>>

\* twi_releaseBus()
Release == state' = READY /\ Go(Listening)

StopsWhenLost == Stop /\ UNCHANGED state
GiveUpBus == Release /\ UNCHANGED isr

IsrLost ==
    /\ Enter({"ARB_LOST"})
    /\ error' = "ARB_LOST"
    /\ GiveUpBus
    /\ UNCHANGED <<slarw, sendStop, inRepStart, timedOut, master, slave, data, pc, call,
                   status, twdr, link, bus, seen>>

\* Acknowledge the next byte unless it is the last one asked for.
IsrReceive ==
    /\ Enter({"MR_SLA_ACK", "MR_DATA_ACK"})
    /\ IF status = "MR_DATA_ACK" /\ mindex >= BUF
       THEN /\ error' = "OVERRUN" /\ Stop
            /\ UNCHANGED <<mbuf, mindex>>
       ELSE /\ IF status = "MR_DATA_ACK"
               THEN mbuf' = [mbuf EXCEPT ![mindex] = twdr] /\ mindex' = mindex + 1
               ELSE UNCHANGED <<mbuf, mindex>>
            /\ Reply(mindex' < mlength)
            /\ UNCHANGED <<error, isr>>
    /\ UNCHANGED <<state, slarw, sendStop, inRepStart, timedOut, mlength, slave, data, pc, call,
                   status, twdr, link, bus, seen>>

IsrReceiveLast ==
    /\ Enter({"MR_DATA_NACK"})
    /\ IF mindex < BUF
       THEN /\ mbuf' = [mbuf EXCEPT ![mindex] = twdr] /\ mindex' = mindex + 1
            /\ error' = error
       ELSE error' = "OVERRUN" /\ UNCHANGED <<mbuf, mindex>>
    /\ Finish
    /\ UNCHANGED <<slarw, sendStop, timedOut, mlength, slave, data, pc, call,
                   status, twdr, link, bus, seen>>

IsrSlaveReceive ==
    /\ Enter({"SR_SLA_ACK", "SR_ARB_LOST_SLA_ACK"})
    /\ state' = SRX /\ rxindex' = 0
    /\ Reply(TRUE)
    /\ UNCHANGED <<slarw, sendStop, inRepStart, error, timedOut, master, txindex, txlength,
                   data, pc, call, isr, status, twdr, link, bus, seen>>

OneTooMany == rxindex <= BUF
RoomToReceive == rxindex < BUF

IsrSlaveByte ==
    /\ Enter({"SR_DATA_ACK"})
    /\ rxindex' = IF RoomToReceive THEN rxindex + 1 ELSE rxindex
    /\ Reply(RoomToReceive)
    /\ UNCHANGED <<soft, master, txindex, txlength, data, pc, call, isr, status, twdr, link, bus, seen>>

\* The callback is given rxindex bytes; what it does with data is its affair.
IsrSlaveStop ==
    /\ Enter({"SR_STOP"})
    /\ Release
    /\ rxindex' = 0
    /\ UNCHANGED <<slarw, sendStop, inRepStart, error, timedOut, master, txindex, txlength,
                   pc, call, isr, status, twdr, link, bus, seen>>

IsrSlaveNack ==
    /\ Enter({"SR_DATA_NACK"})
    /\ Reply(FALSE)
    /\ UNCHANGED <<soft, master, slave, data, pc, call, isr, status, twdr, link, bus, seen>>

\* The next byte queued, or a zero past the end; acknowledge while there is more.
SkipsFirst(index) == index + 2
QueuedByte(index) == index + 1

SlaveByte(index, length, byte) ==
    IF index >= length \/ index >= BUF
    THEN twdr' = 0 /\ txindex' = index /\ Reply(FALSE)
    ELSE twdr' = byte /\ txindex' = index + 1 /\ Reply(index + 1 < length)

\* The callback queues n bytes with twi_transmit(); none means one zero byte.
IsrSlaveRequest(n) ==
    /\ Enter({"ST_SLA_ACK", "ST_ARB_LOST_SLA_ACK"})
    /\ state' = STX
    /\ txlength' = IF n = 0 THEN 1 ELSE n
    /\ SlaveByte(0, txlength', IF n = 0 THEN 0 ELSE QueuedByte(0))
    /\ UNCHANGED <<slarw, sendStop, inRepStart, error, timedOut, master, rxindex,
                   pc, call, isr, status, link, bus, seen>>

IsrSlaveSend ==
    /\ Enter({"ST_DATA_ACK"})
    /\ SlaveByte(txindex, txlength, QueuedByte(txindex))
    /\ UNCHANGED <<soft, master, txlength, rxindex, data, pc, call, isr, status, link, bus, seen>>

IsrSlaveSent ==
    /\ Enter({"ST_DATA_NACK", "ST_LAST_DATA"})
    /\ Release
    /\ UNCHANGED <<slarw, sendStop, inRepStart, error, timedOut, master, slave, data, pc, call, isr,
                   status, twdr, link, bus, seen>>

Freed == READY

\* twi_stop() sees TWSTO cleared.
IsrStopDone ==
    /\ isr = "stop" /\ "TWSTO" \notin twcr
    /\ state' = Freed /\ isr' = "none"
    /\ UNCHANGED <<slarw, sendStop, inRepStart, error, timedOut, master, slave, data, pc, call, hard, seen>>

\* twi_stop() gives up waiting; the state is left alone unless it resets.
IsrStopTimeout ==
    /\ isr = "stop" /\ "TWSTO" \in twcr /\ timeout # "none"
    /\ timedOut' = TRUE /\ isr' = "none"
    /\ IF timeout = "reset"
       THEN /\ Initialise /\ twint' = FALSE
            /\ link' = "idle" /\ bus' = IF bus = "us" THEN "free" ELSE bus
       ELSE UNCHANGED <<state, sendStop, inRepStart, twcr, twint, link, bus>>
    /\ UNCHANGED <<slarw, error, master, slave, data, pc, call, status, twdr, seen>>

MasterHandler == \/ IsrStart \/ IsrSend \/ IsrNack \/ IsrLost \/ IsrReceive \/ IsrReceiveLast
                 \/ IsrStopDone \/ IsrStopTimeout
SlaveHandler  == IsrSlaveReceive \/ IsrSlaveByte \/ IsrSlaveNack \/ IsrSlaveSend \/ IsrSlaveSent
Callbacks     == IsrSlaveStop \/ \E n \in 0 .. BUF : IsrSlaveRequest(n)
Handler       == MasterHandler \/ SlaveHandler \/ (Callbacks /\ UNCHANGED data)

(***************************************************************************)
(* The peripheral and the bus.  With TWINT down and no STOP to send, the   *)
(* peripheral does the next thing its part in the transfer calls for, and  *)
(* raises TWINT with the matching status.                                  *)
(***************************************************************************)
Busy == "TWEN" \in twcr /\ ~twint /\ "TWSTO" \notin twcr

Raise(s, l, b) == twint' = TRUE /\ status' = s /\ link' = l /\ bus' = b

HwStart ==
    /\ Busy /\ "TWSTA" \in twcr
    /\ \/ link = "idle" /\ bus = "free" /\ Raise("START", "addr", "us")
       \/ link \in {"mt", "mr"} /\ Raise("REP_START", "addr", "us")
    /\ UNCHANGED <<soft, master, slave, data, pc, call, isr, twcr, twdr, seen>>

HwStop ==
    /\ "TWEN" \in twcr /\ "TWSTO" \in twcr
    /\ twcr' = twcr \ {"TWSTO"}
    /\ link' = "idle"
    /\ bus' = IF bus = "us" THEN "free" ELSE bus
    /\ UNCHANGED <<soft, master, slave, data, pc, call, isr, twint, status, twdr, seen>>

\* The address goes out.
HwAddress ==
    /\ Busy /\ link = "addr" /\ "TWSTA" \notin twcr
    /\ \/ /\ Raise(IF twdr = SlaW THEN "MT_SLA_ACK" ELSE "MR_SLA_ACK",
                   IF twdr = SlaW THEN "mt" ELSE "mr", "us")
          /\ answer' = "ack" /\ wire' = Append(wire, twdr)
       \/ /\ Raise(IF twdr = SlaW THEN "MT_SLA_NACK" ELSE "MR_SLA_NACK", "mt", "us")
          /\ answer' = "addrNack" /\ wire' = wire
    /\ UNCHANGED <<soft, master, slave, data, pc, call, isr, twcr, twdr, acked>>

HwSend ==
    /\ Busy /\ link = "mt" /\ status \in {"MT_SLA_ACK", "MT_DATA_ACK"} /\ "TWSTA" \notin twcr
    /\ \/ Raise("MT_DATA_ACK", "mt", "us") /\ wire' = Append(wire, twdr) /\ answer' = "ack"
       \/ Raise("MT_DATA_NACK", "mt", "us") /\ wire' = wire /\ answer' = "dataNack"
    /\ UNCHANGED <<soft, master, slave, data, pc, call, isr, twcr, twdr, acked>>

HwReceive ==
    /\ Busy /\ link = "mr" /\ status \in {"MR_SLA_ACK", "MR_DATA_ACK"} /\ "TWSTA" \notin twcr
    /\ Raise(IF "TWEA" \in twcr THEN "MR_DATA_ACK" ELSE "MR_DATA_NACK", "mr", "us")
    /\ twdr' = -Len(wire)
    /\ wire' = Append(wire, twdr')
    /\ UNCHANGED <<soft, master, slave, data, pc, call, isr, twcr, answer, acked>>

\* Another master takes the bus, wins it from us, addresses us, and leaves.
OtherTakes ==
    /\ role # "master" /\ bus = "free" /\ link = "idle"
    /\ bus' = "other"
    /\ UNCHANGED <<soft, master, slave, data, pc, call, isr, twcr, twint, status, twdr, link, seen>>

OtherWins ==
    /\ role # "master" /\ Busy /\ link \in {"addr", "mt", "mr"} /\ "TWSTA" \notin twcr
    /\ \/ Raise("ARB_LOST", "idle", "other") /\ acked' = acked
       \/ /\ link = "addr" /\ "TWEA" \in twcr
          /\ acked' = 0
          /\ \/ Raise("SR_ARB_LOST_SLA_ACK", "sr", "other")
             \/ Raise("ST_ARB_LOST_SLA_ACK", "st", "other")
    /\ answer' = "lost"
    /\ UNCHANGED <<soft, master, slave, data, pc, call, isr, twcr, twdr, wire>>

OtherAddresses ==
    /\ Busy /\ link = "idle" /\ bus = "other" /\ "TWEA" \in twcr
    /\ \/ Raise("SR_SLA_ACK", "sr", bus)
       \/ Raise("ST_SLA_ACK", "st", bus)
    /\ acked' = 0
    /\ UNCHANGED <<soft, master, slave, data, pc, call, isr, twcr, twdr, wire, answer>>

\* A slave that does not acknowledge is no longer addressed.
OtherSends ==
    /\ Busy /\ link = "sr" /\ acked < RemoteBytes
    /\ IF "TWEA" \in twcr
       THEN Raise("SR_DATA_ACK", "sr", bus) /\ acked' = acked + 1
       ELSE Raise("SR_DATA_NACK", "idle", bus) /\ acked' = acked
    /\ UNCHANGED <<soft, master, slave, data, pc, call, isr, twcr, twdr, wire, answer>>

OtherStops ==
    /\ Busy /\ link = "sr"
    /\ Raise("SR_STOP", "idle", bus)
    /\ UNCHANGED <<soft, master, slave, data, pc, call, isr, twcr, twdr, seen>>

OtherReads ==
    /\ Busy /\ link = "st"
    /\ \/ "TWEA" \in twcr /\ Raise("ST_DATA_ACK", "st", bus)
       \/ "TWEA" \notin twcr /\ Raise("ST_LAST_DATA", "idle", bus)
       \/ Raise("ST_DATA_NACK", "idle", bus)
    /\ UNCHANGED <<soft, master, slave, data, pc, call, isr, twcr, twdr, seen>>

OtherLeaves ==
    /\ bus = "other" /\ link = "idle"
    /\ bus' = "free"
    /\ UNCHANGED <<soft, master, slave, data, pc, call, isr, twcr, twint, status, twdr, link, seen>>

BusNoise ==
    /\ Noise /\ Busy /\ link # "idle"
    /\ Raise("BUS_ERROR", link, bus)
    /\ answer' = "busError"
    /\ UNCHANGED <<soft, master, slave, data, pc, call, isr, twcr, twdr, wire, acked>>

Peripheral == HwStart \/ HwStop \/ HwAddress \/ HwSend \/ HwReceive
Others == \/ OtherTakes \/ OtherWins \/ OtherAddresses \/ OtherSends \/ OtherStops
          \/ OtherReads \/ OtherLeaves \/ BusNoise

\* A slave only answers.
Calls == IF role = "slave" THEN {} ELSE Ops

Sketch == \/ \E o \in Calls, n \in 0 .. BUF + 1, s \in BOOLEAN : Call(o, n, s)
          \/ CallStep \/ ClearTimeoutFlag

Next == (Sketch \/ Handler \/ Peripheral \/ Others) /\ UNCHANGED settings

Spec == Init /\ [][Next]_vars
=============================================================================
