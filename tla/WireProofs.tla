----------------------------- MODULE WireProofs -----------------------------
(***************************************************************************)
(* What a sketch sends and reads through Wire is what passes on the bus:   *)
(* proofs of SentAsWritten, RepliesTrue and UnreadKept, upon the invariant *)
(* of the driver in TwiProofs, for a node that is only master or only      *)
(* slave.                                                                  *)
(***************************************************************************)
EXTENDS WireProps, TwiProofs

-----------------------------------------------------------------------------
(* The steps of Wire, seen from the driver *)

\* Most are steps of the driver, ...
LEMMA DriverSteps == ASSUME Driver, UNCHANGED settings PROVE [Next]_vars
BY DEF Driver, Next, Sketch, Handler, vars

LEMMA CallSteps ==
    ASSUME NEW o \in Calls, NEW n \in 0 .. BUF, NEW s \in BOOLEAN, Call(o, n, s), UNCHANGED settings
    PROVE  [Next]_vars
<1>1. n \in 0 .. BUF + 1
  BY Constants
<1> QED
  BY <1>1 DEF Next, Sketch

\* ... which leave the call and its message alone, and the reply but for its end.
LEMMA DriverFrames ==
    ASSUME Driver
    PROVE  /\ UNCHANGED <<op, len, out>> /\ (in' = in \/ Result)
           /\ pc = "idle" => pc' = "idle"
BY DEF Driver, CallStep, WaitReady, Claim, Setup, Start, RepLoad, RepGo, WaitDone, Result,
   TimeoutMain, Disable, InitMain, ClearTimeoutFlag, MasterHandler, IsrStart, IsrSend, IsrNack,
   IsrLost, IsrReceive, IsrReceiveLast, IsrStopDone, IsrStopTimeout, SlaveHandler,
   IsrSlaveReceive, IsrSlaveByte, IsrSlaveNack, IsrSlaveSend, IsrSlaveSent, Peripheral, HwStart,
   HwStop, HwAddress, HwSend, HwReceive, Others, OtherTakes, OtherWins, OtherAddresses,
   OtherSends, OtherStops, OtherReads, OtherLeaves, BusNoise, Wait, ClockOk, vars, settings, soft,
   master, slave, data, call, hard, seen

\* A call begins a story of its own, whatever the sketch did with its buffers before.
LEMMA CallBegins ==
    ASSUME NEW o, NEW n, NEW s, Call(o, n, s), BUF \in Nat, n \in Nat, o \in {"W", "R"}
    PROVE  Told'
<1>1. pc' = "ready" \/ (pc' = "idle" /\ (n > BUF \/ (o = "R" /\ n = 0)) /\ op' = o /\ len' = n /\ ret' \in {0, 1}
                        /\ (o = "R" => ret' = 0))
  BY DEF Call, Refused
<1>2. Loaded' /\ Written' /\ Read'
  BY <1>1 DEF Loaded, Written, WriteSoFar, Read, ReadSoFar, InCall, Freshly, Repeating, Waiting
<1>3. Answered'
  BY <1>1 DEF Answered
<1> QED
  BY <1>2, <1>3 DEF Told

-----------------------------------------------------------------------------
(* The driver between the calls of a master *)

\* The driver is free between calls: begin() never takes it from a transfer.
Settled ==
    /\ pc = "idle" => state = READY
    /\ timeout = "none" => pc \notin {"ready_clock", "wait_clock", "rep_clock", "loaded_clock"}

\* After end() the peripheral is off and does nothing.
SwitchedOff ==
    /\ Alone /\ pc = "idle" /\ isr = "none" /\ link = "idle" /\ ~twint /\ error # "OVERRUN"
    /\ {"TWEN", "TWIE", "TWEA"} \intersect twcr = {}

LEMMA SettledStep ==
    ASSUME role = "master", Owner, Settled, timeout \in {"none", "reset"}, [Next]_vars
    PROVE  Settled'
<1>1. UNCHANGED timeout
  BY DEF Next, vars, settings
<1>2. Alone /\ (pc = "result" => state = READY)
  BY DEF Owner, Turns
<1>3. pc' = "idle" => state' = READY
  BY <1>2, MasterSteps
     DEF Settled, Call, WaitReady, Claim, Setup, Start, RepLoad, RepGo, WaitDone, Result,
     TimeoutMain, Disable, InitMain, ClearTimeoutFlag, IsrStart, IsrSend, IsrNack, IsrReceive,
     IsrReceiveLast, IsrStopDone, IsrStopTimeout, HwStart, HwStop, HwAddress, HwSend, HwReceive,
     BusNoise, Wait, ClockOk, Initialise, InitState, Finish, Freed, vars, settings, soft, master, slave,
     data, call, hard, seen
<1>4. timeout = "none" => pc' \notin {"ready_clock", "wait_clock", "rep_clock", "loaded_clock"}
  BY <1>2, MasterSteps
     DEF Settled, Call, WaitReady, Claim, Setup, Start, RepLoad, RepGo, WaitDone, Result,
     TimeoutMain, Disable, InitMain, ClearTimeoutFlag, IsrStart, IsrSend, IsrNack, IsrReceive,
     IsrReceiveLast, IsrStopDone, IsrStopTimeout, HwStart, HwStop, HwAddress, HwSend, HwReceive,
     BusNoise, Wait, ClockOk, ReadsClock, vars, settings, soft, master, slave, data, call, hard, seen
<1> QED
  BY <1>1, <1>3, <1>4 DEF Settled

LEMMA EndedStep ==
    ASSUME role = "master", SwitchedOff, [Next]_vars, pc' = "idle"
    PROVE  SwitchedOff'
<1>1. Alone /\ pc = "idle" /\ isr = "none" /\ ~twint /\ "TWEN" \notin twcr
  BY DEF SwitchedOff
<1>2. UNCHANGED <<state, error, isr, twcr, twint, status, link, bus>>
  BY <1>1, MasterSteps
     DEF Call, WaitReady, Claim, Setup, Start, RepLoad, RepGo, WaitDone, Result, TimeoutMain,
     Disable, InitMain, ClearTimeoutFlag, IsrStart, IsrSend, IsrNack, IsrReceive,
     IsrReceiveLast, IsrStopDone, IsrStopTimeout, HwStart, HwStop, HwAddress, HwSend, HwReceive,
     BusNoise, Wait, ClockOk, Busy, Enter, vars, soft, master, slave, data, call, hard, seen
<1> QED
  BY <1>2 DEF SwitchedOff, Alone

-----------------------------------------------------------------------------
(* The invariant *)

\* What write() accepted is in txBuffer, and its length is what will be sent.
Gathered ==
    /\ said \in Seq(Int) /\ txBufferIndex \in 0 .. BUF /\ Len(said) = txBufferIndex
    /\ \A x \in 1 .. Len(said) : said[x] = out[x - 1]
    /\ IF at = "write" THEN reg = txBufferIndex /\ txBufferLength = txBufferIndex - 1
                       ELSE txBufferLength = txBufferIndex

\* What is announced and not read yet is what the device sent.
Announced == \A x \in rxBufferIndex .. rxBufferLength - 1 : in[x] = -(x + 1)

\* The driver is called with the message, or for a reply that fits the buffer.
Asked ==
    /\ pc # "idle" => at \in {"tx", "rx"}
    /\ at = "tx" => op = "W" /\ len = Len(said)
    /\ at = "rx" => op = "R" /\ len \in 1 .. BUF

AsMaster ==
    /\ IF at = "ended" THEN SwitchedOff ELSE Owner /\ Settled
    /\ at \in {"tx", "rx"} => Told
    /\ Gathered /\ Announced /\ Asked

\* The first byte of a reply is in TWDR until it is sent.
Replied ==
    link = "st" /\ state = STX /\ ~twint /\ status \in {"ST_SLA_ACK", "ST_ARB_LOST_SLA_ACK"} /\ reply > 0 =>
        twdr = 1

AsSlave ==
    /\ Answering /\ Replied
    /\ at \in {"idle", "read", "ended"} /\ ~transmitting /\ owner # "request"

WireTyped ==
    /\ Typed
    /\ rxBufferIndex \in Nat /\ rxBufferLength \in 0 .. BUF /\ turn \in {0, 1} /\ reply \in Nat
    /\ at \in {"idle", "write", "tx", "rx", "read", "ended"} /\ transmitting \in BOOLEAN

WireInv ==
    /\ WireTyped
    /\ role = "master" => AsMaster
    /\ role = "slave" => AsSlave

LEMMA WireStarts == ASSUME WireInit, "both" \notin Roles PROVE WireInv
<1>1. Kept
  BY KeptInit DEF WireInit
<1>2. WireTyped
  <2>1. rxBufferIndex = 0 /\ rxBufferLength = 0 /\ turn = 0 /\ reply = 0 /\ at = "idle" /\ transmitting = FALSE
    BY DEF WireInit
  <2>2. 0 \in Nat /\ 0 \in 0 .. BUF
    BY Constants
  <2>3. transmitting \in BOOLEAN
    BY <2>1
  <2> QED
    BY <1>1, <2>1, <2>2, <2>3 DEF WireTyped, Kept
<1>3. AsMaster \/ role # "master"
  <2>1. Settled
    BY DEF WireInit, Init, Settled
  <2>2. Gathered
    <3>1. said = <<>> /\ txBufferIndex = 0 /\ txBufferLength = 0 /\ at = "idle"
      BY DEF WireInit
    <3>2. <<>> \in Seq(Int) /\ Len(<<>>) = 0
      BY EmptySeq
    <3> QED
      BY <3>1, <3>2, Constants DEF Gathered
  <2>3. Announced /\ Asked
    BY DEF WireInit, Init, Announced, Asked
  <2> QED
    BY <1>1, <2>1, <2>2, <2>3 DEF AsMaster, Kept, WireInit
<1>4. AsSlave \/ role # "slave"
  BY <1>1 DEF AsSlave, Kept, WireInit, Init, Replied
<1> QED
  BY <1>2, <1>3, <1>4 DEF WireInv

-----------------------------------------------------------------------------
(* A node that is only master *)

\* What is assumed of the node: a timeout either never ends a call, or resets the driver.
\* A driver that "plain" left busy, begin() would take from its transfer.
Spared(t) == t \in {"none", "reset"}

\* A step of the driver keeps the driver's part of the invariant.
LEMMA DriverPart ==
    ASSUME WireInv, role = "master", Spared(timeout), [Next]_vars, at = "ended" => pc' = "idle"
    PROVE  /\ Typed' /\ role' = role
           /\ IF at = "ended" THEN SwitchedOff' ELSE Owner' /\ Settled'
           /\ at \in {"tx", "rx"} => Told'
<1>1. Typed' /\ role' = role
  BY TypedStep DEF WireInv, WireTyped, Next, vars, settings
<1>2. CASE at = "ended"
  BY <1>1, <1>2, EndedStep DEF WireInv, AsMaster
<1>3. CASE at # "ended"
  <2>1. Owner' /\ Settled'
    BY <1>3, MasterStep, SettledStep DEF WireInv, AsMaster, WireTyped, Spared
  <2> QED
    BY <1>1, <1>3, <2>1, StoryStep DEF WireInv, AsMaster, WireTyped
<1> QED
  BY <1>2, <1>3

\* Only the end of a call stores its reply: the bytes the device sent.
LEMMA ReplyStored ==
    ASSUME WireInv, role = "master", Result, at = "rx", Told', Typed'
    PROVE  \A x \in rxBufferIndex .. rxBufferLength - 1 : in'[x] = -(x + 1)
<1>1. op' = "R" /\ len' \in 1 .. BUF /\ pc' = "idle" /\ op = "R" /\ ret' \in Nat
  BY DEF WireInv, AsMaster, Asked, Result, Typed, CallTyped
<1>2. ret' > 0 => Given'
  BY <1>1, Constants DEF Told, Answered
<1>3. in' = [x \in 0 .. BUF - 1 |-> IF x < ret' THEN mbuf[x] ELSE in[x]]
  BY <1>1 DEF Result
<1> SUFFICES ASSUME NEW x \in rxBufferIndex .. rxBufferLength - 1 PROVE in'[x] = -(x + 1)
  OBVIOUS
<1>4. x \in 0 .. BUF - 1 /\ in[x] = -(x + 1)
  BY Constants DEF WireInv, WireTyped, AsMaster, Announced
<1>5. CASE x < ret'
  <2>1. PICK y \in 1 .. ret' : y = x + 1 /\ y - 1 = x
    BY <1>1, <1>4, <1>5, Constants
  <2>2. Given'
    BY <1>1, <1>2, <1>4, <1>5, Constants
  <2>3. in'[y - 1] = -y
    BY <2>2 DEF Given
  <2> QED
    BY <2>1, <2>3
<1>6. CASE ~(x < ret')
  BY <1>3, <1>4, <1>6
<1> QED
  BY <1>5, <1>6

LEMMA MasterDriver ==
    ASSUME WireInv, role = "master", Spared(timeout), Driver, UNCHANGED wireVars, UNCHANGED settings
    PROVE  WireInv'
<1>1. [Next]_vars
  BY DriverSteps
<1>2. UNCHANGED <<op, len, out>> /\ (in' = in \/ Result) /\ (pc = "idle" => pc' = "idle")
  BY DriverFrames
<1>3. at = "ended" => pc' = "idle"
  BY <1>2 DEF WireInv, AsMaster, SwitchedOff
<1>4. /\ Typed' /\ role' = "master"
      /\ IF at = "ended" THEN SwitchedOff' ELSE Owner' /\ Settled'
      /\ at \in {"tx", "rx"} => Told'
  BY <1>1, <1>3, DriverPart
<1>5. UNCHANGED <<at, reg, said, owner, turn, reply, rxBufferIndex, rxBufferLength, txBufferIndex,
                  txBufferLength, transmitting>>
  BY DEF wireVars, wire_rx, wire_tx, history
<1>6. WireTyped'
  BY <1>4, <1>5 DEF WireInv, WireTyped
<1>7. Gathered' /\ Asked'
  BY <1>2, <1>5 DEF WireInv, AsMaster, Gathered, Asked
<1>8. Announced'
  <2>1. CASE in' = in
    BY <1>5, <2>1 DEF WireInv, AsMaster, Announced
  <2>2. CASE Result /\ op = "W"
    BY <1>5, <2>2 DEF Result, WireInv, AsMaster, Announced
  <2>3. CASE Result /\ op # "W"
    <3>1. at = "rx"
      BY <2>3 DEF Result, WireInv, AsMaster, Asked
    <3>2. \A x \in rxBufferIndex .. rxBufferLength - 1 : in'[x] = -(x + 1)
      BY <1>4, <1>5, <2>3, <3>1, ReplyStored DEF wire_rx
    <3> QED
      BY <1>5, <3>2 DEF Announced
  <2> QED
    BY <1>2, <2>1, <2>2, <2>3
<1> QED
  BY <1>4, <1>5, <1>6, <1>7, <1>8 DEF WireInv, AsMaster

\* The sketch calls the driver.
LEMMA MasterCalls ==
    ASSUME WireInv, role = "master", Spared(timeout), UNCHANGED settings, UNCHANGED <<wire_tx, history, reg, wire_rx>>,
           at = "idle", NEW o \in Calls, NEW n \in 0 .. BUF, NEW s \in BOOLEAN, Call(o, n, s),
           \/ o = "W" /\ n = txBufferLength /\ at' = "tx"
           \/ o = "R" /\ n > 0 /\ at' = "rx"
    PROVE  WireInv'
<1>1. [Next]_vars
  BY CallSteps
<1>2. /\ UNCHANGED <<out, in>> /\ op' = o /\ len' = n
      /\ UNCHANGED <<reg, said, owner, turn, reply, rxBufferIndex, rxBufferLength, txBufferIndex,
                     txBufferLength, transmitting>>
  BY DEF Call, data, wire_rx, wire_tx, history
<1>3. Typed' /\ role' = "master" /\ Owner' /\ Settled'
  BY <1>1, DriverPart
<1>4. Told'
  BY CallBegins, Constants
<1>5. WireTyped'
  BY <1>2, <1>3 DEF WireInv, WireTyped
<1>6. Gathered' /\ Announced'
  BY <1>2 DEF WireInv, AsMaster, Gathered, Announced
<1>7. Asked'
  <2>1. txBufferLength = Len(said)
    BY DEF WireInv, AsMaster, Gathered
  <2> QED
    BY <1>2, <2>1, Constants DEF Asked
<1> QED
  BY <1>3, <1>4, <1>5, <1>6, <1>7 DEF WireInv, AsMaster

\* The sketch works with its buffers, and leaves the driver alone.
LEMMA MasterLocal ==
    ASSUME WireInv, role = "master", Spared(timeout), UNCHANGED vars,
           beginTransmission \/ WriteLength \/ EndDone \/ RequestDone \/ ReadByte \/ ReadNext
           \/ (at = "idle" /\ InSketch /\ rxBufferIndex' = 0 /\ rxBufferLength' = 0 /\ at' = at
                /\ UNCHANGED <<wire_tx, history, reg>>)
    PROVE  WireInv'
<1>1. [Next]_vars /\ UNCHANGED <<in, out, pc, op, len, ret>> /\ pc = "idle" /\ at # "ended"
  BY DEF vars, data, call, InSketch, beginTransmission, WriteLength, EndDone, RequestDone, ReadByte,
     ReadNext
<1>2. Typed' /\ role' = "master" /\ Owner' /\ Settled' /\ (at \in {"tx", "rx"} => Told')
  BY <1>1, DriverPart
<1>3. at' \in {"idle", "read"}
  BY DEF beginTransmission, WriteLength, EndDone, RequestDone, ReadByte, ReadNext, WireInv, WireTyped
<1>4. rxBufferIndex' \in Nat /\ rxBufferLength' \in 0 .. BUF /\ Announced'
  <2>1. CASE UNCHANGED <<rxBufferIndex, rxBufferLength>>
    BY <1>1, <2>1 DEF WireInv, WireTyped, AsMaster, Announced
  <2>2. CASE rxBufferIndex' = 0 /\ rxBufferLength' = 0
    BY <2>2, Constants DEF Announced
  <2>3. CASE ReadNext
    BY <1>1, <2>3, Constants DEF ReadNext, WireInv, WireTyped, AsMaster, Announced
  <2>4. CASE RequestDone
    <3>1. at = "rx" /\ rxBufferIndex' = 0 /\ rxBufferLength' = ret /\ Told /\ op = "R" /\ len \in 1 .. BUF
      BY <2>4 DEF RequestDone, AsRead, WireInv, AsMaster, Asked
    <3>2. ret \in Nat /\ (ret > 0 => ret <= len /\ Given)
      BY <1>1, <3>1, Constants DEF Told, Answered, WireInv, WireTyped, Typed, CallTyped
    <3>3. ASSUME NEW x \in 0 .. ret - 1
          PROVE  in[x] = -(x + 1)
      <4>1. PICK y \in 1 .. ret : y = x + 1 /\ y - 1 = x
        BY <3>2
      <4>2. in[y - 1] = -y
        BY <3>2, <3>3 DEF Given
      <4> QED
        BY <4>1, <4>2
    <3> QED
      BY <1>1, <3>1, <3>2, <3>3, Constants DEF Announced
  <2> QED
    BY <2>1, <2>2, <2>3, <2>4 DEF beginTransmission, WriteLength, EndDone, RequestDone, ReadByte,
       wire_rx
<1>5. WireTyped'
  <2>1. transmitting' \in BOOLEAN /\ UNCHANGED <<turn, reply>>
    BY DEF beginTransmission, WriteLength, EndDone, RequestDone, ReadByte, ReadNext, WireInv,
       WireTyped, wire_tx, history
  <2> QED
    BY <1>2, <1>3, <1>4, <2>1 DEF WireInv, WireTyped
<1>6. Gathered'
  <2>1. CASE beginTransmission \/ EndDone
    <3>1. said' = <<>> /\ txBufferIndex' = 0 /\ txBufferLength' = 0 /\ at' = "idle"
      BY <2>1, <1>3 DEF beginTransmission, EndDone, Emptied
    <3>2. <<>> \in Seq(Int) /\ Len(<<>>) = 0
      BY EmptySeq
    <3> QED
      BY <3>1, <3>2, Constants DEF Gathered
  <2>2. CASE WriteLength
    BY <1>1, <2>2 DEF WriteLength, WireInv, AsMaster, Gathered, history
  <2>3. CASE RequestDone \/ ReadByte \/ ReadNext \/ (at = "idle" /\ UNCHANGED <<wire_tx, history, reg>>)
    <3>1. UNCHANGED <<said, txBufferIndex, txBufferLength, reg>> /\ at # "write"
      BY <2>3 DEF RequestDone, ReadByte, ReadNext, wire_tx, history
    <3> QED
      BY <1>1, <1>3, <3>1 DEF WireInv, AsMaster, Gathered
  <2> QED
    BY <2>1, <2>2, <2>3
<1>7. Asked'
  BY <1>1, <1>3 DEF Asked
<1> QED
  BY <1>2, <1>3, <1>5, <1>4, <1>6, <1>7 DEF WireInv, AsMaster

\* write() stores a byte: the check before it leaves room, and no call is under way.
LEMMA MasterWrites ==
    ASSUME WireInv, role = "master", WriteStore, UNCHANGED settings
    PROVE  WireInv'
<1>1. /\ at = "idle" /\ pc = "idle" /\ transmitting /\ txBufferLength < BUF /\ at' = "write"
      /\ said' = Append(said, Len(said) + 1) /\ txBufferIndex' = txBufferIndex + 1 /\ reg' = txBufferIndex + 1
      /\ out' = [x \in DOMAIN out \union {txBufferIndex} |->
                    IF x = txBufferIndex THEN Len(said) + 1 ELSE out[x]]
      /\ UNCHANGED <<in, rxBufferIndex, rxBufferLength, txBufferLength, transmitting, owner, turn, reply>>
  BY DEF WriteStore, RoomToWrite, InSketch, wire_rx
<1>2. UNCHANGED <<timeout, role, state, slarw, sendStop, inRepStart, error, timedOut, mbuf, mindex, mlength,
                  txindex, txlength, rxindex, pc, op, len, stopArg, ret, isr, twcr, twint, status,
                  twdr, link, bus, wire, answer, acked>>
  BY DEF WriteStore, twi, settings, soft, master, slave, call, hard, seen
<1>3. /\ said \in Seq(Int) /\ txBufferIndex \in 0 .. BUF - 1 /\ Len(said) = txBufferIndex
      /\ txBufferLength = txBufferIndex /\ out \in [0 .. BUF - 1 -> Int]
      /\ \A x \in 1 .. Len(said) : said[x] = out[x - 1]
  BY <1>1, Constants DEF WireInv, AsMaster, Gathered, WireTyped, Typed, BufferTyped
<1>4. out' = [x \in 0 .. BUF - 1 |-> IF x = txBufferIndex THEN txBufferIndex + 1 ELSE out[x]]
  <2>1. DOMAIN out \union {txBufferIndex} = 0 .. BUF - 1
    BY <1>3
  <2> QED
    BY <1>1, <1>3, <2>1
<1>5. out' \in [0 .. BUF - 1 -> Int]
  BY <1>3, <1>4, Constants
<1>6. Typed'
  BY <1>1, <1>2, <1>5 DEF WireInv, WireTyped, Typed, Safe, InBounds, Accepted, CallTyped, DriverTyped,
     BufferTyped, HardTyped, SeenTyped
<1>7. Owner' /\ Settled'
  BY <1>1, <1>2 DEF WireInv, AsMaster, Owner, Alone, Turns, Between, Quiet, Target, Codes, Engaged, Acking,
     Receiving, Settled
<1>8. Gathered'
  <2>1. /\ said' \in Seq(Int) /\ Len(said') = txBufferIndex + 1
        /\ said'[txBufferIndex + 1] = txBufferIndex + 1
        /\ \A x \in 1 .. txBufferIndex : said'[x] = said[x]
    BY <1>1, <1>3, AppendProperties
  <2>2. ASSUME NEW x \in 1 .. txBufferIndex + 1
        PROVE  said'[x] = out'[x - 1]
    <3>1. CASE x = txBufferIndex + 1
      BY <1>3, <1>4, <2>1, <3>1, Constants
    <3>2. CASE x \in 1 .. txBufferIndex
      BY <1>3, <1>4, <2>1, <3>2, Constants
    <3> QED
      BY <1>3, <2>2, <3>1, <3>2
  <2>3. txBufferIndex + 1 \in 0 .. BUF /\ (txBufferIndex + 1) - 1 = txBufferIndex
    BY <1>3, Constants
  <2>4. /\ Len(said') = txBufferIndex' /\ txBufferIndex' \in 0 .. BUF
        /\ reg' = txBufferIndex' /\ txBufferLength' = txBufferIndex' - 1
    BY <1>1, <1>3, <2>1, <2>3
  <2>5. \A x \in 1 .. Len(said') : said'[x] = out'[x - 1]
    BY <1>1, <2>1, <2>2
  <2> QED
    BY <1>1, <2>1, <2>4, <2>5 DEF Gathered
<1>9. Announced' /\ Asked' /\ WireTyped'
  BY <1>1, <1>2, <1>6 DEF WireInv, AsMaster, WireTyped, Announced, Asked
<1> QED
  BY <1>1, <1>2, <1>7, <1>8, <1>9 DEF WireInv, AsMaster

\* end() switches the peripheral off, in a transfer or not.
LEMMA MasterEnds ==
    ASSUME WireInv, role = "master", end, UNCHANGED settings
    PROVE  WireInv'
<1>1. /\ at = "idle" /\ at' = "ended" /\ pc = "idle" /\ isr = "none"
      /\ twcr' = twcr \ Listening /\ twint' = FALSE /\ link' = "idle"
      /\ bus' \in {bus, "free"}
      /\ UNCHANGED <<timeout, role, state, slarw, sendStop, inRepStart, error, timedOut, mbuf, mindex, mlength,
                     txindex, txlength, rxindex, out, in, pc, op, len, stopArg, ret, isr, status,
                     twdr, wire, answer, acked>>
      /\ UNCHANGED <<rxBufferIndex, rxBufferLength, txBufferIndex, txBufferLength, transmitting,
                     said, owner, turn, reply, reg>>
  BY DEF end, InSketch, Running, Disabled, settings, soft, master, slave, data, call, seen, wire_rx, wire_tx, history
<1>2. Typed'
  <2>1. twcr' \in SUBSET TwcrBits /\ twint' \in BOOLEAN /\ link' \in {"idle", "addr", "mt", "mr", "sr", "st"}
        /\ bus' \in {"free", "us", "other"}
    BY <1>1 DEF WireInv, WireTyped, Typed, HardTyped
  <2>2. HardTyped'
    BY <1>1, <2>1 DEF WireInv, WireTyped, Typed, HardTyped
  <2> QED
    BY <1>1, <2>2 DEF WireInv, WireTyped, Typed, Safe, InBounds, Accepted, CallTyped, DriverTyped,
       BufferTyped, SeenTyped
<1>3. SwitchedOff'
  BY <1>1 DEF WireInv, AsMaster, Owner, Alone, Engaged, SwitchedOff, Listening
<1>4. Gathered' /\ Announced' /\ Asked' /\ WireTyped'
  BY <1>1, <1>2 DEF WireInv, AsMaster, WireTyped, Gathered, Announced, Asked
<1> QED
  BY <1>1, <1>3, <1>4 DEF WireInv, AsMaster

\* begin() finds the peripheral off, or the driver free and nothing held on the bus.
LEMMA MasterBegins ==
    ASSUME WireInv, role = "master", begin, UNCHANGED settings
    PROVE  WireInv'
<1>1. /\ at \in {"idle", "ended"} /\ (at = "idle" => ~inRepStart) /\ at' = "idle" /\ pc = "idle" /\ isr = "none"
      /\ state' = READY /\ sendStop' = TRUE /\ inRepStart' = FALSE /\ twcr' = Listening
      /\ rxBufferIndex' = 0 /\ rxBufferLength' = 0 /\ txBufferIndex' = 0 /\ txBufferLength' = 0
      /\ said' = <<>>
      /\ UNCHANGED <<timeout, role, slarw, error, timedOut, mbuf, mindex, mlength,
                     txindex, txlength, rxindex, out, in, pc, op, len, stopArg, ret, isr, twint, status,
                     twdr, link, bus, wire, answer, acked>>
      /\ UNCHANGED <<transmitting, owner, turn, reply, reg>>
  BY DEF begin, InSketch, Running, Initialise, InitState, settings, master, slave, data, call, seen
<1>2. Typed'
  <2>1. twcr' \in SUBSET TwcrBits
    BY <1>1 DEF Listening, TwcrBits
  <2>2. sendStop' \in BOOLEAN /\ inRepStart' \in BOOLEAN
    BY <1>1
  <2>3. HardTyped' /\ DriverTyped'
    BY <1>1, <2>1, <2>2 DEF WireInv, WireTyped, Typed, HardTyped, DriverTyped
  <2> QED
    BY <1>1, <2>3 DEF WireInv, WireTyped, Typed, Safe, InBounds, Accepted, CallTyped, BufferTyped,
       SeenTyped
<1>3. link = "idle" /\ ~twint /\ Alone /\ error # "OVERRUN"
  <2>1. CASE at = "ended"
    BY <2>1 DEF WireInv, AsMaster, SwitchedOff
  <2>2. CASE at # "ended"
    BY <1>1, <2>2 DEF WireInv, AsMaster, Owner, Settled, Turns, Between, Quiet, Engaged
  <2> QED
    BY <2>1, <2>2
<1>4. Owner' /\ Settled'
  BY <1>1, <1>3 DEF Owner, Alone, Turns, Between, Quiet, Codes, Engaged, Acking, Receiving, Settled,
     Repeating, Waiting, Listening, SilentStart, READY, MTX, MRX
<1>5. Gathered'
  <2>1. <<>> \in Seq(Int) /\ Len(<<>>) = 0
    BY EmptySeq
  <2> QED
    BY <1>1, <2>1, Constants DEF Gathered
<1>6. Announced' /\ Asked'
  BY <1>1 DEF Announced, Asked
<1>7. WireTyped'
  BY <1>1, <1>2, Constants DEF WireInv, WireTyped
<1> QED
  BY <1>1, <1>4, <1>5, <1>6, <1>7 DEF WireInv, AsMaster

\* Every step of a node that is only master
LEMMA MasterKeeps ==
    ASSUME WireInv, role = "master", Spared(timeout), [WireNext]_allVars
    PROVE  WireInv'
<1>1. CASE UNCHANGED allVars
  <2>1. [Next]_vars /\ UNCHANGED vars /\ UNCHANGED wireVars
    BY <1>1 DEF allVars
  <2>2. at = "ended" => pc' = "idle"
    BY <2>1 DEF vars, WireInv, AsMaster, SwitchedOff
  <2>3. /\ Typed' /\ role' = "master"
        /\ IF at = "ended" THEN SwitchedOff' ELSE Owner' /\ Settled'
        /\ at \in {"tx", "rx"} => Told'
    BY <2>1, <2>2, DriverPart
  <2> QED
    BY <2>1, <2>3 DEF vars, data, call, wireVars, wire_rx, wire_tx, history, WireInv, WireTyped, AsMaster,
       Gathered, Announced, Asked
<1>2. CASE Driver /\ UNCHANGED wireVars /\ UNCHANGED settings
  BY <1>2, MasterDriver
<1>3. CASE Services
  BY <1>3 DEF Services, onReceiveService, onRequestService, IsrSlaveStop, IsrSlaveRequest, Enter, WireInv,
     AsMaster, Owner, Alone, SlaveCodes, SwitchedOff
<1>4. CASE WireSketch /\ UNCHANGED settings
  <2>1. ASSUME NEW s \in BOOLEAN, endTransmission(s)
        PROVE  WireInv'
    <3>1. txBufferLength \in 0 .. BUF
      BY <2>1, Constants DEF endTransmission, WireInv, AsMaster, Gathered
    <3> QED
      BY <1>4, <2>1, <3>1, MasterCalls DEF endTransmission
  <2>2. ASSUME NEW s \in BOOLEAN, NEW q \in 0 .. BUF + 1, requestFrom(q, s)
        PROVE  WireInv'
    <3>1. CASE q = 0
      BY <2>2, <3>1, MasterLocal DEF requestFrom
    <3>2. CASE q # 0
      <4>1. Smaller(q, BUF) \in 0 .. BUF /\ Smaller(q, BUF) > 0
        BY <3>2, Constants DEF Smaller
      <4> HIDE DEF Smaller
      <4> QED
        BY <1>4, <2>2, <3>2, <4>1, MasterCalls DEF requestFrom
    <3> QED
      BY <3>1, <3>2
  <2>3. CASE beginTransmission \/ WriteLength \/ EndDone \/ RequestDone \/ ReadByte \/ ReadNext
    <3>1. UNCHANGED vars
      BY <2>3 DEF beginTransmission, WriteLength, EndDone, RequestDone, ReadByte, ReadNext
    <3> QED
      BY <2>3, <3>1, MasterLocal
  <2> QED
    BY <1>4, <2>1, <2>2, <2>3, MasterWrites, MasterEnds, MasterBegins DEF WireSketch
<1> QED
  BY <1>1, <1>2, <1>3, <1>4 DEF WireNext

-----------------------------------------------------------------------------
(* A node that is only slave *)

\* The byte stays in TWDR until the other master has read it.
LEMMA RepliedStep ==
    ASSUME role = "slave", Answering, Replied, Driver, UNCHANGED reply
    PROVE  Replied'
<1> USE DEF Answering, Replied, MasterCodes, Enter, soft, master, slave, data, call, hard, seen, Running
<1>1. CASE CallStep \/ ClearTimeoutFlag
  BY <1>1 DEF CallStep, WaitReady, Claim, Setup, Start, RepLoad, RepGo, WaitDone, Result,
     TimeoutMain, Disable, InitMain, ClearTimeoutFlag, Wait, ClockOk
<1>2. CASE MasterHandler
  BY <1>2 DEF MasterHandler, IsrStart, IsrSend, IsrNack, IsrLost, IsrReceive, IsrReceiveLast,
     IsrStopDone, IsrStopTimeout, Freed, Initialise, InitState, STX, READY
<1>3. CASE SlaveHandler
  BY <1>3 DEF SlaveHandler, IsrSlaveReceive, IsrSlaveByte, IsrSlaveNack, IsrSlaveSend, IsrSlaveSent,
     Release, STX, SRX, READY
<1>4. CASE Peripheral
  BY <1>4 DEF Peripheral, HwStart, HwStop, HwAddress, HwSend, HwReceive, Busy
<1>5. CASE Others
  BY <1>5 DEF Others, OtherTakes, OtherWins, OtherAddresses, OtherSends, OtherStops, OtherReads,
     OtherLeaves, BusNoise, Raise
<1> QED
  BY <1>1, <1>2, <1>3, <1>4, <1>5 DEF Driver

\* The receive callback, and what it leaves to the sketch
LEMMA SlaveReceives ==
    ASSUME WireInv, role = "slave", onReceiveService, UNCHANGED settings
    PROVE  WireInv'
<1>1. /\ UNCHANGED <<timeout, role, slarw, sendStop, inRepStart, error, timedOut, mbuf, mindex, mlength,
                     txindex, txlength, out, pc, op, len, stopArg, ret, isr, status, twdr, link, bus,
                     wire, answer, acked, at, transmitting, reply>>
      /\ state' = READY /\ twcr' = Listening /\ twint' = FALSE /\ rxindex' = 0
      /\ \/ UNCHANGED <<in, rxBufferIndex, rxBufferLength, owner, turn>>
         \/ /\ in' = [x \in 0 .. BUF - 1 |-> IF x < rxindex THEN RemoteByte(turn, x) ELSE in[x]]
            /\ rxBufferIndex' \in 0 .. rxindex /\ rxBufferLength' = rxindex
            /\ owner' = "remote" /\ turn' = 1 - turn
  BY DEF onReceiveService, IsrSlaveStop, Release, Go, settings, master, call, seen, wire_rx, wire_tx
<1>2. rxindex \in 0 .. BUF /\ turn \in {0, 1} /\ in \in [0 .. BUF - 1 -> Int]
  BY DEF WireInv, WireTyped, Typed, Safe, InBounds, BufferTyped
<1>3. in' \in [0 .. BUF - 1 -> Int]
  BY <1>1, <1>2, Constants DEF RemoteByte
<1>4. Typed'
  <2>1. twcr' \in SUBSET TwcrBits /\ twint' \in BOOLEAN
    BY <1>1 DEF Listening, TwcrBits
  <2>2. HardTyped' /\ DriverTyped' /\ BufferTyped'
    BY <1>1, <1>3, <2>1 DEF WireInv, WireTyped, Typed, HardTyped, DriverTyped, BufferTyped
  <2> QED
    BY <1>1, <2>2, Constants DEF WireInv, WireTyped, Typed, Safe, InBounds, Accepted, CallTyped,
       SeenTyped
<1>5. WireTyped'
  BY <1>1, <1>2, <1>4, Constants DEF WireInv, WireTyped
<1>6. AsSlave'
  <2>1. Answering'
    BY <1>1 DEF WireInv, AsSlave, Answering, Listening
  <2>2. Replied'
    BY <1>1 DEF Replied, READY, STX
  <2> QED
    BY <1>1, <2>1, <2>2 DEF WireInv, AsSlave
<1> QED
  BY <1>1, <1>5, <1>6 DEF WireInv

\* The request callback: its first byte goes to TWDR.
LEMMA SlaveReplies ==
    ASSUME WireInv, role = "slave", NEW n \in 0 .. BUF, onRequestService(n), UNCHANGED settings
    PROVE  WireInv'
<1>1. ~transmitting /\ IsrSlaveRequest(n) /\ reply' = n
      /\ UNCHANGED <<in, out, rxBufferIndex, rxBufferLength, transmitting, at, said, owner, turn, reg>>
  BY DEF onRequestService, WireInv, AsSlave, wire_rx
<1>2. [Next]_vars
  <2>1. UNCHANGED data
    BY <1>1 DEF data
  <2> QED
    BY <1>1, <2>1 DEF Next, Handler, Callbacks
<1>3. Typed' /\ Answering' /\ role' = "slave"
  BY <1>2, TypedStep, AnswerStep DEF WireInv, WireTyped, AsSlave, Next, vars, settings
<1>4. Replied'
  <2>1. CASE n = 0
    BY <1>1, <2>1 DEF Replied
  <2>2. CASE n > 0
    <3>1. txlength' = n /\ ~(0 >= n) /\ ~(0 >= BUF) /\ n # 0
      BY <1>1, <2>2, Constants DEF IsrSlaveRequest
    <3>2. SlaveByte(0, txlength', QueuedByte(0))
      BY <1>1, <3>1 DEF IsrSlaveRequest
    <3>3. ~(0 >= txlength' \/ 0 >= BUF)
      BY <3>1
    <3>4. twdr' = QueuedByte(0)
      BY <3>2, <3>3 DEF SlaveByte
    <3>5. twdr' = 1
      BY <3>4 DEF QueuedByte
    <3> QED
      BY <3>5 DEF Replied
  <2> QED
    BY <2>1, <2>2, Constants
<1> QED
  BY <1>1, <1>3, <1>4, Constants DEF WireInv, WireTyped, AsSlave

\* begin() and end() of such a node
LEMMA SlaveSwitches ==
    ASSUME WireInv, role = "slave", begin \/ end, UNCHANGED settings
    PROVE  WireInv'
<1>1. /\ pc = "idle" /\ isr = "none" /\ at' \in {"idle", "ended"}
      /\ \/ twcr' = Listening /\ twint' = twint /\ state' = READY /\ link' = link
         \/ twcr' = twcr \ Listening /\ twint' = FALSE /\ state' = state /\ link' = "idle"
      /\ bus' \in {bus, "free"} /\ sendStop' \in {TRUE, sendStop} /\ inRepStart' \in {FALSE, inRepStart}
      /\ UNCHANGED <<timeout, role, slarw, error, timedOut, mbuf, mindex, mlength,
                     txindex, txlength, rxindex, out, in, pc, op, len, stopArg, ret, isr, status,
                     twdr, wire, answer, acked>>
      /\ UNCHANGED <<transmitting, owner, turn, reply>>
  <2>1. CASE end
    BY <2>1 DEF end, InSketch, Running, Disabled, settings, soft, master, slave, data, call, seen,
       wire_tx, history
  <2>2. CASE begin
    BY <2>2 DEF begin, InSketch, Running, Initialise, InitState, settings, master, slave, data,
       call, seen
  <2> QED
    BY <2>1, <2>2
<1>2. rxBufferIndex' \in Nat /\ rxBufferLength' \in 0 .. BUF
  BY Constants DEF begin, end, WireInv, WireTyped, wire_rx
<1>3. Typed'
  <2>1. /\ twcr' \in SUBSET TwcrBits
        /\ bus' \in {"free", "us", "other"} /\ link' \in {"idle", "addr", "mt", "mr", "sr", "st"}
        /\ state' \in {READY, MRX, MTX, SRX, STX}
    BY <1>1 DEF WireInv, WireTyped, Typed, HardTyped, DriverTyped, Listening, TwcrBits
  <2>2. twint' \in BOOLEAN /\ sendStop' \in BOOLEAN /\ inRepStart' \in BOOLEAN
    BY <1>1 DEF WireInv, WireTyped, Typed, HardTyped, DriverTyped
  <2>3. HardTyped' /\ DriverTyped'
    BY <1>1, <2>1, <2>2 DEF WireInv, WireTyped, Typed, HardTyped, DriverTyped
  <2> QED
    BY <1>1, <2>3 DEF WireInv, WireTyped, Typed, Safe, InBounds, Accepted, CallTyped, BufferTyped,
       SeenTyped
<1>4. Answering'
  <2>1. "TWSTA" \notin twcr' /\ ("TWSTO" \in twcr' => error = "BUS_ERROR" /\ twint' = FALSE)
    BY <1>1 DEF WireInv, AsSlave, Answering, Listening
  <2> QED
    BY <1>1, <2>1 DEF WireInv, AsSlave, Answering
<1>5. Replied'
  BY <1>1 DEF Replied, READY, STX
<1> QED
  BY <1>1, <1>2, <1>3, <1>4, <1>5 DEF WireInv, WireTyped, AsSlave

LEMMA SlaveKeeps ==
    ASSUME WireInv, role = "slave", [WireNext]_allVars
    PROVE  WireInv'
<1>1. CASE UNCHANGED allVars
  <2>1. [Next]_vars /\ UNCHANGED vars /\ UNCHANGED wireVars
    BY <1>1 DEF allVars
  <2>2. Typed' /\ Answering' /\ role' = "slave"
    BY <2>1, TypedStep, AnswerStep DEF WireInv, WireTyped, AsSlave, vars, settings
  <2> QED
    BY <2>1, <2>2 DEF vars, soft, hard, wireVars, wire_rx, wire_tx, history, WireInv, WireTyped, AsSlave, Replied
<1>2. CASE Driver /\ UNCHANGED wireVars /\ UNCHANGED settings
  <2>1. [Next]_vars
    BY <1>2, DriverSteps
  <2>2. Typed' /\ Answering' /\ role' = "slave"
    BY <1>2, <2>1, TypedStep, AnswerStep DEF WireInv, WireTyped, AsSlave, settings
  <2>3. Replied'
    BY <1>2, RepliedStep DEF WireInv, AsSlave, wireVars, history
  <2> QED
    BY <1>2, <2>2, <2>3 DEF wireVars, wire_rx, wire_tx, history, WireInv, WireTyped, AsSlave
<1>3. CASE Services /\ UNCHANGED settings
  BY <1>3, SlaveReceives, SlaveReplies DEF Services
<1>4. CASE WireSketch /\ UNCHANGED settings
  <2>1. CASE ReadByte \/ ReadNext
    <3>1. /\ UNCHANGED vars /\ at' \in {"idle", "read"} /\ rxBufferIndex' \in {rxBufferIndex, rxBufferIndex + 1}
          /\ UNCHANGED <<rxBufferLength, transmitting, owner, turn, reply>>
      BY <2>1 DEF ReadByte, ReadNext, wire_rx, wire_tx, history
    <3>2. Typed' /\ Answering' /\ role' = "slave"
      BY <3>1, TypedStep, AnswerStep DEF WireInv, WireTyped, AsSlave, vars, settings
    <3>3. Replied'
      BY <3>1 DEF WireInv, AsSlave, Replied, vars, soft, hard
    <3> QED
      BY <3>1, <3>2, <3>3 DEF WireInv, WireTyped, AsSlave
  <2>2. Calls = {} /\ ~transmitting /\ at \in {"idle", "read", "ended"}
    BY DEF Calls, WireInv, AsSlave
  <2> QED
    BY <1>4, <2>1, <2>2, SlaveSwitches DEF WireSketch, beginTransmission, WriteStore, WriteLength,
       EndDone, endTransmission, requestFrom, RequestDone
<1> QED
  BY <1>1, <1>2, <1>3, <1>4 DEF WireNext

-----------------------------------------------------------------------------
(* What the sketch may rely on *)

\* What is assumed: the node has one part on its bus, and a timeout resets the driver.
OnePart == "both" \notin Roles /\ "plain" \notin Timeouts

LEMMA WireKeeps == ASSUME OnePart, WireInv, [WireNext]_allVars PROVE WireInv'
<1>1. role \in {"master", "slave"} /\ Spared(timeout)
  BY BusAssumption, TimeoutAssumption DEF OnePart, WireInv, WireTyped, Typed, CallTyped, Spared
<1> QED
  BY <1>1, MasterKeeps, SlaveKeeps

LEMMA WireStays == ASSUME OnePart PROVE WireSpec => []WireInv
<1>1. WireInit => WireInv
  BY WireStarts DEF OnePart
<1>2. WireInv /\ [WireNext]_allVars => WireInv'
  BY WireKeeps
<1> QED
  BY <1>1, <1>2, PTL DEF WireSpec

LEMMA RoleOf == ASSUME OnePart, WireInv PROVE role \in {"master", "slave"}
BY BusAssumption DEF OnePart, WireInv, WireTyped, Typed, CallTyped

\* endTransmission() == 0 means that the device acknowledged exactly the bytes that write()
\* accepted since beginTransmission(), in that order: for every size of the buffer, with
\* begin() and end() between any two calls (Wire.cpp:243).
THEOREM SentIsWritten == ASSUME OnePart PROVE WireSpec => []SentAsWritten
<1>1. WireInv => SentAsWritten
  <2> SUFFICES ASSUME WireInv, at = "tx", InSketch, op = "W", ret = 0
               PROVE  wire = <<SlaW>> \o said
    BY DEF SentAsWritten
  <2>1. role = "master"
    BY RoleOf DEF WireInv, AsSlave
  <2>2. Told /\ Gathered /\ Asked /\ len = Len(said)
    BY <2>1 DEF WireInv, AsMaster, Asked
  <2>3. said \in Seq(Int) /\ len \in 0 .. BUF /\ \A x \in 1 .. len : said[x] = out[x - 1]
    BY <2>2 DEF Gathered
  <2>4. wire = Message
    BY <2>2, <2>3, Constants DEF Told, Answered, InSketch
  <2>5. said = [x \in 1 .. len |-> out[x - 1]]
    <3>1. said = [x \in 1 .. len |-> said[x]]
      BY <2>2, <2>3, LenProperties
    <3> QED
      BY <2>3, <3>1
  <2> QED
    BY <2>4, <2>5 DEF Message
<1> QED
  BY <1>1, WireStays, PTL

\* What requestFrom() announced and the sketch has not read yet are the bytes of the
\* device, in order, whatever it sends meanwhile; and the first byte another master reads
\* is the first of the request callback (Wire.cpp:147, 409).
THEOREM RepliesAreTrue == ASSUME OnePart PROVE WireSpec => []RepliesTrue
<1>1. WireInv => RepliesTrue
  <2> SUFFICES ASSUME WireInv PROVE RepliesTrue
    OBVIOUS
  <2>1. CASE role = "master"
    BY <2>1 DEF WireInv, AsMaster, Announced, RepliesTrue, RequestStands, ReplyReachesMaster, Owner, Alone,
       SwitchedOff
  <2>2. CASE role = "slave"
    BY <2>2 DEF WireInv, AsSlave, Replied, RepliesTrue, RequestStands, ReplyReachesMaster
  <2> QED
    BY <2>1, <2>2, RoleOf
<1> QED
  BY <1>1, WireStays, PTL

Untouched ==
    at' = at /\ rxBufferIndex < rxBufferLength /\ rxBufferLength' > 0 =>
        /\ UNCHANGED wire_rx
        /\ \A x \in rxBufferIndex .. rxBufferLength - 1 : in'[x] = in[x]

LEMMA UnreadStep ==
    ASSUME OnePart, WireInv, WireInv', [WireNext]_allVars
    PROVE  Untouched
<1> SUFFICES ASSUME at' = at, rxBufferIndex < rxBufferLength, rxBufferLength' > 0
             PROVE  /\ UNCHANGED wire_rx
                    /\ \A x \in rxBufferIndex .. rxBufferLength - 1 : in'[x] = in[x]
  BY DEF Untouched
<1>1. CASE UNCHANGED allVars
  BY <1>1 DEF allVars, vars, data, wireVars, wire_rx
<1>2. CASE Driver /\ UNCHANGED wireVars /\ UNCHANGED settings
  <2>1. UNCHANGED wire_rx /\ rxBufferIndex' = rxBufferIndex /\ rxBufferLength' = rxBufferLength
    BY <1>2 DEF wireVars, wire_rx
  <2>2. CASE role = "master"
    <3>1. role' = "master"
      BY <1>2, <2>2 DEF settings
    <3>2. Announced /\ Announced'
      BY <2>2, <3>1 DEF WireInv, AsMaster
    <3> QED
      BY <2>1, <3>2 DEF Announced
  <2>3. CASE role = "slave"
    <3>1. in' = in
      BY <1>2, <2>3, DriverFrames DEF Result, WireInv, AsSlave, Answering
    <3> QED
      BY <2>1, <3>1
  <2> QED
    BY <2>2, <2>3, RoleOf
<1>3. CASE Services
  BY <1>3 DEF Services, onReceiveService, onRequestService, RxInUse, wire_rx
<1>4. CASE WireSketch
  BY <1>4 DEF WireSketch, beginTransmission, WriteStore, WriteLength, EndDone, endTransmission,
     requestFrom, RequestDone, ReadByte, ReadNext, end, begin, Call, vars, data, wire_rx
<1> QED
  BY <1>1, <1>2, <1>3, <1>4 DEF WireNext

\* A message or a reply stays in rxBuffer until it is read, whatever another master sends
\* and whatever the driver does meanwhile: only a call of the sketch takes it away (Wire.cpp:390).
THEOREM UnreadIsKept == ASSUME OnePart PROVE WireSpec => UnreadKept
<1>1. WireInv /\ WireInv' /\ [WireNext]_allVars => [Untouched]_allVars
  BY UnreadStep
<1>2. WireSpec => [][Untouched]_allVars
  BY <1>1, WireStays, PTL DEF WireSpec
<1> QED
  BY <1>2 DEF UnreadKept, Untouched
=============================================================================
