------------------------------ MODULE TwiProps ------------------------------
(***************************************************************************)
(* What must hold of the I2C driver, and its fairness.                     *)
(***************************************************************************)
EXTENDS Twi

TwcrBits == {"TWEN", "TWIE", "TWEA", "TWSTA", "TWSTO"}
Pcs == {"idle", "ready", "ready_clock", "claim", "setup", "start", "rep", "rep_clock", "loaded_clock",
        "rep_go",
        "wait", "wait_clock", "result", "disable", "init"}
MasterCodes == {"START", "REP_START", "MT_SLA_ACK", "MT_SLA_NACK", "MT_DATA_ACK",
                "MT_DATA_NACK", "ARB_LOST", "MR_SLA_ACK", "MR_SLA_NACK", "MR_DATA_ACK",
                "MR_DATA_NACK"}
SlaveCodes == {"SR_SLA_ACK", "SR_ARB_LOST_SLA_ACK", "SR_DATA_ACK", "SR_DATA_NACK", "SR_STOP",
               "ST_SLA_ACK", "ST_ARB_LOST_SLA_ACK", "ST_DATA_ACK", "ST_DATA_NACK",
               "ST_LAST_DATA"}
Errors == {NoError, "MT_SLA_NACK", "MT_DATA_NACK", "ARB_LOST", "BUS_ERROR", "OVERRUN"}

\* Every index and length stays inside its buffer of TWI_BUFFER_LENGTH bytes,
\* whatever devices, other masters and bus errors do to the order of events.
InBounds ==
    /\ DOMAIN mbuf = 0 .. BUF - 1
    /\ mindex \in 0 .. BUF /\ mlength \in 0 .. BUF
    /\ txindex \in 0 .. BUF /\ txlength \in 0 .. BUF /\ rxindex \in 0 .. BUF

\* The type of every variable.
TypeOK ==
    /\ InBounds
    /\ timeout \in Timeouts /\ role \in Roles
    /\ state \in {READY, MRX, MTX, SRX, STX} /\ slarw \in {SlaW, SlaR}
    /\ sendStop \in BOOLEAN /\ inRepStart \in BOOLEAN /\ timedOut \in BOOLEAN
    /\ error \in Errors
    /\ mbuf \in [0 .. BUF - 1 -> Int] /\ out \in [0 .. BUF - 1 -> Int] /\ in \in [0 .. BUF - 1 -> Int]
    /\ pc \in Pcs /\ op \in {"W", "R"} /\ len \in 0 .. BUF + 1 /\ stopArg \in BOOLEAN
    /\ ret \in Nat /\ isr \in {"none", "stop"}
    /\ twcr \in SUBSET TwcrBits /\ twint \in BOOLEAN
    /\ status \in MasterCodes \union SlaveCodes \union {"NO_INFO", "BUS_ERROR"}
    /\ link \in {"idle", "addr", "mt", "mr", "sr", "st"} /\ bus \in {"free", "us", "other"}
    /\ answer \in {"none", "ack", "addrNack", "dataNack", "lost", "busError"}
    /\ twdr \in Int /\ wire \in Seq(Int) /\ acked \in 0 .. RemoteBytes

-----------------------------------------------------------------------------
(* What a finished call tells the sketch *)

Returned == pc = "idle" /\ isr = "none" /\ len <= BUF
Message  == <<SlaW>> \o [x \in 1 .. len |-> out[x - 1]]

\* writeTo() answers 0 only if the device acknowledged its address and every
\* byte of the message, in order ("0 .. success").
ZeroMeansSent == Returned /\ op = "W" /\ ret = 0 => wire = Message

\* Losing the bus to another master is never reported as success ("4 .. other
\* twi error (lost bus arbitration, bus error, ..)").
LossReported == Returned /\ op = "W" /\ answer = "lost" => ret # 0

\* The error codes 2, 3 and 4 name what happened on the bus.
ErrorsTruthful ==
    Returned /\ op = "W" =>
       /\ ret = 2 => answer = "addrNack"
       /\ ret = 3 => answer = "dataNack"
       /\ ret = 4 => answer \in {"lost", "busError"}

\* readFrom() == n means the first n bytes of data are the first n the
\* device sent in this call.
ReadIsFresh ==
    Returned /\ op = "R" /\ ret > 0 =>
       /\ ret <= len /\ Len(wire) > ret
       /\ \A x \in 1 .. ret : in[x - 1] = -x /\ wire[x + 1] = -x

\* What a finished call answers is what happened on the bus, and what readFrom() hands
\* over came from the device in this call: by any refusal, loss or error at any byte.
Truthful == ZeroMeansSent /\ ErrorsTruthful /\ ReadIsFresh

-----------------------------------------------------------------------------
(* Ownership: "Handoff is guarded by the state machine" *)

\* The sketch fills masterBuffer only when no transfer of ours is under way.
BufferHandoff == pc = "setup" => link \notin {"addr", "mt", "mr"} \/ inRepStart

\* With "reset" a timeout frees the driver: no finished call leaves it busy as
\* master, so that the next one need not time out too.
NotLeftBusy == Returned /\ ret = 5 /\ timeout = "reset" => state \notin {MTX, MRX}

\* The capacity checks of the handler ("malformed state must never overwrite
\* SRAM") never find anything: the sequence of acknowledgements keeps
\* masterBufferIndex inside the buffer.
NeverOverrun == error # "OVERRUN"

\* A STOP is only ever sent in a transfer of our own, whatever the races between
\* the sketch, the handler and another master ("relinquishes bus master status").
StopsOnlyOurs == "TWSTO" \in twcr => bus = "us"

\* Why, as an inductive invariant: a pending master event, or a part in a
\* transfer as master, means that the bus is ours, and a STOP is asked for only
\* then and is over before the sketch can disable the peripheral.
Ours ==
    /\ timeout \in Timeouts
    /\ "TWSTO" \in twcr => ~twint /\ (timeout = "plain" \/ isr = "stop")
    /\ twint /\ status \in MasterCodes \ {"ARB_LOST"} => bus = "us"
    /\ link \in {"addr", "mt", "mr"} => bus = "us"
    /\ pc \in {"disable", "init"} => timeout = "reset"
    /\ status # "BUS_ERROR"

\* A call under way was not refused, so its length fits the buffer.
Accepted == pc # "idle" => op \in {"W", "R"} /\ len \in 0 .. BUF /\ (op = "R" => len > 0)

\* The handler meets a master event only while a call of ours is under way.
MasterOwned == Enter(MasterCodes) => state \in {MTX, MRX}

\* The buffer and the state pass between sketch and handler one owner at a time: filled
\* between transfers, used within its length by events of our own transfer only, free
\* again after a reset.
HandedOver == MasterOwned /\ BufferHandoff /\ NeverOverrun /\ NotLeftBusy

\* Every byte we acknowledged to another master reaches the receive callback.
AckedDelivered == Enter({"SR_STOP"}) => rxindex = acked

\* The bytes another master reads from us are the callback's, in order, then
\* zeros.
SlaveBytesInOrder == link = "st" /\ ~twint => twdr \in {txindex, 0}

\* A node that was only slave, and whose buffer held the message, listens again when the
\* other master is done with it: a refused byte, which it answers without TWEA
\* (twi.c:715), does not occur.
SlaveFreed ==
    role = "slave" /\ link = "idle" /\ ~twint /\ isr = "none" /\ error # "BUS_ERROR" =>
        state = READY /\ "TWEA" \in twcr

\* As a slave the node loses no byte it acknowledged, sends the bytes of its callback and
\* is free again when the other master is done.
SlaveFaithful == AckedDelivered /\ SlaveBytesInOrder /\ SlaveFreed

-----------------------------------------------------------------------------
(* Liveness.  Nothing is asked of the peripheral or of the bus, only that the *)
(* sketch gets to run between interrupts (after RETI one instruction of it     *)
(* always does), that time passes in a waiting loop, and that the handler goes *)
(* on once it waits in twi_stop().                                            *)

TimedFairness ==
    /\ SF_vars(CallStep /\ UNCHANGED settings) /\ SF_vars(TimeoutMain /\ UNCHANGED settings)
    /\ WF_vars((IsrStopDone \/ IsrStopTimeout) /\ UNCHANGED settings)

TimedSpec == Spec /\ TimedFairness

\* With a timeout every call returns ("The timeout should be long enough ...").
CallReturns == pc = "ready" /\ timeout # "none" ~> pc = "idle"
=============================================================================
