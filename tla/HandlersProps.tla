--------------------------- MODULE HandlersProps ----------------------------
(***************************************************************************)
(* What the interrupt masks, SPI transactions, the pin-change table,       *)
(* SoftwareSerial, the pins and the uDSC promise while handlers come       *)
(* between the sketch's steps.                                             *)
(***************************************************************************)
EXTENDS Handlers

\* Every variable has its type.
TypeOK ==
    /\ EIMSK \subseteq INTS /\ \A n \in INTS : EICRA[n] \subseteq {0, 1}
    /\ interruptMode \in 0..2 /\ interruptMask \subseteq INTS /\ interruptSave \subseteq INTS \union {7}
    /\ Len(table) <= SLOTS /\ PCMSK \subseteq Pins /\ i \in 0..SLOTS + 1
    /\ head \in 0..RX_BUFF - 1 /\ tail \in 0..RX_BUFF - 1 /\ rxMask \subseteq Objects
    /\ com \subseteq Outputs /\ PORT \subseteq Outputs /\ DDR \subseteq Outputs /\ \A p \in Outputs : ocr[p] \in Duties \union {0}
    /\ DSX \in Word /\ DSY \in Word /\ DA \in ULong /\ DSUEN \in BOOLEAN

\* While the sketch is in an SPI transaction, no handler whose interrupt was registered
\* with usingInterrupt() changes the settings of the bus (SPI.h:178, "prevent this
\* library's transactions from being interrupted"): not after a nested or a last end().
BusMine == ~intruded

\* After a transaction, the I bit is as the sketch left it, and the external interrupts
\* that are on are those attached, whatever handlers, or calls, did in between, except
\* where an interrupt was attached or detached during the transaction, which
\* endTransaction() undoes (SPI.h:334).
MasksRestored ==
    Idle /\ ~inTx => I = want /\ \A n \in INTS \ undone : n \in EIMSK <=> n \in attached

\* A handler never calls through half of one callback and half of another, although
\* detachInterrupt() takes the pointer away with interrupts on (WInterrupts.c:238).
WholeCallback == ~torn

\* Every interrupt has the trigger mode it was last attached with, unless a handler
\* attached it between the load and the store of EICRA for the other (WInterrupts.c:182).
ModesKept == \A n \in INTS \ lost : EICRA[n] = modes[n]

\* Masks, triggers and callbacks are those the sketch set, across transactions, nested or
\* not, and handlers that attach and detach.
MasksKept == BusMine /\ MasksRestored /\ WholeCallback /\ ModesKept

\* When the pin-change handler is done and none is pending, no attached pin has changed
\* since it was last looked at, but for those that changed while masked, or whose entry
\* a callback moved behind the handler (arduino_ext.cpp:30, :55).
Noticed ==
    i = 0 /\ ~PCIF /\ adding = {} => \A p \in Attached \ excused : p \notin unseen

\* A callback is called for an edge of its mode, and for every such edge that is looked
\* at: also after the entries were moved.
CallsRight == ~wrong

\* Every edge of an attached pin is seen, and each callback called for its edges alone.
EdgesSeen == Noticed /\ CallsRight

\* The ring buffer of SoftwareSerial holds the bytes saved and not read, in order, and
\* available() counts them, while a handler adds and read() takes.
RingOrder ==
    /\ available = Len(kept)
    /\ \A k \in 1..Len(kept) : buffer[(head + k - 1) % RX_BUFF] = kept[k]

\* After listen(), no byte that another object received is read.
Fresh ==
    ~tornObject /\ pc = "idle" /\ Listening # NULL =>
        \A k \in 1..available : buffer[(head + k - 1) % RX_BUFF][1] = Listening

\* Between calls the pin that interrupts is that of the object that listens, unless the
\* handler was pending when the mask was cleared: recv() sets it again.
MaskFollows == ~late /\ pc = "idle" => rxMask = {Listening} \ {NULL}

\* The handler never calls through half of one object's address and half of another's,
\* unless it was pending when listen() cleared the mask (SoftwareSerial.cpp:125).
WholePointer == tornObject => late

\* What an object reads was received, in order, by itself since it listens.
ReceivedTrue == RingOrder /\ Fresh /\ MaskFollows /\ WholePointer

\* Between calls each pin is what digitalWrite(), analogWrite() or digitalToggle() of
\* the sketch or of a handler last made it, whatever pin of the same port and timer the
\* other was at work on, unless a handler changed this one in the middle of the sketch's
\* call, or its PWM between a load and a store of TCCR (wiring_digital.c:108).
Obeyed == next_ = "idle" => \A p \in Outputs \ crossed : Actual(p) = driven[p]

\* The nearest word to n, as a saturating operation has it
Nearest(n) == CHOOSE s \in Short : \A t \in Short : Magnitude(n - s) <= Magnitude(n - t)

\* The number that digits show in a base
Shown(base) ==
    LET upTo[k \in 0..Len(digits)] == IF k = 0 THEN 0 ELSE base * upTo[k - 1] + digits[k]
    IN  upTo[Len(digits)]

\* DSP16 saturates, and products, quotients and remainders are exact, on the boundary
\* between bytes and words and on that between signed and unsigned dividends, unless a
\* handler used the coprocessor during the call (udsc.h:15).  A printed number has its
\* value in whatever base, no digit too many, and a handler may use the coprocessor.
Exact ==
    work = "return" /\ ~clobbered =>
        LET x == sum.x  y == sum.y  a == Signed(x)  b == Signed(y)
        IN  CASE sum.op = "mul" -> answer_ = x * y
              [] sum.op = "mulNegative" -> (answer_ + x * y) % (U16 * U16) = 0
              [] sum.op = "add" -> answer_ = Nearest(a + b)
              [] sum.op = "sub" -> answer_ = Nearest(a - b)
              [] sum.op = "times" -> answer_ = Nearest(a * b)
              [] sum.op = "divmod" ->
                    /\ answer_[3] = (y = 0)
                    /\ y # 0 => answer_[1] * y + answer_[2] = x /\ answer_[2] < y
              [] sum.op \in {"print", "printSigned"} ->
                    /\ Shown(Base) = (IF answer_ THEN -SLong(x) ELSE x)
                    /\ \A k \in DOMAIN digits : digits[k] < Base
                    /\ digits[1] = 0 => Len(digits) = 1
              [] OTHER -> y # 0 => \E q \in -U16..U16 :
                    LET r == x - q * y
                    IN  /\ Magnitude(r) < Magnitude(y) /\ r * x >= 0
                        /\ answer_ = IF sum.op = "quotient" THEN Nearest(q) ELSE r

\* The coprocessor is off between calls, also when a handler used it during one.
Off == work = "idle" => ~DSUEN

\* Each call computes what it says and leaves the coprocessor off.
Computes == Exact /\ Off
=============================================================================
