--------------------------- MODULE HardwareSerial ---------------------------
(***************************************************************************)
(* The interrupt-driven UART driver of cores/lgt8f/HardwareSerial.cpp and  *)
(* HardwareSerial_private.h: one sketch (the main program), the two        *)
(* interrupt handlers, and the USART they share.                           *)
(*                                                                         *)
(* The sketch runs one instruction that touches shared state per step, so  *)
(* a handler may run between any two of them; a handler and an             *)
(* ATOMIC_BLOCK are one step.  Bytes are numbered instead of carrying a    *)
(* value: the n-th byte write() takes is n, the n-th frame that arrives    *)
(* is n.  0 is an empty register.                                          *)
(***************************************************************************)
EXTENDS Integers, Sequences

CONSTANTS
    TX_SIZE,     \* SERIAL_TX_BUFFER_SIZE
    RX_SIZE,     \* SERIAL_RX_BUFFER_SIZE
    MaxWrites,   \* bound on the number of bytes the sketch writes
    MaxFrames,   \* bound on the number of frames that arrive
    Reopen       \* TRUE: the sketch may call begin() on an open port

ASSUME SizesAssumption == TX_SIZE \in Nat /\ TX_SIZE > 1
                          /\ RX_SIZE \in Nat /\ RX_SIZE > 1
ASSUME BoundsAssumption == MaxWrites \in Nat /\ MaxFrames \in Nat
ASSUME ReopenAssumption == Reopen \in BOOLEAN

VARIABLES
    \* the HardwareSerial object
    txbuf, txhead, txtail, rxbuf, rxhead, rxtail, written,
    \* the USART: UCSRB bits, transmit data and shift registers, TXC, receive FIFO
    ucsrb, udr, shift, txc, rxfifo,
    \* the sketch: program counter, SREG.I, local i, register copy of UCSRB,
    \* position in a list of register updates, return point of flush()
    pc, ie, i, tmp, k, ret,
    \* what the program was told: room and bytes promised to it, last read()
    room, avail, got,
    \* history: bytes written, the last byte on the wire, frames arrived
    accepted, sent, arrived

sketch == <<pc, ie, i, tmp, k, ret>>
told   == <<room, avail, got>>
txRing == <<txbuf, txhead, txtail>>
rxRing == <<rxbuf, rxhead, rxtail>>
txHw   == <<udr, shift, txc>>
hist   == <<accepted, sent, arrived>>
vars   == <<txRing, rxRing, written, ucsrb, txHw, rxfifo, sketch, told, hist>>

Bits   == {"RXEN", "TXEN", "RXCIE", "UDRIE"}
Frames == [n : Nat, upe : BOOLEAN]      \* a frame and its parity-error flag
Labels == {"idle", "w_check", "w_udre", "w_fast", "w_slot", "w_wait", "w_store",
           "w_publish", "f_udrie", "f_txc", "f_poll", "b_read", "b_write",
           "e_read", "e_write", "e_clear", "r_take", "r_advance"}

UDRE == udr = 0

(***************************************************************************)
(* Ring arithmetic of the two buffers.                                     *)
(***************************************************************************)
Succ(x, size) == (x + 1) % size
Filled(h, t, size) == IF h >= t THEN h - t ELSE size - t + h
RoomAll(h, t, size) == IF h >= t THEN size - h + t ELSE t - h
Room(h, t, size) == IF h >= t THEN size - 1 - h + t ELSE t - h - 1
Count(h, t, size) == (size + h - t) % size
Ring(buf, h, t, size) == [j \in 1 .. Filled(h, t, size) |-> buf[(t + j - 1) % size]]

Init ==
    /\ txbuf = [x \in 0 .. TX_SIZE - 1 |-> 0] /\ txhead = 0 /\ txtail = 0
    /\ rxbuf = [x \in 0 .. RX_SIZE - 1 |-> 0] /\ rxhead = 0 /\ rxtail = 0
    /\ written = FALSE
    /\ ucsrb = {} /\ udr = 0 /\ shift = 0 /\ txc = FALSE /\ rxfifo = <<>>
    /\ pc = "idle" /\ ie = TRUE /\ i = 0 /\ tmp = {} /\ k = 1 /\ ret = "idle"
    /\ room = 0 /\ avail = 0 /\ got = 0
    /\ accepted = 0 /\ sent = 0 /\ arrived = 0

(***************************************************************************)
(* _tx_udr_empty_irq(): hand the oldest byte to the data register, clear   *)
(* TXC, and switch the interrupt off when the ring is empty.  It is the    *)
(* body of the interrupt, and the sketch calls it when interrupts are off. *)
(***************************************************************************)
ClearTxc == txc' = FALSE

DrainedTooSoon == txhead = txtail
Drained == txhead = txtail'

TxUdrEmptyIrq ==
    /\ udr' = txbuf[txtail]
    /\ txtail' = Succ(txtail, TX_SIZE)
    /\ ClearTxc
    /\ ucsrb' = IF Drained THEN ucsrb \ {"UDRIE"} ELSE ucsrb
    /\ UNCHANGED <<txbuf, txhead, shift>>

TxIsr ==
    /\ ie /\ "UDRIE" \in ucsrb /\ UDRE
    /\ TxUdrEmptyIrq
    /\ UNCHANGED <<rxRing, written, rxfifo, sketch, told, hist>>

(***************************************************************************)
(* _rx_complete_irq(): store a good byte unless the ring is full; read and *)
(* drop one with a parity error.                                           *)
(***************************************************************************)
StoresAlways(f, next) == ~f.upe
Stores(f, next) == ~f.upe /\ next # rxtail

RxIsr ==
    /\ ie /\ "RXCIE" \in ucsrb /\ rxfifo # <<>>
    /\ LET f == Head(rxfifo)
           next == Succ(rxhead, RX_SIZE)
       IN  IF Stores(f, next)
           THEN /\ rxbuf' = [rxbuf EXCEPT ![rxhead] = f.n]
                /\ rxhead' = next
           ELSE UNCHANGED <<rxbuf, rxhead>>
    /\ rxfifo' = Tail(rxfifo)
    /\ UNCHANGED <<rxtail, txRing, written, ucsrb, txHw, sketch, told, hist>>

(***************************************************************************)
(* write(): the direct path when nothing is queued, else the ring.         *)
(***************************************************************************)
Open == {"RXEN", "TXEN", "RXCIE"} \subseteq ucsrb

WriteCall ==
    /\ pc = "idle" /\ Open /\ accepted < MaxWrites
    /\ written' = TRUE
    /\ pc' = "w_check"
    /\ UNCHANGED <<txRing, rxRing, ucsrb, txHw, rxfifo, ie, i, tmp, k, ret, told, hist>>

\* The two operands of the && are read one after the other.
WriteCheck ==
    /\ pc = "w_check"
    /\ pc' = IF txhead = txtail THEN "w_udre" ELSE "w_slot"
    /\ UNCHANGED <<txRing, rxRing, written, ucsrb, txHw, rxfifo, ie, i, tmp, k, ret, told, hist>>

WriteUdre ==
    /\ pc = "w_udre"
    /\ pc' = IF UDRE THEN "w_fast" ELSE "w_slot"
    /\ UNCHANGED <<txRing, rxRing, written, ucsrb, txHw, rxfifo, ie, i, tmp, k, ret, told, hist>>

Spend(n) == IF n > 0 THEN n - 1 ELSE 0

\* Without the ATOMIC_BLOCK a handler may run long enough for the byte to
\* leave the shift register before TXC is cleared.
WriteFastTorn ==
    /\ pc = "w_fast" /\ shift = 0
    /\ sent' = accepted + 1
    /\ txc' = FALSE
    /\ accepted' = accepted + 1
    /\ pc' = "idle"
    /\ UNCHANGED <<txRing, rxRing, written, ucsrb, udr, shift, rxfifo, ie, i, tmp, k, ret,
                   told, arrived>>

WriteFast ==
    /\ pc = "w_fast"
    /\ udr' = accepted + 1
    /\ ClearTxc
    /\ accepted' = accepted + 1
    /\ room' = Spend(room)
    /\ pc' = "idle"
    /\ UNCHANGED <<txRing, rxRing, written, ucsrb, shift, rxfifo, ie, i, tmp, k, ret,
                   avail, got, sent, arrived>>

WriteSlot ==
    /\ pc = "w_slot"
    /\ i' = Succ(txhead, TX_SIZE)
    /\ pc' = "w_wait"
    /\ UNCHANGED <<txRing, rxRing, written, ucsrb, txHw, rxfifo, ie, tmp, k, ret, told, hist>>

\* The test of the loop that waits for a free place.
FreeIgnored == TRUE
Free == i # txtail

\* The test that makes the sketch do the handler's work.
Polling == ~ie

\* Full ring, interrupts off: send a byte by hand.
WritePoll ==
    /\ pc = "w_wait" /\ ~Free /\ Polling /\ UDRE
    /\ TxUdrEmptyIrq
    /\ UNCHANGED <<rxRing, written, rxfifo, sketch, told, hist>>

WriteProceed ==
    /\ pc = "w_wait" /\ Free
    /\ pc' = "w_store"
    /\ UNCHANGED <<txRing, rxRing, written, ucsrb, txHw, rxfifo, ie, i, tmp, k, ret, told, hist>>

WriteStore ==
    /\ pc = "w_store"
    /\ txbuf' = [txbuf EXCEPT ![txhead] = accepted + 1]
    /\ pc' = "w_publish"
    /\ UNCHANGED <<txhead, txtail, rxRing, written, ucsrb, txHw, rxfifo, ie, i, tmp, k, ret, told, hist>>

RequestUdre(bits) == bits \union {"UDRIE"}

WritePublish ==
    /\ pc = "w_publish"
    /\ txhead' = i
    /\ ucsrb' = RequestUdre(ucsrb)
    /\ accepted' = accepted + 1
    /\ room' = Spend(room)
    /\ pc' = "idle"
    /\ UNCHANGED <<txbuf, txtail, rxRing, written, txHw, rxfifo, ie, i, tmp, k, ret,
                   avail, got, sent, arrived>>

Write == \/ WriteCall \/ WriteCheck \/ WriteUdre \/ WriteFast \/ WriteSlot
         \/ WritePoll \/ WriteProceed \/ WriteStore \/ WritePublish

(***************************************************************************)
(* flush(), called by the sketch or as the first thing end() does.         *)
(***************************************************************************)
Flush(to) ==
    /\ pc' = IF written THEN "f_udrie" ELSE to
    /\ ret' = to

FlushCall ==
    /\ pc = "idle" /\ Open
    /\ Flush("idle")
    /\ UNCHANGED <<txRing, rxRing, written, ucsrb, txHw, rxfifo, ie, i, tmp, k, told, hist>>

QueueIgnored == FALSE
QueuePending == "UDRIE" \in ucsrb

FlushUdrie ==
    /\ pc = "f_udrie"
    /\ pc' = IF QueuePending THEN "f_poll" ELSE "f_txc"
    /\ UNCHANGED <<txRing, rxRing, written, ucsrb, txHw, rxfifo, ie, i, tmp, k, ret, told, hist>>

FlushTxc ==
    /\ pc = "f_txc"
    /\ pc' = IF txc THEN ret ELSE "f_poll"
    /\ UNCHANGED <<txRing, rxRing, written, ucsrb, txHw, rxfifo, ie, i, tmp, k, ret, told, hist>>

FlushPoll ==
    /\ pc = "f_poll"
    /\ pc' = "f_udrie"
    /\ IF Polling /\ "UDRIE" \in ucsrb /\ UDRE
       THEN TxUdrEmptyIrq
       ELSE UNCHANGED <<txRing, ucsrb, txHw>>
    /\ UNCHANGED <<rxRing, written, rxfifo, ie, i, tmp, k, ret, told, hist>>

FlushStep == \/ FlushCall \/ FlushUdrie \/ FlushTxc \/ FlushPoll

(***************************************************************************)
(* begin() and end().  UCSRB lies outside the range of the SBI and CBI     *)
(* instructions, so each sbi() or cbi() is a load and a later store.       *)
(***************************************************************************)
BeginOps == << [bit |-> "RXEN",  on |-> TRUE], [bit |-> "TXEN",  on |-> TRUE],
               [bit |-> "RXCIE", on |-> TRUE], [bit |-> "UDRIE", on |-> FALSE] >>
EndOps   == << [bit |-> "RXEN",  on |-> FALSE], [bit |-> "TXEN",  on |-> FALSE],
               [bit |-> "RXCIE", on |-> FALSE], [bit |-> "UDRIE", on |-> FALSE] >>

Update(op, bits) == IF op.on THEN bits \union {op.bit} ELSE bits \ {op.bit}

RegLoad(at, next) ==
    /\ pc = at
    /\ tmp' = ucsrb
    /\ pc' = next
    /\ UNCHANGED <<txRing, rxRing, written, ucsrb, txHw, rxfifo, ie, i, k, ret, told, hist>>

\* Clearing RXEN empties the receive FIFO.
RegStore(ops, at, again, done) ==
    /\ pc = at
    /\ ucsrb' = Update(ops[k], tmp)
    /\ rxfifo' = IF "RXEN" \in ucsrb' THEN rxfifo ELSE <<>>
    /\ IF k < Len(ops) THEN pc' = again /\ k' = k + 1
                       ELSE pc' = done /\ k' = 1
    /\ UNCHANGED <<txRing, rxRing, written, txHw, ie, i, tmp, ret, told, hist>>

BeginCall ==
    /\ pc = "idle"
    /\ ~Open \/ Reopen
    /\ written' = FALSE
    /\ k' = 1
    /\ pc' = "b_read"
    /\ UNCHANGED <<txRing, rxRing, ucsrb, txHw, rxfifo, ie, i, tmp, ret, told, hist>>

Begin == \/ BeginCall
         \/ RegLoad("b_read", "b_write")
         \/ RegStore(BeginOps, "b_write", "b_read", "idle")

EndCall ==
    /\ pc = "idle" /\ Open
    /\ Flush("e_read")
    /\ room' = 0 /\ avail' = 0
    /\ k' = 1
    /\ UNCHANGED <<txRing, rxRing, written, ucsrb, txHw, rxfifo, ie, i, tmp, got, hist>>

EndClear ==
    /\ pc = "e_clear"
    /\ rxhead' = rxtail
    /\ pc' = "idle"
    /\ UNCHANGED <<txRing, rxbuf, rxtail, written, ucsrb, txHw, rxfifo, ie, i, tmp, k, ret, told, hist>>

End == \/ EndCall
       \/ RegLoad("e_read", "e_write")
       \/ RegStore(EndOps, "e_write", "e_read", "e_clear")
       \/ EndClear

(***************************************************************************)
(* read(), available() and availableForWrite().  Only the sketch moves     *)
(* rxtail and txhead, so the one index a handler moves is the only read    *)
(* that can be stale, and the two queries are one step each.               *)
(***************************************************************************)
ReadCall ==
    /\ pc = "idle"
    /\ IF rxhead = rxtail THEN got' = -1 /\ pc' = "idle"
                          ELSE got' = got /\ pc' = "r_take"
    /\ UNCHANGED <<txRing, rxRing, written, ucsrb, txHw, rxfifo, ie, i, tmp, k, ret,
                   room, avail, hist>>

ReadTake ==
    /\ pc = "r_take"
    /\ got' = rxbuf[rxtail]
    /\ pc' = "r_advance"
    /\ UNCHANGED <<txRing, rxRing, written, ucsrb, txHw, rxfifo, ie, i, tmp, k, ret,
                   room, avail, hist>>

ReadAdvance ==
    /\ pc = "r_advance"
    /\ rxtail' = Succ(rxtail, RX_SIZE)
    /\ avail' = Spend(avail)
    /\ pc' = "idle"
    /\ UNCHANGED <<txRing, rxbuf, rxhead, written, ucsrb, txHw, rxfifo, ie, i, tmp, k, ret,
                   room, got, hist>>

Read == \/ ReadCall \/ ReadTake \/ ReadAdvance

Available ==
    /\ pc = "idle"
    /\ avail' = Count(rxhead, rxtail, RX_SIZE)
    /\ UNCHANGED <<txRing, rxRing, written, ucsrb, txHw, rxfifo, sketch, room, got, hist>>

AvailableForWrite ==
    /\ pc = "idle"
    /\ room' = Room(txhead, txtail, TX_SIZE)
    /\ UNCHANGED <<txRing, rxRing, written, ucsrb, txHw, rxfifo, sketch, avail, got, hist>>

\* The sketch enters and leaves code that runs with interrupts off.
Cli == pc = "idle" /\ ie /\ ie' = FALSE
       /\ UNCHANGED <<txRing, rxRing, written, ucsrb, txHw, rxfifo, pc, i, tmp, k, ret, told, hist>>
Sei == pc = "idle" /\ ~ie /\ ie' = TRUE
       /\ UNCHANGED <<txRing, rxRing, written, ucsrb, txHw, rxfifo, pc, i, tmp, k, ret, told, hist>>

(***************************************************************************)
(* The USART.  TXC is raised when the shift register runs out with no byte *)
(* waiting in UDR.  The receiver holds two frames; a third is lost.        *)
(***************************************************************************)
TxLoad ==
    /\ udr # 0 /\ shift = 0
    /\ shift' = udr /\ udr' = 0
    /\ UNCHANGED <<txRing, rxRing, written, ucsrb, txc, rxfifo, sketch, told, hist>>

TxDone ==
    /\ shift # 0
    /\ shift' = 0
    /\ txc' = (txc \/ UDRE)
    /\ sent' = shift
    /\ UNCHANGED <<txRing, rxRing, written, ucsrb, udr, rxfifo, sketch, told, accepted, arrived>>

RxFrame ==
    /\ "RXEN" \in ucsrb /\ arrived < MaxFrames
    /\ arrived' = arrived + 1
    /\ \E upe \in BOOLEAN :
          rxfifo' = IF Len(rxfifo) < 2
                    THEN Append(rxfifo, [n |-> arrived + 1, upe |-> upe])
                    ELSE rxfifo
    /\ UNCHANGED <<txRing, rxRing, written, ucsrb, txHw, sketch, told, accepted, sent>>

Usart == TxLoad \/ TxDone \/ RxFrame

Next == \/ TxIsr \/ RxIsr \/ Write \/ FlushStep \/ Begin \/ End \/ Read
        \/ Available \/ AvailableForWrite \/ Cli \/ Sei \/ Usart

Spec == Init /\ [][Next]_vars
=============================================================================
