------------------------- MODULE HardwareSerialProps -------------------------
(***************************************************************************)
(* What must hold of HardwareSerial, its fairness, and the port it         *)
(* implements.                                                             *)
(***************************************************************************)
EXTENDS HardwareSerial

TypeOK ==
    /\ txbuf \in [0 .. TX_SIZE - 1 -> Nat] /\ rxbuf \in [0 .. RX_SIZE - 1 -> Nat]
    /\ txhead \in 0 .. TX_SIZE - 1 /\ txtail \in 0 .. TX_SIZE - 1
    /\ rxhead \in 0 .. RX_SIZE - 1 /\ rxtail \in 0 .. RX_SIZE - 1
    /\ written \in BOOLEAN /\ ie \in BOOLEAN /\ txc \in BOOLEAN
    /\ ucsrb \in SUBSET Bits /\ tmp \in SUBSET Bits
    /\ udr \in Nat /\ shift \in Nat
    /\ rxfifo \in Seq(Frames)
    /\ pc \in Labels /\ ret \in {"idle", "e_read"}
    /\ i \in 0 .. TX_SIZE - 1 /\ k \in 1 .. 4
    /\ room \in Nat /\ avail \in Nat /\ got \in Nat \union {-1}
    /\ accepted \in Nat /\ sent \in Nat /\ arrived \in Nat

-----------------------------------------------------------------------------
(* Transmit side *)

Queued == Filled(txhead, txtail, TX_SIZE)
InHw   == (IF shift # 0 THEN 1 ELSE 0) + (IF udr # 0 THEN 1 ELSE 0)
Offset(x) == Filled(x, txtail, TX_SIZE)   \* places of slot x behind txtail

\* Nothing is lost, duplicated or reordered on the way out: the shift
\* register, UDR and the ring from tail to head hold exactly the bytes after
\* the last one sent, in the order write() took them (write(), the two calls
\* of _tx_udr_empty_irq() and the handler share head, tail and UDR).
InOrder ==
    /\ accepted = sent + InHw + Queued
    /\ shift # 0 => shift = sent + 1
    /\ udr # 0 => udr = sent + InHw
    /\ \A x \in 0 .. TX_SIZE - 1 :
          Offset(x) < Queued => txbuf[x] = sent + InHw + Offset(x) + 1

\* "If interrupts are enabled, there must be more data in the output buffer"
\* (HardwareSerial.cpp, the first comment of _tx_udr_empty_irq()).
UdrieMeansData == "UDRIE" \in ucsrb => txhead # txtail

\* flush() returns, by either of its exits, only when every byte written is on
\* the wire: TXC is never left set, nor _written clear, with a byte pending.
FlushDrains ==
    [][ /\ pc \in {"idle", "f_txc"}
        /\ \/ pc = "f_txc" /\ pc' = ret
           \/ FlushCall /\ pc' = "idle"
           \/ EndCall /\ pc' = "e_read"
        => sent = accepted ]_vars

\* TXC is set only when nothing is left to send: the order "write UDR, then
\* clear TXC" that write()'s comment argues for.
TxcMeansIdle == txc => InHw = 0

\* After availableForWrite() returned n, the next n writes do not wait.
RoomKept == pc = "w_wait" /\ room > 0 => i # txtail

-----------------------------------------------------------------------------
(* Receive side *)

\* After available() returned n, the next n reads find a byte, whatever the
\* receive handler does in between.
AvailKept == avail <= Filled(rxhead, rxtail, RX_SIZE)

\* What availableForWrite() and available() answered holds until it is used up,
\* whatever either handler does meanwhile: no write waits, every read finds a byte.
PromisesKept == RoomKept /\ AvailKept

\* The port this driver implements.  The byte read() has taken and whose slot
\* it has not yet freed is no longer waiting.
Txq == (IF shift # 0 THEN <<shift>> ELSE <<>>)
       \o (IF udr # 0 THEN <<udr>> ELSE <<>>)
       \o Ring(txbuf, txhead, txtail, TX_SIZE)

Waiting == Ring(rxbuf, rxhead, rxtail, RX_SIZE)
Rxq  == IF pc = "r_advance" /\ Waiting # <<>> THEN Tail(Waiting) ELSE Waiting
Held == IF pc = "r_advance" THEN 1 ELSE 0

Port == INSTANCE SerialPort WITH
    TxCapacity <- TX_SIZE + 1,
    RxCapacity <- RX_SIZE - 1,
    LineCapacity <- 2,
    txq <- Txq, line <- rxfifo, rxq <- Rxq, held <- Held

\* The driver, with its interleaved handlers, is a serial port: bytes out once
\* each in order, frames in once each in order, a good one dropped only on a
\* full buffer.
ImplementsPort == Port!Spec

-----------------------------------------------------------------------------
(* The inductive invariant: the properties above are not inductive alone,   *)
(* because they rest on where the sketch is in its call.                    *)

WritePcs == {"w_check", "w_udre", "w_fast", "w_slot", "w_wait", "w_store", "w_publish"}
FlushPcs == {"f_udrie", "f_txc", "f_poll"}
SetupPcs == {"b_read", "b_write", "e_read", "e_write", "e_clear"}
ReadPcs  == {"r_take", "r_advance"}

\* The data-empty interrupt is on exactly while the ring holds a byte.
UdrieIff == "UDRIE" \in ucsrb <=> txhead # txtail

\* What write() knows between its tests and its stores.
WriteLocals ==
    /\ pc \in {"w_udre", "w_fast"} => txhead = txtail
    /\ pc = "w_fast" => UDRE
    /\ pc \in {"w_wait", "w_store", "w_publish"} => i = Succ(txhead, TX_SIZE)
    /\ pc \in {"w_store", "w_publish"} => i # txtail
    /\ pc = "w_publish" => txbuf[txhead] = accepted + 1

\* A port that is not open, being set up, or never written to since begin()
\* has nothing to send, so no handler changes UCSRB under a register update.
Quiet ==
    /\ ~written => accepted = sent
    /\ pc \in SetupPcs => accepted = sent
    /\ pc \in {"idle"} \union ReadPcs /\ ~Open => accepted = sent
    /\ pc \in WritePcs \union FlushPcs => Open /\ written
    /\ pc \in {"b_write", "e_write"} => tmp = ucsrb
    /\ pc = "f_txc" => txhead = txtail

RoomBelow == room <= Room(txhead, txtail, TX_SIZE)

\* What read() and end() know of the receive ring.
ReadLocals ==
    /\ pc \in ReadPcs => rxhead # rxtail
    /\ pc \in {"e_read", "e_write", "e_clear"} => avail = 0
    /\ pc \in FlushPcs /\ ret = "e_read" => avail = 0

\* All of it: what the handlers and every call of the sketch preserve.
Inv == /\ TypeOK /\ InOrder /\ UdrieIff /\ TxcMeansIdle /\ WriteLocals
       /\ Quiet /\ RoomBelow /\ AvailKept /\ ReadLocals

-----------------------------------------------------------------------------
(* Liveness.  The sketch keeps executing a call it has entered; the USART   *)
(* shifts; a handler whose interrupt stays pending runs, and, since a       *)
(* sketch that disables interrupts enables them again and SEI lets at least *)
(* one instruction execute, so does one that is pending again and again.    *)

InCall == pc # "idle" /\ (Write \/ FlushStep \/ Begin \/ End \/ Read)

Fairness ==
    /\ WF_vars(TxLoad) /\ WF_vars(TxDone)
    /\ WF_vars(InCall) /\ WF_vars(Sei)
    /\ SF_vars(TxIsr) /\ SF_vars(RxIsr)

FairSpec == Spec /\ Fairness

\* write() returns even with interrupts off: it polls the data register itself.
WriteReturns == pc = "w_check" ~> pc = "idle"

\* flush() returns: a cleared TXC is always raised again.
FlushReturns == pc = "f_udrie" ~> pc \in {"idle", "e_read"}

\* Every byte written is sent, without the program doing anything more.
AllSent == sent < accepted ~> sent = accepted

\* The driver never hangs and never strands a byte: not in write() with interrupts off,
\* not in flush() on a TXC that was cleared, not in a ring whose interrupt is off.
Progress == WriteReturns /\ FlushReturns /\ AllSent
=============================================================================
