------------------------------ MODULE SpiFifo -------------------------------
(***************************************************************************)
(* Transfers of libraries/SPI within a transaction: a byte or a word       *)
(* (SPI.h; a buffer in place is a byte at a time), or a buffer (SPI.cpp),  *)
(* which is written and then read ("send", "receive") or written and read  *)
(* as the two FIFOs allow ("duplex").                                      *)
(***************************************************************************)
EXTENDS Integers, Sequences

CONSTANTS
    DEPTH,     \* bytes in each of the two FIFOs (external)
    Lengths    \* lengths of a transfer

ASSUME FifoAssumption == DEPTH \in Nat \ {0} /\ Lengths \subseteq Nat

VARIABLES
    wr, rd, wedged,           \* the FIFOs (of which transfer), and the SPI may stand still
    form, writecount, count,  \* the transfer: bytes to write and to read
    stale                     \* history: a transfer gave up, and nothing reset the FIFOs since

fifo == <<wr, rd, wedged>>
xfer == <<form, writecount, count, stale>>
fifoVars == <<fifo, xfer>>

Buffered == {"send", "receive", "duplex"}
Inline   == [byte |-> 1, word |-> 2]

FifoInit ==
    /\ wr = <<>> /\ rd = <<>> /\ wedged = FALSE
    /\ form = "none" /\ writecount = 0 /\ count = 0 /\ stale = FALSE

transfer(f, n) ==
    /\ form = "none" /\ n > 0
    /\ form' = f /\ writecount' = n /\ count' = n
    /\ UNCHANGED <<fifo, stale>>

ToWriteOneMore == writecount >= 0
ToWrite == writecount > 0

\* The first byte of a byte or a word: without a look at WRFULL
First == form \in DOMAIN Inline /\ writecount = count

\* SPDR = *p++, which a full FIFO drops
WriteByte ==
    /\ ToWrite /\ (First \/ Len(wr) < DEPTH)
    /\ wr' = (IF Len(wr) < DEPTH THEN Append(wr, form) ELSE wr) /\ writecount' = writecount - 1
    /\ UNCHANGED <<rd, wedged, form, count, stale>>

\* The duplex loop reads between its writes.
ReadsNow == form = "duplex" \/ writecount = 0

\* Not RDEMPT
ReadByte ==
    /\ count > 0 /\ rd # <<>> /\ ReadsNow
    /\ rd' = Tail(rd) /\ count' = count - 1
    /\ UNCHANGED <<wr, wedged, form, writecount, stale>>

Finish ==
    /\ form' = "none" /\ writecount' = 0 /\ count' = 0
    /\ UNCHANGED wedged

NoReset == FALSE
\* transfer() of a byte and transfer16() reset the pointers of both FIFOs.
Resets == form \in DOMAIN Inline

TransferDone ==
    /\ form # "none" /\ writecount = 0 /\ count = 0
    /\ IF Resets THEN wr' = <<>> /\ rd' = <<>> ELSE UNCHANGED <<wr, rd>>
    /\ stale' = (stale /\ form \in Buffered) /\ Finish

BoundedSend == form = "send"
\* The loops that count SPI_TRANSFER_WAIT_LIMIT polls
Bounded == form \in {"send", "receive"}

\* The limit is longer than any byte takes: it is reached only when no byte comes.
Stuck == IF writecount > 0 THEN wedged /\ Len(wr) = DEPTH ELSE count > 0 /\ rd = <<>> /\ (wedged \/ wr = <<>>)

GiveUp ==
    /\ Bounded /\ Stuck
    /\ UNCHANGED <<wr, rd>>
    /\ stale' = TRUE /\ Finish

\* A byte goes out and its reply comes in.  If there is no room, this reply or the
\* oldest is lost: the code does not say which.
Shift ==
    /\ wr # <<>> /\ ~wedged
    /\ wr' = Tail(wr)
    /\ IF Len(rd) < DEPTH
       THEN rd' = Append(rd, Head(wr))
       ELSE rd' \in {rd, Append(Tail(rd), Head(wr))}
    /\ UNCHANGED <<wedged, xfer>>

\* Two masters met, say; the sketch sets the SPI up again between two transfers.
Wedge ==
    /\ wedged' = ~wedged /\ (wedged => form = "none")
    /\ UNCHANGED <<wr, rd, xfer>>

InTransfer == WriteByte \/ ReadByte \/ TransferDone \/ GiveUp

FifoNext ==
    \/ \E f \in Buffered, n \in Lengths : transfer(f, n)
    \/ \E f \in DOMAIN Inline : transfer(f, Inline[f])
    \/ InTransfer \/ Shift \/ Wedge
=============================================================================
