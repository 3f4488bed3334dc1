----------------------------- MODULE SerialPort -----------------------------
(***************************************************************************)
(* What a serial port promises its program: the bytes written leave the    *)
(* pin once each and in order; the frames received are read once each and  *)
(* in order, and a good one is dropped only when the buffer is full.       *)
(***************************************************************************)
EXTENDS Integers, Sequences

CONSTANTS
    TxCapacity,   \* bytes that can be on their way out
    LineCapacity, \* frames the receiver holds by itself
    RxCapacity    \* bytes that can wait to be read

VARIABLES
    txq, accepted, sent,      \* bytes on their way, last accepted, last sent
    arrived, line, rxq, held, got \* frames seen and at the receiver, bytes to read, a byte
                              \* being read whose slot is not yet free, the last read

tx == <<txq, accepted, sent>>
rx == <<arrived, line, rxq, held, got>>

Init ==
    /\ txq = <<>> /\ accepted = 0 /\ sent = 0
    /\ arrived = 0 /\ line = <<>> /\ rxq = <<>> /\ held = 0 /\ got = 0

Accept ==
    /\ Len(txq) < TxCapacity
    /\ accepted' = accepted + 1
    /\ txq' = Append(txq, accepted + 1)
    /\ UNCHANGED <<sent, rx>>

Emit ==
    /\ txq # <<>>
    /\ sent' = Head(txq)
    /\ txq' = Tail(txq)
    /\ UNCHANGED <<accepted, rx>>

Arrive ==
    /\ arrived' = arrived + 1
    /\ IF Len(line) < LineCapacity
       THEN \E upe \in BOOLEAN : line' = Append(line, [n |-> arrived + 1, upe |-> upe])
       ELSE line' = line
    /\ UNCHANGED <<tx, rxq, held, got>>

Deliver ==
    /\ line # <<>>
    /\ line' = Tail(line)
    /\ LET f == Head(line) IN
       rxq' = IF ~f.upe /\ Len(rxq) + held < RxCapacity
              THEN Append(rxq, f.n)
              ELSE rxq
    /\ UNCHANGED <<tx, arrived, held, got>>

ReadByte ==
    /\ held = 0 /\ rxq # <<>>
    /\ got' = Head(rxq)
    /\ rxq' = Tail(rxq)
    /\ held' = 1
    /\ UNCHANGED <<tx, arrived, line>>

Release ==
    /\ held = 1 /\ held' = 0
    /\ UNCHANGED <<tx, arrived, line, rxq, got>>

ReadNothing ==
    /\ held = 0 /\ rxq = <<>>
    /\ got' = -1
    /\ UNCHANGED <<tx, arrived, line, rxq, held>>

\* The port is closed only when everything written has been sent.
Close ==
    /\ line' = <<>>
    /\ rxq' \in {rxq, <<>>}
    /\ txq = <<>>
    /\ UNCHANGED <<tx, arrived, held, got>>

Next == \/ Accept \/ Emit \/ Arrive \/ Deliver \/ ReadByte \/ Release
        \/ ReadNothing \/ Close

Spec == Init /\ [][Next]_<<tx, rx>>

\* A byte that was accepted is eventually sent.
Fairness == WF_<<tx, rx>>(Emit)
FairSpec == Spec /\ Fairness
=============================================================================
