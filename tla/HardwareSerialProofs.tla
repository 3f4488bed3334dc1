------------------------ MODULE HardwareSerialProofs ------------------------
(***************************************************************************)
(* Proofs that HardwareSerial keeps its invariants and implements the      *)
(* abstract SerialPort for every buffer size, as long as begin() is not    *)
(* called on an open port.                                                 *)
(***************************************************************************)
EXTENDS HardwareSerialProps, SequenceTheorems, TLAPS

-----------------------------------------------------------------------------
(* Ring arithmetic *)

\* (x + 1) % size walks the indices and wraps at the last one.
LEMMA SuccValue ==
    ASSUME NEW size \in Nat, size > 1, NEW x \in 0 .. size - 1
    PROVE  Succ(x, size) = IF x + 1 = size THEN 0 ELSE x + 1
<1>1. CASE x + 1 = size
  BY <1>1 DEF Succ
<1>2. CASE x + 1 # size
  BY <1>2 DEF Succ
<1> QED
  BY <1>1, <1>2

\* available()'s modular difference is the number of slots from tail to head.
LEMMA CountValue ==
    ASSUME NEW size \in Nat, size > 1,
           NEW h \in 0 .. size - 1, NEW t \in 0 .. size - 1
    PROVE  Count(h, t, size) = Filled(h, t, size)
<1>1. CASE h >= t
  <2>1. size + h - t = size + (h - t) /\ h - t \in 0 .. size - 1
    BY <1>1
  <2>2. (size + (h - t)) % size = h - t
    BY <2>1
  <2> QED
    BY <1>1, <2>1, <2>2 DEF Count, Filled
<1>2. CASE h < t
  <2>1. size + h - t \in 0 .. size - 1
    BY <1>2
  <2>2. (size + h - t) % size = size + h - t
    BY <2>1
  <2> QED
    BY <1>2, <2>2 DEF Count, Filled
<1> QED
  BY <1>1, <1>2

\* An index stays an index.
LEMMA SuccInRange ==
    ASSUME NEW size \in Nat, size > 1, NEW x \in 0 .. size - 1
    PROVE  Succ(x, size) \in 0 .. size - 1
BY SuccValue

\* The number of slots from tail to head: its range, when it is 0, how it
\* changes when an end moves, and that it tells slots apart.
LEMMA FilledFacts ==
    ASSUME NEW size \in Nat, size > 1,
           NEW h \in 0 .. size - 1, NEW t \in 0 .. size - 1
    PROVE  /\ Filled(h, t, size) \in 0 .. size - 1
           /\ Filled(h, t, size) = 0 <=> h = t
           /\ Room(h, t, size) = size - 1 - Filled(h, t, size)
           /\ Succ(h, size) # t => Filled(Succ(h, size), t, size) = Filled(h, t, size) + 1
           /\ Succ(h, size) = t <=> Room(h, t, size) = 0
           /\ h # t => Filled(h, Succ(t, size), size) = Filled(h, t, size) - 1
           /\ Filled(t, Succ(t, size), size) = size - 1
           /\ \A x \in 0 .. size - 1 : Filled(x, t, size) = Filled(h, t, size) => x = h
<1>1. Succ(h, size) = IF h + 1 = size THEN 0 ELSE h + 1
  BY SuccValue
<1>2. Succ(t, size) = IF t + 1 = size THEN 0 ELSE t + 1
  BY SuccValue
<1>3. /\ Filled(h, t, size) \in 0 .. size - 1
      /\ Filled(h, t, size) = 0 <=> h = t
      /\ Room(h, t, size) = size - 1 - Filled(h, t, size)
  BY DEF Filled, Room
<1>4. /\ Succ(h, size) # t => Filled(Succ(h, size), t, size) = Filled(h, t, size) + 1
      /\ Succ(h, size) = t <=> Room(h, t, size) = 0
  BY <1>1 DEF Filled, Room
<1>5. h # t => Filled(h, Succ(t, size), size) = Filled(h, t, size) - 1
  BY <1>2 DEF Filled
<1>6. Filled(t, Succ(t, size), size) = size - 1
  BY <1>2 DEF Filled
<1>7. \A x \in 0 .. size - 1 : Filled(x, t, size) = Filled(h, t, size) => x = h
  BY DEF Filled
<1> QED
  BY <1>3, <1>4, <1>5, <1>6, <1>7

-----------------------------------------------------------------------------
(* Types *)

\* Sending one byte from the ring keeps the types of what it writes.
LEMMA IrqTypes ==
    ASSUME TypeOK, TxUdrEmptyIrq
    PROVE  /\ udr' \in Nat /\ txtail' \in 0 .. TX_SIZE - 1 /\ txc' \in BOOLEAN
           /\ ucsrb' \in SUBSET Bits
           /\ UNCHANGED <<txbuf, txhead, shift>>
BY SizesAssumption, SuccInRange DEF TypeOK, TxUdrEmptyIrq, ClearTxc

LEMMA TypeInit == Init => TypeOK
<1> SUFFICES ASSUME Init PROVE TypeOK
  OBVIOUS
<1>1. rxfifo \in Seq(Frames)
  BY DEF Init
<1>2. /\ txbuf \in [0 .. TX_SIZE - 1 -> Nat] /\ rxbuf \in [0 .. RX_SIZE - 1 -> Nat]
      /\ txhead \in 0 .. TX_SIZE - 1 /\ txtail \in 0 .. TX_SIZE - 1
      /\ rxhead \in 0 .. RX_SIZE - 1 /\ rxtail \in 0 .. RX_SIZE - 1
      /\ i \in 0 .. TX_SIZE - 1
  BY SizesAssumption DEF Init
<1>3. /\ written \in BOOLEAN /\ ie \in BOOLEAN /\ txc \in BOOLEAN
      /\ ucsrb \in SUBSET Bits /\ tmp \in SUBSET Bits
  BY DEF Init
<1>4. pc \in Labels /\ ret \in {"idle", "e_read"}
  BY DEF Init, Labels
<1>5. /\ udr \in Nat /\ shift \in Nat /\ k \in 1 .. 4
      /\ room \in Nat /\ avail \in Nat /\ got \in Nat \union {-1}
      /\ accepted \in Nat /\ sent \in Nat /\ arrived \in Nat
  BY DEF Init
<1> QED
  BY <1>1, <1>2, <1>3, <1>4, <1>5 DEF TypeOK

LEMMA TypeStep == TypeOK /\ [Next]_vars => TypeOK'
<1> SUFFICES ASSUME TypeOK, [Next]_vars PROVE TypeOK'
  OBVIOUS
<1> USE SizesAssumption
<1>1. CASE TxIsr
  BY <1>1, IrqTypes DEF TxIsr, TypeOK, rxRing, sketch, told, hist
<1>2. CASE RxIsr
  <2>1. Head(rxfifo) \in Frames /\ Tail(rxfifo) \in Seq(Frames)
    BY <1>2 DEF RxIsr, TypeOK
  <2>2. Succ(rxhead, RX_SIZE) \in 0 .. RX_SIZE - 1
    BY SuccInRange DEF TypeOK
  <2>3. rxbuf' \in [0 .. RX_SIZE - 1 -> Nat] /\ rxhead' \in 0 .. RX_SIZE - 1
    BY <1>2, <2>1, <2>2 DEF RxIsr, TypeOK, Frames
  <2> QED
    BY <1>2, <2>1, <2>3 DEF RxIsr, TypeOK, txRing, txHw, sketch, told, hist
<1>3. CASE Write
  <2> USE DEF TypeOK, Labels, txRing, rxRing, txHw, told, hist
  <2>1. CASE WriteCall \/ WriteCheck \/ WriteUdre
    BY <2>1 DEF WriteCall, WriteCheck, WriteUdre
  <2>2. CASE WriteFast
    <3>1. room' \in Nat
      BY <2>2 DEF WriteFast, Spend
    <3>2. accepted' \in Nat /\ udr' \in Nat
      BY <2>2 DEF WriteFast
    <3>3. txc' \in BOOLEAN
      BY <2>2 DEF WriteFast, ClearTxc
    <3> QED
      BY <2>2, <3>1, <3>2, <3>3 DEF WriteFast
  <2>3. CASE WriteSlot
    BY <2>3, SuccInRange DEF WriteSlot
  <2>4. CASE WritePoll
    BY <2>4, IrqTypes DEF WritePoll, sketch
  <2>5. CASE WriteProceed
    BY <2>5 DEF WriteProceed
  <2>6. CASE WriteStore
    <3>1. txbuf' \in [0 .. TX_SIZE - 1 -> Nat]
      BY <2>6 DEF WriteStore
    <3> QED
      BY <2>6, <3>1 DEF WriteStore
  <2>7. CASE WritePublish
    <3>1. room' \in Nat /\ accepted' \in Nat /\ ucsrb' \in SUBSET Bits
      BY <2>7 DEF WritePublish, Spend, RequestUdre, Bits
    <3> QED
      BY <2>7, <3>1 DEF WritePublish
  <2> QED
    BY <1>3, <2>1, <2>2, <2>3, <2>4, <2>5, <2>6, <2>7 DEF Write
<1>4. CASE FlushStep
  <2> USE DEF TypeOK, Labels, txRing, rxRing, txHw, told, hist
  <2>1. CASE FlushCall \/ FlushUdrie \/ FlushTxc
    BY <2>1 DEF FlushCall, FlushUdrie, FlushTxc, Flush
  <2>2. CASE FlushPoll
    BY <2>2, IrqTypes DEF FlushPoll
  <2> QED
    BY <1>4, <2>1, <2>2 DEF FlushStep
<1>5. CASE Begin \/ End
  <2> USE DEF TypeOK, Labels, txRing, rxRing, txHw, told, hist
  <2>1. CASE BeginCall
    <3>1. /\ written' = FALSE /\ k' = 1 /\ pc' = "b_read"
          /\ UNCHANGED <<txRing, rxRing, ucsrb, txHw, rxfifo, ie, i, tmp, ret, told, hist>>
      BY <2>1 DEF BeginCall
    <3>2. pc' \in Labels /\ k' \in 1 .. 4
      BY <3>1
    <3>3. written' \in BOOLEAN
      BY <3>1
    <3> QED
      BY <3>1, <3>2, <3>3
  <2>6. CASE EndClear
    BY <2>6 DEF EndClear
  <2>5. CASE EndCall
    BY <2>5 DEF EndCall, Flush
  <2>2. ASSUME NEW at \in Labels, NEW next \in Labels, RegLoad(at, next) PROVE TypeOK'
    BY <2>2 DEF RegLoad
  <2>3. CASE RegStore(BeginOps, "b_write", "b_read", "idle")
    <3>1. Update(BeginOps[k], tmp) \in SUBSET Bits
      <4>1. BeginOps[k].bit \in Bits /\ tmp \in SUBSET Bits
        BY DEF BeginOps, Bits
      <4> QED
        BY <4>1 DEF Update
    <3>2. rxfifo' \in Seq(Frames)
      BY <2>3 DEF RegStore
    <3>3. k' \in 1 .. 4
      BY <2>3 DEF RegStore, BeginOps
    <3> QED
      BY <2>3, <3>1, <3>2, <3>3 DEF RegStore
  <2>4. CASE RegStore(EndOps, "e_write", "e_read", "e_clear")
    <3>1. Update(EndOps[k], tmp) \in SUBSET Bits
      <4>1. EndOps[k].bit \in Bits /\ tmp \in SUBSET Bits
        BY DEF EndOps, Bits
      <4> QED
        BY <4>1 DEF Update
    <3>2. rxfifo' \in Seq(Frames)
      BY <2>4 DEF RegStore
    <3>3. k' \in 1 .. 4
      BY <2>4 DEF RegStore, EndOps
    <3> QED
      BY <2>4, <3>1, <3>2, <3>3 DEF RegStore
  <2> QED
    BY <1>5, <2>1, <2>2, <2>3, <2>4, <2>5, <2>6 DEF Begin, End
<1>6. CASE Read
  <2>1. CASE ReadCall \/ ReadTake
    BY <2>1 DEF ReadCall, ReadTake, TypeOK, Labels, txRing, rxRing, txHw, hist
  <2>2. CASE ReadAdvance
    <3>1. avail' \in Nat
      BY <2>2 DEF ReadAdvance, TypeOK, Spend
    <3>2. rxtail' \in 0 .. RX_SIZE - 1
      BY <2>2, SuccInRange DEF ReadAdvance, TypeOK
    <3> QED
      BY <2>2, <3>1, <3>2 DEF ReadAdvance, TypeOK, Labels, txRing, txHw, hist
  <2> QED
    BY <1>6, <2>1, <2>2 DEF Read
<1>7. CASE Available
  <2>1. Count(rxhead, rxtail, RX_SIZE) \in Nat
    <3>1. rxhead \in 0 .. RX_SIZE - 1 /\ rxtail \in 0 .. RX_SIZE - 1
      BY DEF TypeOK
    <3>2. Count(rxhead, rxtail, RX_SIZE) = Filled(rxhead, rxtail, RX_SIZE)
      BY <3>1, CountValue
    <3> QED
      BY <3>1, <3>2 DEF Filled
  <2> QED
    BY <1>7, <2>1 DEF Available, TypeOK, txRing, rxRing, txHw, sketch, hist
<1>8. CASE AvailableForWrite
  <2>1. Room(txhead, txtail, TX_SIZE) \in Nat
    BY DEF Room, TypeOK
  <2> QED
    BY <1>8, <2>1 DEF AvailableForWrite, TypeOK, txRing, rxRing, txHw, sketch, hist
<1>9. CASE Cli \/ Sei
  BY <1>9 DEF Cli, Sei, TypeOK, txRing, rxRing, txHw, told, hist
<1>10. CASE Usart
  <2>1. CASE TxLoad
    BY <2>1 DEF TxLoad, TypeOK, txRing, rxRing, sketch, told, hist
  <2>3. CASE TxDone
    BY <2>3 DEF TxDone, UDRE, TypeOK, txRing, rxRing, sketch, told
  <2>2. CASE RxFrame
    <3>1. PICK upe \in BOOLEAN :
             rxfifo' = IF Len(rxfifo) < 2
                       THEN Append(rxfifo, [n |-> arrived + 1, upe |-> upe])
                       ELSE rxfifo
      BY <2>2 DEF RxFrame
    <3>2. [n |-> arrived + 1, upe |-> upe] \in Frames
      BY DEF Frames, TypeOK
    <3>3. rxfifo' \in Seq(Frames)
      BY <3>1, <3>2 DEF TypeOK
    <3> QED
      BY <2>2, <3>3 DEF RxFrame, TypeOK, txRing, rxRing, txHw, sketch, told
  <2> QED
    BY <1>10, <2>1, <2>2, <2>3 DEF Usart
<1>11. CASE UNCHANGED vars
  BY <1>11 DEF vars, TypeOK, txRing, rxRing, txHw, sketch, told, hist
<1> QED
  BY <1>1, <1>2, <1>3, <1>4, <1>5, <1>6, <1>7, <1>8, <1>9, <1>10, <1>11 DEF Next

\* Every index stays inside its buffer and every register holds bits it has,
\* whatever the sizes and however handlers and calls interleave.
THEOREM TypeCorrect == Spec => []TypeOK
BY TypeInit, TypeStep, PTL DEF Spec

-----------------------------------------------------------------------------
(* Steps that leave one side of the driver alone *)

LEMMA TxUntouched ==
    ASSUME Inv, UNCHANGED <<txRing, txHw, ucsrb, room, accepted, sent>>
    PROVE  InOrder' /\ UdrieIff' /\ TxcMeansIdle' /\ RoomBelow'
<1>1. InOrder'
  BY DEF Inv, InOrder, Queued, InHw, Offset, txRing, txHw
<1>2. UdrieIff' /\ TxcMeansIdle' /\ RoomBelow'
  BY DEF Inv, UdrieIff, TxcMeansIdle, InHw, RoomBelow, txRing, txHw
<1> QED
  BY <1>1, <1>2

LEMMA RxUntouched ==
    ASSUME Inv, UNCHANGED <<rxRing, avail>>
    PROVE  AvailKept'
BY DEF Inv, AvailKept, rxRing

\* Sending the oldest byte of a ring that holds one keeps the order, and only
\* makes room.
LEMMA IrqKeeps ==
    ASSUME Inv, txhead # txtail, UDRE, TxUdrEmptyIrq,
           UNCHANGED <<accepted, sent, room>>
    PROVE  InOrder' /\ UdrieIff' /\ TxcMeansIdle' /\ RoomBelow'
<1> USE SizesAssumption
<1> DEFINE H == txhead  T == txtail  S == TX_SIZE
<1>1. /\ txbuf' = txbuf /\ txhead' = txhead /\ shift' = shift
      /\ txtail' = Succ(T, S) /\ txc' = FALSE /\ udr = 0 /\ udr' = txbuf[T]
  BY DEF TxUdrEmptyIrq, ClearTxc, UDRE
<1>2. TypeOK /\ InOrder
  BY DEF Inv
<1>3. H \in 0 .. S - 1 /\ T \in 0 .. S - 1 /\ S \in Nat /\ S > 1
      /\ accepted \in Nat /\ sent \in Nat /\ shift \in Nat /\ room \in Nat
  BY <1>2 DEF TypeOK
<1>4. Filled(T, T, S) = 0 /\ Filled(H, T, S) \in 1 .. S - 1
  BY <1>3, FilledFacts
<1>5. Filled(H, Succ(T, S), S) = Filled(H, T, S) - 1
  BY <1>3, FilledFacts
<1>6. txbuf[T] = sent + InHw + 1
  BY <1>2, <1>3, <1>4 DEF InOrder, Offset, Queued, InHw
<1>7. InHw \in {0, 1} /\ InHw' = InHw + 1
  BY <1>1, <1>3, <1>6 DEF InHw
<1>8. InOrder'
  <2>1. (accepted = sent + InHw + Queued)'
    BY <1>1, <1>2, <1>3, <1>4, <1>5, <1>7 DEF InOrder, Queued
  <2>2. (shift # 0 => shift = sent + 1)'
    BY <1>1, <1>2 DEF InOrder
  <2>3. (udr # 0 => udr = sent + InHw)'
    BY <1>1, <1>3, <1>6, <1>7
  <2>4. ASSUME NEW x \in 0 .. S - 1, Offset(x)' < Queued'
        PROVE  txbuf'[x] = sent' + InHw' + Offset(x)' + 1
    <3>1. Queued' = Queued - 1 /\ Queued \in 1 .. S - 1
      BY <1>1, <1>4, <1>5 DEF Queued
    <3>2. Offset(x)' = Filled(x, Succ(T, S), S)
      BY <1>1 DEF Offset
    <3>3. x # T
      BY <1>3, <2>4, <3>1, <3>2, FilledFacts
    <3>4. Filled(x, T, S) \in Nat /\ Filled(x, Succ(T, S), S) = Filled(x, T, S) - 1
      BY <1>3, <3>3, FilledFacts
    <3>5. Offset(x) < Queued
      BY <2>4, <3>1, <3>2, <3>4 DEF Offset
    <3>6. txbuf[x] = sent + InHw + Offset(x) + 1
      BY <1>2, <3>5 DEF InOrder
    <3> QED
      BY <1>1, <1>3, <1>7, <3>2, <3>4, <3>6 DEF Offset
  <2> QED
    BY <2>1, <2>2, <2>3, <2>4 DEF InOrder
<1>9. UdrieIff'
  BY <1>1 DEF Inv, UdrieIff, TxUdrEmptyIrq, Drained
<1>10. TxcMeansIdle'
  BY <1>1 DEF TxcMeansIdle
<1>11. RoomBelow'
  <2>1. Room(H, T, S) = S - 1 - Filled(H, T, S)
    BY <1>3, FilledFacts
  <2>2. Succ(T, S) \in 0 .. S - 1
    BY <1>3, SuccInRange
  <2>3. Room(H, Succ(T, S), S) = S - 1 - Filled(H, Succ(T, S), S)
    BY <1>3, <2>2, FilledFacts
  <2>4. room <= Room(H, T, S)
    BY DEF Inv, RoomBelow
  <2> QED
    BY <1>1, <1>3, <1>4, <1>5, <2>1, <2>3, <2>4 DEF RoomBelow
<1> QED
  BY <1>8, <1>9, <1>10, <1>11

\* When every byte written has been sent, ring and registers are empty.
LEMMA AllSentEmpty ==
    ASSUME TypeOK, InOrder, accepted = sent
    PROVE  txhead = txtail /\ shift = 0 /\ udr = 0
<1>1. txhead \in 0 .. TX_SIZE - 1 /\ txtail \in 0 .. TX_SIZE - 1 /\ sent \in Nat
  BY DEF TypeOK
<1>2. Queued \in Nat /\ (Queued = 0 => txhead = txtail)
  BY <1>1, SizesAssumption, FilledFacts DEF Queued
<1>3. InHw \in Nat /\ (InHw = 0 => shift = 0 /\ udr = 0)
  BY DEF InHw
<1> QED
  BY <1>1, <1>2, <1>3 DEF InOrder

-----------------------------------------------------------------------------
(* The interrupt handlers and the USART *)

LEMMA TxIsrKeeps == ASSUME Inv, TxIsr, TypeOK' PROVE Inv'
<1>1. txhead # txtail
  BY DEF Inv, UdrieIff, TxIsr
<1>2. InOrder' /\ UdrieIff' /\ TxcMeansIdle' /\ RoomBelow'
  BY <1>1, IrqKeeps DEF TxIsr, told, hist
<1>3. AvailKept'
  BY RxUntouched DEF TxIsr, told
<1>4. accepted # sent
  BY <1>1, AllSentEmpty DEF Inv
<1>5. /\ UNCHANGED <<pc, i, tmp, ret, txbuf, txhead, written, accepted, sent, avail, rxRing>>
      /\ txtail' = Succ(txtail, TX_SIZE)
      /\ Open' <=> Open
  BY DEF TxIsr, TxUdrEmptyIrq, Open, sketch, told, hist
<1>6. WriteLocals'
  <2>1. i = Succ(txhead, TX_SIZE) => i # Succ(txtail, TX_SIZE)
    <3>1. txhead \in 0 .. TX_SIZE - 1 /\ txtail \in 0 .. TX_SIZE - 1
      BY DEF Inv, TypeOK
    <3>2. Succ(txhead, TX_SIZE) = IF txhead + 1 = TX_SIZE THEN 0 ELSE txhead + 1
      BY <3>1, SizesAssumption, SuccValue
    <3>3. Succ(txtail, TX_SIZE) = IF txtail + 1 = TX_SIZE THEN 0 ELSE txtail + 1
      BY <3>1, SizesAssumption, SuccValue
    <3> QED
      BY <1>1, <3>1, <3>2, <3>3, SizesAssumption
  <2> QED
    BY <1>1, <1>5, <2>1 DEF Inv, WriteLocals
<1>7. Quiet'
  BY <1>1, <1>4, <1>5 DEF Inv, Quiet, SetupPcs
<1>8. ReadLocals'
  BY <1>5 DEF Inv, ReadLocals, rxRing
<1> QED
  BY <1>2, <1>3, <1>6, <1>7, <1>8 DEF Inv

LEMMA RxIsrKeeps == ASSUME Inv, RxIsr, TypeOK' PROVE Inv'
<1>1. InOrder' /\ UdrieIff' /\ TxcMeansIdle' /\ RoomBelow'
  BY TxUntouched DEF RxIsr, told, hist
<1>2. /\ UNCHANGED <<sketch, txRing, txHw, written, ucsrb, accepted, sent, avail, rxtail>>
      /\ rxhead' = rxhead \/ (rxhead' = Succ(rxhead, RX_SIZE) /\ rxhead' # rxtail)
  BY DEF RxIsr, Stores, told, hist
<1>3. avail \in Nat /\ rxhead \in 0 .. RX_SIZE - 1 /\ rxtail \in 0 .. RX_SIZE - 1
  BY DEF Inv, TypeOK
<1>4. AvailKept'
  <2>1. avail <= Filled(rxhead, rxtail, RX_SIZE) /\ Filled(rxhead, rxtail, RX_SIZE) \in Nat
    BY <1>3, SizesAssumption, FilledFacts DEF Inv, AvailKept
  <2>2. CASE rxhead' = rxhead
    BY <1>2, <2>1, <2>2 DEF AvailKept
  <2>3. CASE rxhead' = Succ(rxhead, RX_SIZE) /\ rxhead' # rxtail
    <3>1. Filled(rxhead', rxtail, RX_SIZE) = Filled(rxhead, rxtail, RX_SIZE) + 1
      BY <1>3, <2>3, SizesAssumption, FilledFacts
    <3> QED
      BY <1>2, <1>3, <2>1, <3>1 DEF AvailKept
  <2> QED
    BY <1>2, <2>2, <2>3
<1>5. WriteLocals' /\ Quiet'
  BY <1>2 DEF Inv, WriteLocals, Quiet, Open, UDRE, sketch, txRing, txHw
<1>6. ReadLocals'
  BY <1>2 DEF Inv, ReadLocals, sketch
<1> QED
  BY <1>1, <1>4, <1>5, <1>6 DEF Inv

LEMMA UsartKeeps == ASSUME Inv, Usart, TypeOK' PROVE Inv'
<1>1. UNCHANGED <<txRing, rxRing, written, ucsrb, sketch, told, accepted>>
  BY DEF Usart, TxLoad, TxDone, RxFrame, hist
<1>2. AvailKept' /\ ReadLocals'
  BY <1>1 DEF Inv, AvailKept, ReadLocals, rxRing, told, sketch
<1>3. UdrieIff' /\ RoomBelow'
  BY <1>1 DEF Inv, UdrieIff, RoomBelow, txRing, told
<1>4. accepted \in Nat /\ sent \in Nat /\ shift \in Nat /\ udr \in Nat
  BY DEF Inv, TypeOK
<1>5. CASE TxLoad
  <2>1. /\ shift = 0 /\ udr # 0 /\ shift' = udr /\ udr' = 0
        /\ UNCHANGED <<txc, sent>>
    BY <1>5 DEF TxLoad, hist
  <2>2. InHw = 1 /\ InHw' = 1
    BY <2>1 DEF InHw
  <2>3. InOrder'
    BY <1>1, <1>4, <2>1, <2>2 DEF Inv, InOrder, Queued, Offset, txRing
  <2>4. TxcMeansIdle'
    BY <2>1, <2>2 DEF Inv, TxcMeansIdle
  <2>5. accepted # sent
    BY <2>1, AllSentEmpty DEF Inv
  <2>6. WriteLocals' /\ Quiet'
    BY <1>1, <2>1, <2>5 DEF Inv, WriteLocals, Quiet, Open, UDRE, sketch, txRing
  <2> QED
    BY <1>2, <1>3, <2>3, <2>4, <2>6 DEF Inv
<1>6. CASE TxDone
  <2>1. shift # 0 /\ shift' = 0 /\ udr' = udr /\ sent' = shift /\ txc' = (txc \/ udr = 0)
    BY <1>6 DEF TxDone, UDRE
  <2>2. shift = sent + 1 /\ sent' = sent + 1
    BY <2>1 DEF Inv, InOrder
  <2>3. InHw \in {1, 2} /\ InHw' = InHw - 1 /\ (udr = 0 => InHw' = 0)
    BY <2>1 DEF InHw
  <2>4. InOrder'
    <3>1. sent' + InHw' = sent + InHw
      BY <1>4, <2>2, <2>3
    <3> QED
      BY <1>1, <1>4, <2>1, <2>2, <2>3, <3>1 DEF Inv, InOrder, Queued, Offset, txRing
  <2>5. TxcMeansIdle'
    <3>1. ~txc
      BY <2>3 DEF Inv, TxcMeansIdle
    <3>2. txc' => udr = 0
      BY <2>1, <3>1
    <3> QED
      BY <2>3, <3>2 DEF TxcMeansIdle
  <2>6. accepted # sent
    BY <2>1, AllSentEmpty DEF Inv
  <2>7. WriteLocals' /\ Quiet'
    BY <1>1, <2>1, <2>6 DEF Inv, WriteLocals, Quiet, Open, UDRE, sketch, txRing
  <2> QED
    BY <1>2, <1>3, <2>4, <2>5, <2>7 DEF Inv
<1>7. CASE RxFrame
  <2>1. InOrder' /\ UdrieIff' /\ TxcMeansIdle' /\ RoomBelow'
    BY <1>7, TxUntouched DEF RxFrame, told
  <2>2. WriteLocals' /\ Quiet'
    BY <1>1, <1>7 DEF Inv, RxFrame, WriteLocals, Quiet, Open, UDRE, sketch, txRing, txHw
  <2> QED
    BY <1>2, <2>1, <2>2 DEF Inv
<1> QED
  BY <1>5, <1>6, <1>7 DEF Usart

-----------------------------------------------------------------------------
(* The calls of the sketch *)

LEMMA WriteKeeps == ASSUME Inv, Write, TypeOK' PROVE Inv'
<1>1. UNCHANGED <<rxRing, ie, tmp, k, ret, avail, sent>>
  BY DEF Write, WriteCall, WriteCheck, WriteUdre, WriteFast, WriteSlot, WritePoll,
         WriteProceed, WriteStore, WritePublish, sketch, told, hist
<1>2. AvailKept'
  BY <1>1, RxUntouched
<1>3. ReadLocals'
  BY <1>1 DEF Inv, ReadLocals, ReadPcs, FlushPcs, rxRing, Write, WriteCall, WriteCheck,
         WriteUdre, WriteFast, WriteSlot, WritePoll, WriteProceed, WriteStore,
         WritePublish, sketch
<1>4. /\ accepted \in Nat /\ sent \in Nat /\ shift \in Nat /\ udr \in Nat /\ room \in Nat
      /\ txhead \in 0 .. TX_SIZE - 1 /\ txtail \in 0 .. TX_SIZE - 1
      /\ TX_SIZE \in Nat /\ TX_SIZE > 1
  BY SizesAssumption DEF Inv, TypeOK
<1>5. CASE WriteCall \/ WriteCheck \/ WriteUdre \/ WriteSlot \/ WriteProceed
  <2>1. UNCHANGED <<txRing, txHw, ucsrb, room, accepted, sent>>
    BY <1>5 DEF WriteCall, WriteCheck, WriteUdre, WriteSlot, WriteProceed, told, hist
  <2>2. InOrder' /\ UdrieIff' /\ TxcMeansIdle' /\ RoomBelow'
    BY <2>1, TxUntouched
  <2>3. WriteLocals'
    BY <1>5, <2>1 DEF Inv, WriteLocals, UDRE, Free, txRing, txHw,
       WriteCall, WriteCheck, WriteUdre, WriteSlot, WriteProceed
  <2>4. Quiet'
    BY <1>1, <1>5, <2>1 DEF Inv, Quiet, WritePcs, FlushPcs, SetupPcs, ReadPcs, Open, txRing,
       WriteCall, WriteCheck, WriteUdre, WriteSlot, WriteProceed
  <2> QED
    BY <1>2, <1>3, <2>2, <2>3, <2>4 DEF Inv
<1>6. CASE WriteFast
  <2>1. txhead = txtail /\ udr = 0 /\ Open /\ written
    BY <1>6 DEF Inv, WriteLocals, Quiet, WritePcs, UDRE, WriteFast
  <2>2. /\ udr' = accepted + 1 /\ txc' = FALSE /\ accepted' = accepted + 1
        /\ pc' = "idle" /\ room' = Spend(room)
        /\ UNCHANGED <<txRing, written, ucsrb, shift, sent>>
    BY <1>6 DEF WriteFast, ClearTxc
  <2>3. Queued = 0 /\ Queued' = 0
    BY <1>4, <2>1, <2>2, FilledFacts DEF Queued, txRing
  <2>4. InHw \in {0, 1} /\ InHw' = InHw + 1
    BY <1>4, <2>1, <2>2 DEF InHw
  <2>5. InOrder'
    <3>1. accepted = sent + InHw
      BY <1>4, <2>3, <2>4 DEF Inv, InOrder
    <3>2. ASSUME NEW x \in 0 .. TX_SIZE - 1 PROVE ~(Offset(x)' < Queued')
      <4>1. Offset(x)' \in Nat
        BY <1>4, <2>2, FilledFacts DEF Offset, txRing
      <4> QED
        BY <2>3, <4>1
    <3>3. /\ (accepted = sent + InHw + Queued)'
          /\ (udr # 0 => udr = sent + InHw)'
      BY <1>4, <2>2, <2>3, <2>4, <3>1
    <3>4. (shift # 0 => shift = sent + 1)'
      BY <2>2 DEF Inv, InOrder
    <3> QED
      BY <3>2, <3>3, <3>4 DEF InOrder
  <2>6. UdrieIff' /\ TxcMeansIdle'
    BY <2>2 DEF Inv, UdrieIff, TxcMeansIdle, txRing
  <2>7. RoomBelow'
    BY <1>4, <2>2 DEF Inv, RoomBelow, Spend, Room, txRing
  <2>8. WriteLocals' /\ Quiet'
    BY <2>1, <2>2 DEF WriteLocals, Quiet, WritePcs, FlushPcs, SetupPcs, ReadPcs, Open
  <2> QED
    BY <1>2, <1>3, <2>5, <2>6, <2>7, <2>8 DEF Inv
<1>7. CASE WritePoll
  <2>1. /\ pc = "w_wait" /\ i = Succ(txhead, TX_SIZE) /\ i = txtail /\ UDRE
        /\ UNCHANGED <<pc, i, written, accepted, sent, room>>
    BY <1>7 DEF Inv, WriteLocals, WritePoll, Free, sketch, told, hist
  <2>2. txhead # txtail
    <3>1. Succ(txhead, TX_SIZE) = IF txhead + 1 = TX_SIZE THEN 0 ELSE txhead + 1
      BY <1>4, SuccValue
    <3>2. Succ(txhead, TX_SIZE) # txhead
      BY <1>4, <3>1
    <3> QED
      BY <2>1, <3>2
  <2>3. InOrder' /\ UdrieIff' /\ TxcMeansIdle' /\ RoomBelow'
    BY <1>7, <2>1, <2>2, IrqKeeps DEF WritePoll
  <2>4. txhead' = txhead /\ (Open' <=> Open)
    BY <1>7 DEF WritePoll, TxUdrEmptyIrq, Open
  <2>5. WriteLocals' /\ Quiet'
    BY <2>1, <2>4 DEF Inv, WriteLocals, Quiet, WritePcs, FlushPcs, SetupPcs, ReadPcs
  <2> QED
    BY <1>2, <1>3, <2>3, <2>5 DEF Inv
<1>8. CASE WriteStore
  <2>1. /\ pc = "w_store" /\ pc' = "w_publish"
        /\ txbuf' = [txbuf EXCEPT ![txhead] = accepted + 1]
        /\ UNCHANGED <<txhead, txtail, txHw, written, ucsrb, i, accepted, sent, room>>
    BY <1>8 DEF WriteStore, told, hist
  <2>2. InOrder'
    <3>1. ASSUME NEW x \in 0 .. TX_SIZE - 1, Offset(x) < Queued
          PROVE  txbuf'[x] = txbuf[x]
      <4>1. x # txhead
        BY <3>1, <1>4, FilledFacts DEF Offset, Queued
      <4> QED
        BY <2>1, <4>1 DEF Inv, TypeOK
    <3> QED
      BY <2>1, <3>1 DEF Inv, InOrder, Offset, Queued, InHw, txHw
  <2>3. UdrieIff' /\ TxcMeansIdle' /\ RoomBelow'
    BY <2>1 DEF Inv, UdrieIff, TxcMeansIdle, InHw, RoomBelow, txHw
  <2>4. WriteLocals'
    BY <1>4, <2>1 DEF Inv, TypeOK, WriteLocals
  <2>5. Quiet'
    BY <2>1 DEF Inv, Quiet, WritePcs, FlushPcs, SetupPcs, ReadPcs, Open
  <2> QED
    BY <1>2, <1>3, <2>2, <2>3, <2>4, <2>5 DEF Inv
<1>9. CASE WritePublish
  <2>1. /\ pc = "w_publish" /\ pc' = "idle" /\ txhead' = i
        /\ ucsrb' = ucsrb \union {"UDRIE"} /\ accepted' = accepted + 1
        /\ room' = Spend(room)
        /\ UNCHANGED <<txbuf, txtail, txHw, written, sent>>
    BY <1>9 DEF WritePublish, RequestUdre
  <2>2. /\ i = Succ(txhead, TX_SIZE) /\ i # txtail /\ txbuf[txhead] = accepted + 1
        /\ Open /\ written
    BY <2>1 DEF Inv, WriteLocals, Quiet, WritePcs
  <2>3. Queued' = Queued + 1 /\ Queued \in Nat
    BY <1>4, <2>1, <2>2, FilledFacts DEF Queued
  <2>4. InHw' = InHw /\ InHw \in Nat
    BY <2>1 DEF InHw, txHw
  <2>5. InOrder'
    <3>1. accepted = sent + InHw + Queued
      BY DEF Inv, InOrder
    <3>2. ASSUME NEW x \in 0 .. TX_SIZE - 1, Offset(x)' < Queued'
          PROVE  txbuf[x] = sent + InHw + Offset(x) + 1
      <4>1. Offset(x)' = Offset(x) /\ Offset(x) \in Nat
        BY <1>4, <2>1, FilledFacts DEF Offset
      <4>2. CASE Offset(x) < Queued
        BY <4>2 DEF Inv, InOrder
      <4>3. CASE Offset(x) = Queued
        <5>1. x = txhead
          BY <1>4, <4>3, FilledFacts DEF Offset, Queued
        <5> QED
          BY <2>2, <3>1, <4>3, <5>1
      <4> QED
        BY <2>3, <3>2, <4>1, <4>2, <4>3
    <3>3. (accepted = sent + InHw + Queued)'
      BY <1>4, <2>1, <2>3, <2>4, <3>1
    <3>4. (udr # 0 => udr = sent + InHw)' /\ (shift # 0 => shift = sent + 1)'
      BY <2>1, <2>4 DEF Inv, InOrder, txHw
    <3>5. \A x \in 0 .. TX_SIZE - 1 : Offset(x)' = Offset(x)
      BY <2>1 DEF Offset
    <3> QED
      BY <2>1, <2>4, <3>2, <3>3, <3>4, <3>5 DEF InOrder
  <2>6. UdrieIff' /\ TxcMeansIdle'
    BY <2>1, <2>2, <2>4 DEF Inv, UdrieIff, TxcMeansIdle, txHw
  <2>7. RoomBelow'
    <3>1. Room(txhead, txtail, TX_SIZE) = TX_SIZE - 1 - Queued
      BY <1>4, FilledFacts DEF Queued
    <3>2. i \in 0 .. TX_SIZE - 1
      BY DEF Inv, TypeOK
    <3>3. Room(i, txtail, TX_SIZE) = TX_SIZE - 1 - Queued'
      BY <1>4, <2>1, <3>2, FilledFacts DEF Queued
    <3>4. room <= Room(txhead, txtail, TX_SIZE)
      BY DEF Inv, RoomBelow
    <3>5. Queued' \in 0 .. TX_SIZE - 1
      BY <1>4, <2>1, <3>2, FilledFacts DEF Queued
    <3> QED
      BY <1>4, <2>1, <2>3, <3>1, <3>3, <3>4, <3>5 DEF RoomBelow, Spend
  <2>8. WriteLocals' /\ Quiet'
    BY <2>1, <2>2 DEF WriteLocals, Quiet, WritePcs, FlushPcs, SetupPcs, ReadPcs, Open
  <2> QED
    BY <1>2, <1>3, <2>5, <2>6, <2>7, <2>8 DEF Inv
<1> QED
  BY <1>5, <1>6, <1>7, <1>8, <1>9 DEF Write

\* What flush() has established when it sees TXC set, or never wrote.
LEMMA FlushedMeansSent ==
    ASSUME Inv, (pc = "f_txc" /\ txc) \/ ~written
    PROVE  accepted = sent
<1>1. CASE ~written
  BY <1>1 DEF Inv, Quiet
<1>2. CASE pc = "f_txc" /\ txc
  <2>1. txhead = txtail /\ InHw = 0
    BY <1>2 DEF Inv, Quiet, TxcMeansIdle
  <2>2. Queued = 0
    BY <2>1, SizesAssumption DEF Inv, TypeOK, Queued, Filled
  <2> QED
    BY <2>1, <2>2 DEF Inv, InOrder, TypeOK
<1> QED
  BY <1>1, <1>2

LEMMA FlushKeeps == ASSUME Inv, FlushStep, TypeOK' PROVE Inv'
<1>1. UNCHANGED <<rxRing, written, ie, i, tmp, k, told, hist>>
  BY DEF FlushStep, FlushCall, FlushUdrie, FlushTxc, FlushPoll
<1>2. AvailKept'
  BY <1>1, RxUntouched DEF told
<1>3. CASE FlushCall \/ FlushUdrie \/ FlushTxc
  <2>1. UNCHANGED <<txRing, txHw, ucsrb>>
    BY <1>3 DEF FlushCall, FlushUdrie, FlushTxc
  <2>2. InOrder' /\ UdrieIff' /\ TxcMeansIdle' /\ RoomBelow'
    BY <1>1, <2>1, TxUntouched DEF told, hist
  <2>3. accepted # sent => pc' # "e_read"
    BY <1>3, FlushedMeansSent DEF Inv, FlushCall, FlushUdrie, FlushTxc, Flush
  <2>4. WriteLocals'
    BY <1>3, <2>1 DEF Inv, TypeOK, WriteLocals, Flush, FlushCall, FlushUdrie, FlushTxc
  <2>5. Quiet'
    BY <1>1, <1>3, <2>1, <2>3 DEF Inv, TypeOK, Quiet, UdrieIff, WritePcs, FlushPcs, SetupPcs,
       ReadPcs, Open, QueuePending, Flush, FlushCall, FlushUdrie, FlushTxc, txRing, hist
  <2>6. ReadLocals'
    BY <1>1, <1>3 DEF Inv, TypeOK, ReadLocals, ReadPcs, FlushPcs, Flush,
       FlushCall, FlushUdrie, FlushTxc, rxRing, told
  <2> QED
    BY <1>2, <2>2, <2>4, <2>5, <2>6 DEF Inv
<1>4. CASE FlushPoll
  <2>1. /\ pc = "f_poll" /\ pc' = "f_udrie" /\ ret' = ret
        /\ (Open' <=> Open)
    BY <1>4 DEF FlushPoll, TxUdrEmptyIrq, Open
  <2>2. InOrder' /\ UdrieIff' /\ TxcMeansIdle' /\ RoomBelow'
    <3>1. CASE Polling /\ "UDRIE" \in ucsrb /\ UDRE
      BY <1>1, <1>4, <3>1, IrqKeeps DEF Inv, UdrieIff, FlushPoll, told, hist
    <3>2. CASE ~(Polling /\ "UDRIE" \in ucsrb /\ UDRE)
      BY <1>1, <1>4, <3>2, TxUntouched DEF FlushPoll, told, hist
    <3> QED
      BY <3>1, <3>2
  <2>3. WriteLocals' /\ Quiet' /\ ReadLocals'
    BY <1>1, <2>1 DEF Inv, WriteLocals, Quiet, ReadLocals, WritePcs, FlushPcs, SetupPcs,
       ReadPcs, told, hist
  <2> QED
    BY <1>2, <2>2, <2>3 DEF Inv
<1> QED
  BY <1>3, <1>4 DEF FlushStep

\* begin() and end() run on a quiet port, so the register updates lose nothing.
LEMMA SetupKeeps == ASSUME ~Reopen, Inv, Begin \/ End, TypeOK' PROVE Inv'
<1>1. UNCHANGED <<txRing, txHw, ie, i, hist>>
  BY DEF Begin, End, BeginCall, EndCall, EndClear, RegLoad, RegStore
<1>2. room' \in {room, 0} /\ room \in Nat /\ RoomBelow
  BY DEF Inv, TypeOK, Begin, End, BeginCall, EndCall, EndClear, RegLoad, RegStore, told
<1>3. /\ txhead \in 0 .. TX_SIZE - 1 /\ txtail \in 0 .. TX_SIZE - 1
      /\ TX_SIZE \in Nat /\ TX_SIZE > 1
  BY SizesAssumption DEF Inv, TypeOK
<1>4. InOrder' /\ TxcMeansIdle'
  BY <1>1 DEF Inv, InOrder, TxcMeansIdle, Queued, InHw, Offset, txRing, txHw, hist
<1>5. RoomBelow'
  BY <1>1, <1>2, <1>3 DEF RoomBelow, Room, txRing
<1>6. CASE BeginCall \/ EndCall
  <2>1. UNCHANGED <<ucsrb, rxRing, i, tmp>> /\ avail' \in {avail, 0} /\ avail \in Nat
    BY <1>6 DEF Inv, TypeOK, BeginCall, EndCall, told
  <2>2. UdrieIff' /\ WriteLocals'
    BY <1>1, <1>6, <2>1 DEF Inv, UdrieIff, WriteLocals, BeginCall, EndCall, Flush, txRing
  <2>3. AvailKept'
    <3>1. rxhead \in 0 .. RX_SIZE - 1 /\ rxtail \in 0 .. RX_SIZE - 1
      BY DEF Inv, TypeOK
    <3>2. Filled(rxhead, rxtail, RX_SIZE) \in Nat
      BY <3>1, SizesAssumption DEF Filled
    <3> QED
      BY <2>1, <3>2 DEF Inv, AvailKept, rxRing
  <2>4. CASE BeginCall
    <3>1. accepted = sent /\ pc' = "b_read" /\ written' = FALSE
      BY <2>4 DEF Inv, Quiet, BeginCall
    <3> QED
      BY <1>1, <1>4, <1>5, <2>2, <2>3, <3>1 DEF Inv, Quiet, ReadLocals, WritePcs, FlushPcs,
         SetupPcs, ReadPcs, hist
  <2>5. CASE EndCall
    <3>1. /\ Open /\ ret' = "e_read" /\ avail' = 0 /\ written' = written
          /\ pc' = IF written THEN "f_udrie" ELSE "e_read"
      BY <2>5 DEF EndCall, Flush
    <3>2. Quiet'
      BY <1>1, <2>1, <3>1 DEF Inv, Quiet, Open, WritePcs, FlushPcs, SetupPcs, ReadPcs, hist
    <3>3. ReadLocals'
      BY <3>1 DEF ReadLocals, ReadPcs
    <3> QED
      BY <1>4, <1>5, <2>2, <2>3, <3>2, <3>3 DEF Inv
  <2> QED
    BY <1>6, <2>4, <2>5
<1>7. ASSUME pc \in SetupPcs PROVE accepted = sent /\ txhead = txtail /\ "UDRIE" \notin ucsrb
  BY <1>7, AllSentEmpty DEF Inv, Quiet, UdrieIff
<1>8. CASE EndClear
  <2>1. /\ pc = "e_clear" /\ pc' = "idle" /\ avail = 0 /\ avail' = 0 /\ rxhead' = rxtail
        /\ UNCHANGED <<rxtail, ucsrb, written, tmp>>
    BY <1>8 DEF Inv, ReadLocals, EndClear, told
  <2>2. AvailKept'
    BY <2>1, SizesAssumption DEF Inv, TypeOK, AvailKept, Filled
  <2>3. UdrieIff' /\ WriteLocals' /\ Quiet' /\ ReadLocals'
    BY <1>1, <1>7, <2>1 DEF Inv, UdrieIff, WriteLocals, Quiet, ReadLocals, WritePcs, FlushPcs,
       SetupPcs, ReadPcs, txRing, hist
  <2> QED
    BY <1>4, <1>5, <2>2, <2>3 DEF Inv
<1>9. CASE RegLoad("b_read", "b_write") \/ RegLoad("e_read", "e_write")
  <2>1. /\ <<pc, pc'>> \in {<<"b_read", "b_write">>, <<"e_read", "e_write">>}
        /\ tmp' = ucsrb /\ UNCHANGED <<ucsrb, written, rxRing, avail>>
    BY <1>9 DEF RegLoad, told
  <2>2. accepted = sent
    BY <1>7, <2>1 DEF SetupPcs
  <2>3. UdrieIff' /\ WriteLocals' /\ Quiet' /\ ReadLocals' /\ AvailKept'
    BY <1>1, <2>1, <2>2 DEF Inv, UdrieIff, WriteLocals, Quiet, ReadLocals, AvailKept, WritePcs,
       FlushPcs, SetupPcs, ReadPcs, rxRing, txRing, hist
  <2> QED
    BY <1>4, <1>5, <2>3 DEF Inv
<1>10. ASSUME NEW ops \in {BeginOps, EndOps}, NEW at \in {"b_write", "e_write"},
              NEW again \in SetupPcs, NEW done \in SetupPcs \union {"idle"},
              RegStore(ops, at, again, done),
              again \notin {"b_write", "e_write"}, done \notin {"b_write", "e_write"},
              {again, done} \intersect {"e_read", "e_clear"} # {} => at = "e_write"
       PROVE  Inv'
  <2>1. /\ pc = at /\ pc' \in {again, done} /\ ucsrb' = Update(ops[k], tmp)
        /\ UNCHANGED <<written, rxRing, avail>>
    BY <1>10 DEF RegStore, told
  <2>2. accepted = sent /\ txhead = txtail /\ tmp = ucsrb /\ "UDRIE" \notin tmp
    BY <1>7, <1>10, <2>1 DEF Inv, Quiet, SetupPcs
  <2>3. ops[k].bit # "UDRIE" \/ ~ops[k].on
    <3>1. k = 1 \/ k = 2 \/ k = 3 \/ k = 4
      BY DEF Inv, TypeOK
    <3>2. CASE ops = BeginOps
      BY <3>1, <3>2 DEF BeginOps
    <3>3. CASE ops = EndOps
      BY <3>1, <3>3 DEF EndOps
    <3> QED
      BY <1>10, <3>2, <3>3
  <2>4. "UDRIE" \notin ucsrb'
    BY <2>1, <2>2, <2>3 DEF Update
  <2>5. UdrieIff'
    BY <1>1, <2>2, <2>4 DEF UdrieIff, txRing
  <2>6. WriteLocals' /\ Quiet' /\ AvailKept' /\ ReadLocals'
    BY <1>1, <1>10, <2>1, <2>2 DEF Inv, WriteLocals, Quiet, ReadLocals, AvailKept, WritePcs,
       FlushPcs, SetupPcs, ReadPcs, rxRing, hist
  <2> QED
    BY <1>4, <1>5, <2>5, <2>6 DEF Inv
<1>11. CASE RegStore(BeginOps, "b_write", "b_read", "idle")
  BY <1>10, <1>11 DEF SetupPcs
<1>12. CASE RegStore(EndOps, "e_write", "e_read", "e_clear")
  BY <1>10, <1>12 DEF SetupPcs
<1> QED
  BY <1>6, <1>8, <1>9, <1>11, <1>12 DEF Begin, End

LEMMA QueriesKeep ==
    ASSUME Inv, Read \/ Available \/ AvailableForWrite \/ Cli \/ Sei, TypeOK'
    PROVE  Inv'
<1>1. UNCHANGED <<txRing, txHw, written, ucsrb, i, tmp, ret, hist>>
  BY DEF Read, ReadCall, ReadTake, ReadAdvance, Available, AvailableForWrite, Cli, Sei, sketch
<1>2. /\ pc \in {"idle", "r_take", "r_advance"} /\ pc' \in {"idle", "r_take", "r_advance"}
  BY DEF Read, ReadCall, ReadTake, ReadAdvance, Available, AvailableForWrite, Cli, Sei, sketch
<1>3. InOrder' /\ UdrieIff' /\ TxcMeansIdle'
  BY <1>1 DEF Inv, InOrder, UdrieIff, TxcMeansIdle, Queued, InHw, Offset, txRing, txHw, hist
<1>4. WriteLocals' /\ Quiet'
  BY <1>1, <1>2 DEF Inv, WriteLocals, Quiet, Open, WritePcs, FlushPcs, SetupPcs, ReadPcs,
     txRing, hist
<1>5. /\ rxhead \in 0 .. RX_SIZE - 1 /\ rxtail \in 0 .. RX_SIZE - 1 /\ avail \in Nat
      /\ RX_SIZE \in Nat /\ RX_SIZE > 1
  BY SizesAssumption DEF Inv, TypeOK
<1>6. RoomBelow'
  <2>1. CASE AvailableForWrite
    <3>1. txhead \in 0 .. TX_SIZE - 1 /\ txtail \in 0 .. TX_SIZE - 1
      BY DEF Inv, TypeOK
    <3>2. Room(txhead, txtail, TX_SIZE) \in Nat
      BY <3>1, SizesAssumption DEF Room
    <3> QED
      BY <1>1, <2>1, <3>2 DEF RoomBelow, AvailableForWrite, txRing
  <2>2. CASE ~AvailableForWrite
    <3>1. room' = room
      BY <2>2 DEF Read, ReadCall, ReadTake, ReadAdvance, Available, Cli, Sei, told
    <3> QED
      BY <1>1, <3>1 DEF Inv, RoomBelow, txRing
  <2> QED
    BY <2>1, <2>2
<1>7. ReadLocals'
  BY <1>2 DEF Inv, ReadLocals, ReadPcs, FlushPcs, Read, ReadCall, ReadTake, ReadAdvance,
     Available, AvailableForWrite, Cli, Sei, sketch, rxRing, told
<1>8. AvailKept'
  <2>1. CASE Available
    <3>1. avail' = Count(rxhead, rxtail, RX_SIZE) /\ UNCHANGED <<rxhead, rxtail>>
      BY <2>1 DEF Available, rxRing
    <3>2. avail' = Filled(rxhead, rxtail, RX_SIZE)
      BY <1>5, <3>1, CountValue
    <3>3. Filled(rxhead, rxtail, RX_SIZE) \in Nat
      BY <1>5 DEF Filled
    <3> QED
      BY <3>1, <3>2, <3>3 DEF AvailKept
  <2>2. CASE ReadAdvance
    <3>1. rxhead # rxtail /\ rxhead' = rxhead /\ rxtail' = Succ(rxtail, RX_SIZE)
          /\ avail' = Spend(avail)
      BY <2>2 DEF Inv, ReadLocals, ReadPcs, ReadAdvance
    <3>2. Filled(rxhead', rxtail', RX_SIZE) = Filled(rxhead, rxtail, RX_SIZE) - 1
      BY <1>5, <3>1, FilledFacts
    <3>3. Filled(rxhead, rxtail, RX_SIZE) \in 1 .. RX_SIZE - 1
      BY <1>5, <3>1 DEF Filled
    <3> QED
      BY <1>5, <3>1, <3>2, <3>3 DEF Inv, AvailKept, Spend
  <2>3. CASE ~Available /\ ~ReadAdvance
    <3>1. UNCHANGED <<rxRing, avail>>
      BY <2>3 DEF Read, ReadCall, ReadTake, AvailableForWrite, Cli, Sei, told
    <3> QED
      BY <3>1, RxUntouched
  <2> QED
    BY <2>1, <2>2, <2>3
<1> QED
  BY <1>3, <1>4, <1>6, <1>7, <1>8 DEF Inv

-----------------------------------------------------------------------------
(* The theorems *)

LEMMA InvInit == Init => Inv
<1> SUFFICES ASSUME Init PROVE Inv
  OBVIOUS
<1>1. TypeOK
  BY TypeInit
<1>2. Queued = 0 /\ InHw = 0 /\ Filled(rxhead, rxtail, RX_SIZE) = 0
  BY SizesAssumption DEF Init, Queued, InHw, Filled
<1>3. \A x \in 0 .. TX_SIZE - 1 : Offset(x) \in Nat
  BY SizesAssumption DEF Init, Offset, Filled
<1>4. InOrder
  BY <1>2, <1>3 DEF Init, InOrder
<1>5. RoomBelow
  BY SizesAssumption DEF Init, RoomBelow, Room
<1> QED
  BY <1>1, <1>2, <1>4, <1>5 DEF Inv, Init, UdrieIff, TxcMeansIdle, WriteLocals, Quiet,
     AvailKept, ReadLocals, WritePcs, FlushPcs, SetupPcs, ReadPcs

LEMMA InvStep == ASSUME ~Reopen PROVE Inv /\ [Next]_vars => Inv'
<1> SUFFICES ASSUME Inv, [Next]_vars PROVE Inv'
  OBVIOUS
<1>1. TypeOK'
  BY TypeStep DEF Inv
<1>2. CASE TxIsr
  BY <1>1, <1>2, TxIsrKeeps
<1>3. CASE RxIsr
  BY <1>1, <1>3, RxIsrKeeps
<1>4. CASE Write
  BY <1>1, <1>4, WriteKeeps
<1>5. CASE FlushStep
  BY <1>1, <1>5, FlushKeeps
<1>6. CASE Begin \/ End
  BY <1>1, <1>6, SetupKeeps
<1>7. CASE Read \/ Available \/ AvailableForWrite \/ Cli \/ Sei
  BY <1>1, <1>7, QueriesKeep
<1>8. CASE Usart
  BY <1>1, <1>8, UsartKeeps
<1>9. CASE UNCHANGED vars
  <2>1. UNCHANGED <<txRing, rxRing, written, ucsrb, txHw, rxfifo, sketch, told, hist>>
    BY <1>9 DEF vars
  <2>2. InOrder' /\ UdrieIff' /\ TxcMeansIdle' /\ RoomBelow'
    BY <2>1, TxUntouched DEF told, hist
  <2>3. AvailKept'
    BY <2>1, RxUntouched DEF told
  <2>4. WriteLocals' /\ Quiet'
    BY <2>1 DEF Inv, WriteLocals, Quiet, Open, UDRE, txRing, txHw, sketch, hist
  <2>5. ReadLocals'
    BY <2>1 DEF Inv, ReadLocals, rxRing, sketch, told
  <2> QED
    BY <1>1, <2>2, <2>3, <2>4, <2>5 DEF Inv
<1> QED
  BY <1>2, <1>3, <1>4, <1>5, <1>6, <1>7, <1>8, <1>9 DEF Next

\* The inductive invariant holds when begin() is called on closed ports only.
THEOREM Invariance == ASSUME ~Reopen PROVE Spec => []Inv
<1>1. Init => Inv
  BY InvInit
<1>2. Inv /\ [Next]_vars => Inv'
  BY InvStep
<1> QED
  BY <1>1, <1>2, PTL DEF Spec

\* Bytes leave once each and in the order written, for every buffer size.
THEOREM OrderKept == ASSUME ~Reopen PROVE Spec => []InOrder
<1>1. Inv => InOrder
  BY DEF Inv
<1> QED
  BY <1>1, Invariance, PTL

\* The handler and the two polling loops send only from a ring that holds a
\* byte.
THEOREM NeverSendsFromEmpty == ASSUME ~Reopen PROVE Spec => []UdrieMeansData
<1>1. Inv => UdrieMeansData
  BY DEF Inv, UdrieIff, UdrieMeansData
<1> QED
  BY <1>1, Invariance, PTL

\* What available() and availableForWrite() promise stays true until used.
THEOREM PromisesHold == ASSUME ~Reopen PROVE Spec => []PromisesKept
<1>1. Inv => PromisesKept
  <2> SUFFICES ASSUME Inv, pc = "w_wait", room > 0 PROVE i # txtail
    BY DEF Inv, PromisesKept, RoomKept
  <2>1. txhead \in 0 .. TX_SIZE - 1 /\ txtail \in 0 .. TX_SIZE - 1 /\ room \in Nat
    BY DEF Inv, TypeOK
  <2>2. Room(txhead, txtail, TX_SIZE) # 0
    BY <2>1, SizesAssumption DEF Inv, RoomBelow, Room
  <2>3. i = Succ(txhead, TX_SIZE)
    BY DEF Inv, WriteLocals
  <2> QED
    BY <2>1, <2>2, <2>3, SizesAssumption, FilledFacts
<1> QED
  BY <1>1, Invariance, PTL

\* flush() and end() go on only when every byte written is on the wire.
THEOREM FlushIsComplete == ASSUME ~Reopen PROVE Spec => FlushDrains
<1>1. Inv /\ [Next]_vars =>
        [ /\ pc \in {"idle", "f_txc"}
          /\ \/ pc = "f_txc" /\ pc' = ret
             \/ FlushCall /\ pc' = "idle"
             \/ EndCall /\ pc' = "e_read"
          => sent = accepted ]_vars
  <2> SUFFICES ASSUME Inv, Next,
                      \/ pc = "f_txc" /\ pc' = ret
                      \/ FlushCall /\ pc' = "idle"
                      \/ EndCall /\ pc' = "e_read"
               PROVE  sent = accepted
    OBVIOUS
  <2>1. CASE pc = "f_txc" /\ pc' = ret
    <3>1. pc' \in {"idle", "e_read"}
      BY <2>1 DEF Inv, TypeOK
    <3>2. FlushTxc \/ pc' = "f_txc"
      BY <2>1 DEF Next, TxIsr, RxIsr, Write, WriteCall, WriteCheck, WriteUdre, WriteFast,
         WriteSlot, WritePoll, WriteProceed, WriteStore, WritePublish, FlushStep, FlushCall,
         FlushUdrie, FlushPoll, Begin, BeginCall, End, EndCall, EndClear, RegLoad, RegStore,
         Read, ReadCall, ReadTake, ReadAdvance, Available, AvailableForWrite, Cli, Sei,
         Usart, TxLoad, TxDone, RxFrame, sketch
    <3>3. txc
      BY <2>1, <3>1, <3>2 DEF FlushTxc
    <3> QED
      BY <2>1, <3>3, FlushedMeansSent
  <2>2. CASE (FlushCall /\ pc' = "idle") \/ (EndCall /\ pc' = "e_read")
    BY <2>2, FlushedMeansSent DEF FlushCall, EndCall, Flush
  <2> QED
    BY <2>1, <2>2
<1> QED
  BY <1>1, Invariance, PTL DEF Spec, FlushDrains

-----------------------------------------------------------------------------
(* The driver is a serial port.  On the way out the abstract queue is the  *)
(* run of numbers from the last byte sent to the last one written; on the  *)
(* way in it is the ring, less the byte read() has taken.                  *)

\* The n numbers after s
Run(s, n) == [j \in 1 .. n |-> s + j]

\* The places of a run.
LEMMA RunIs ==
    ASSUME NEW s \in Nat, NEW n \in Nat
    PROVE  /\ Run(s, n) \in Seq(Nat) /\ Len(Run(s, n)) = n
           /\ \A j \in 1 .. n : Run(s, n)[j] = s + j
           /\ Run(s, 0) = <<>>
<1>1. \A j \in 1 .. n : s + j \in Nat
  OBVIOUS
<1>2. Run(s, n) \in Seq(Nat) /\ Len(Run(s, n)) = n /\ \A j \in 1 .. n : Run(s, n)[j] = s + j
  BY <1>1 DEF Run
<1>3. Run(s, 0) \in Seq(Nat) /\ Len(Run(s, 0)) = 0
  BY DEF Run
<1>4. Run(s, 0) = <<>>
  BY <1>3
<1> QED
  BY <1>2, <1>4

\* A sequence whose every place holds the next number is a run.
LEMMA IsRun ==
    ASSUME NEW s \in Nat, NEW q \in Seq(Nat), \A j \in 1 .. Len(q) : q[j] = s + j
    PROVE  q = Run(s, Len(q))
<1>1. Len(q) \in Nat
  OBVIOUS
<1>2. /\ Run(s, Len(q)) \in Seq(Nat) /\ Len(Run(s, Len(q))) = Len(q)
      /\ \A j \in 1 .. Len(q) : Run(s, Len(q))[j] = s + j
  BY <1>1, RunIs
<1> QED
  BY <1>2, SeqEqual

\* A run grows at its end and is taken from its front.
LEMMA RunEnds ==
    ASSUME NEW s \in Nat, NEW n \in Nat
    PROVE  /\ Append(Run(s, n), s + n + 1) = Run(s, n + 1)
           /\ Head(Run(s, n + 1)) = s + 1
           /\ Tail(Run(s, n + 1)) = Run(s + 1, n)
<1>1. /\ Run(s, n) \in Seq(Nat) /\ Len(Run(s, n)) = n
      /\ \A j \in 1 .. n : Run(s, n)[j] = s + j
  BY RunIs
<1>2. /\ Run(s, n + 1) \in Seq(Nat) /\ Len(Run(s, n + 1)) = n + 1
      /\ \A j \in 1 .. n + 1 : Run(s, n + 1)[j] = s + j
  BY RunIs
<1>3. Append(Run(s, n), s + n + 1) = Run(s, n + 1)
  <2> DEFINE q == Append(Run(s, n), s + n + 1)
  <2>1. q \in Seq(Nat) /\ Len(q) = n + 1 /\ \A j \in 1 .. n + 1 : q[j] = s + j
    BY <1>1
  <2> HIDE DEF q
  <2>2. q = Run(s, Len(q))
    BY <2>1, IsRun
  <2> QED
    BY <2>1, <2>2 DEF q
<1>4. Head(Run(s, n + 1)) = s + 1
  BY <1>2
<1>5. Tail(Run(s, n + 1)) = Run(s + 1, n)
  <2> DEFINE q == Tail(Run(s, n + 1))
  <2>0. Run(s, n + 1) # <<>>
    BY <1>2
  <2>1. q \in Seq(Nat) /\ Len(q) = n /\ \A j \in 1 .. n : q[j] = s + 1 + j
    BY <1>2, <2>0, HeadTailProperties
  <2> HIDE DEF q
  <2>2. q = Run(s + 1, Len(q))
    BY <2>1, IsRun
  <2> QED
    BY <2>1, <2>2 DEF q
<1> QED
  BY <1>3, <1>4, <1>5

\* The slot j places behind the tail, as the code's (tail + j) % size.
Slot(t, j, size) == (t + j) % size

\* It is a slot, and j is what separates it from the tail.
LEMMA SlotOf ==
    ASSUME NEW size \in Nat, size > 1, NEW t \in 0 .. size - 1, NEW j \in 0 .. size - 1
    PROVE  /\ Slot(t, j, size) = IF t + j < size THEN t + j ELSE t + j - size
           /\ Slot(t, j, size) \in 0 .. size - 1
           /\ Filled(Slot(t, j, size), t, size) = j
<1> USE DEF Slot
<1>1. CASE t + j < size
  <2>1. (t + j) % size = t + j
    BY <1>1
  <2> QED
    BY <1>1, <2>1 DEF Filled
<1>2. CASE t + j >= size
  <2>1. t + j - size \in 0 .. size - 1
    BY <1>2
  <2>2. (size + (t + j - size)) % size = t + j - size
    BY <2>1
  <2>3. (t + j) % size = t + j - size
    BY <2>1, <2>2
  <2> QED
    BY <1>2, <2>1, <2>3 DEF Filled
<1> QED
  BY <1>1, <1>2

\* The bytes of a ring, oldest first: how many there are.
LEMMA RingIs ==
    ASSUME NEW size \in Nat, size > 1, NEW t \in 0 .. size - 1, NEW h \in 0 .. size - 1,
           NEW buf \in [0 .. size - 1 -> Nat]
    PROVE  /\ Ring(buf, h, t, size) \in Seq(Nat)
           /\ Len(Ring(buf, h, t, size)) = Filled(h, t, size)
           /\ \A j \in 1 .. Filled(h, t, size) : Ring(buf, h, t, size)[j] = buf[Slot(t, j - 1, size)]
           /\ Ring(buf, h, t, size) = <<>> <=> h = t
<1> DEFINE n == Filled(h, t, size)
<1>1. n \in 0 .. size - 1 /\ (n = 0 <=> h = t)
  BY FilledFacts
<1>2. \A j \in 1 .. n : Slot(t, j - 1, size) \in 0 .. size - 1 /\ (t + j - 1) % size = Slot(t, j - 1, size)
  <2> TAKE j \in 1 .. n
  <2>1. j - 1 \in 0 .. size - 1 /\ t + j - 1 = t + (j - 1)
    BY <1>1
  <2> QED
    BY <2>1, SlotOf DEF Slot
<1>3. \A j \in 1 .. n : buf[(t + j - 1) % size] = buf[Slot(t, j - 1, size)]
                        /\ buf[(t + j - 1) % size] \in Nat
  BY <1>2
<1> DEFINE q == [j \in 1 .. n |-> buf[(t + j - 1) % size]]
<1>4. q = Ring(buf, h, t, size)
  BY DEF Ring
<1>5. q \in Seq(Nat) /\ Len(q) = n /\ \A j \in 1 .. n : q[j] = buf[Slot(t, j - 1, size)]
  <2>1. n \in Nat /\ \A j \in 1 .. n : buf[(t + j - 1) % size] \in Nat
    BY <1>1, <1>3
  <2>2. \A j \in 1 .. n : q[j] = buf[Slot(t, j - 1, size)]
    BY <1>3
  <2> HIDE DEF n
  <2>3. q \in Seq(Nat) /\ Len(q) = n
    BY <2>1
  <2> QED
    BY <2>2, <2>3
<1> HIDE DEF q
<1>6. q = <<>> <=> n = 0
  BY <1>1, <1>5
<1> QED
  BY <1>1, <1>4, <1>5, <1>6

\* ... and which slot each is in.
LEMMA RingAt ==
    ASSUME NEW size \in Nat, size > 1, NEW t \in 0 .. size - 1, NEW h \in 0 .. size - 1,
           NEW buf \in [0 .. size - 1 -> Nat], NEW j \in 1 .. Filled(h, t, size)
    PROVE  Ring(buf, h, t, size)[j] = buf[Slot(t, j - 1, size)]
<1>1. Ring(buf, h, t, size)[j] = buf[(t + j - 1) % size]
  BY DEF Ring
<1>2. Filled(h, t, size) \in Nat
  BY FilledFacts
<1>3. t + j - 1 = t + (j - 1)
  BY <1>2
<1> QED
  BY <1>1, <1>3 DEF Slot

\* A byte stored and published is the last of the ring.
LEMMA RingPut ==
    ASSUME NEW size \in Nat, size > 1, NEW t \in 0 .. size - 1, NEW h \in 0 .. size - 1,
           NEW buf \in [0 .. size - 1 -> Nat], NEW v \in Nat, Succ(h, size) # t
    PROVE  Ring([buf EXCEPT ![h] = v], Succ(h, size), t, size) = Append(Ring(buf, h, t, size), v)
<1> DEFINE n == Filled(h, t, size)
           g == Succ(h, size)
           after == [buf EXCEPT ![h] = v]
           p == Ring(buf, h, t, size)
           q == Ring(after, g, t, size)
<1>1. g \in 0 .. size - 1 /\ after \in [0 .. size - 1 -> Nat] /\ Filled(g, t, size) = n + 1
      /\ n \in 0 .. size - 1 /\ n + 1 \in 0 .. size - 1
  <2>1. g \in 0 .. size - 1
    BY SuccInRange
  <2>2. after \in [0 .. size - 1 -> Nat]
    OBVIOUS
  <2>3. n \in 0 .. size - 1 /\ Filled(g, t, size) = n + 1
    BY FilledFacts
  <2>4. Filled(g, t, size) \in 0 .. size - 1
    BY <2>1, FilledFacts
  <2> QED
    BY <2>1, <2>2, <2>3, <2>4
<1>2. /\ p \in Seq(Nat) /\ Len(p) = n
      /\ \A j \in 1 .. n : p[j] = buf[Slot(t, j - 1, size)]
  BY RingIs, ZenonT(30)
<1>3. /\ q \in Seq(Nat) /\ Len(q) = n + 1
      /\ \A j \in 1 .. n + 1 : q[j] = after[Slot(t, j - 1, size)]
  <2> HIDE DEF n, g, after
  <2>1. /\ q \in Seq(Nat) /\ Len(q) = Filled(g, t, size)
        /\ \A j \in 1 .. Filled(g, t, size) : q[j] = after[Slot(t, j - 1, size)]
    <3>1. ASSUME NEW x \in 0 .. size - 1, NEW b \in [0 .. size - 1 -> Nat]
          PROVE  /\ Ring(b, x, t, size) \in Seq(Nat) /\ Len(Ring(b, x, t, size)) = Filled(x, t, size)
                 /\ \A j \in 1 .. Filled(x, t, size) :
                       Ring(b, x, t, size)[j] = b[Slot(t, j - 1, size)]
      BY RingIs, ZenonT(30)
    <3> QED
      BY <1>1, <3>1
  <2> QED
    BY <1>1, <2>1
<1> DEFINE r == Append(p, v)
<1>4. r \in Seq(Nat) /\ Len(r) = n + 1
      /\ (\A j \in 1 .. n : r[j] = p[j]) /\ r[n + 1] = v
  <2> HIDE DEF p
  <2> QED
    BY <1>1, <1>2, SMTT(30)
<1>5. \A j \in 1 .. n + 1 : q[j] = r[j]
  <2> SUFFICES ASSUME NEW j \in 1 .. n + 1 PROVE q[j] = r[j]
    OBVIOUS
  <2> DEFINE x == Slot(t, j - 1, size)
  <2>1. j - 1 \in 0 .. size - 1
    BY <1>1
  <2>2. x \in 0 .. size - 1 /\ Filled(x, t, size) = j - 1
    BY <2>1, SlotOf
  <2>3. x = h <=> j = n + 1
    <3>1. \A y \in 0 .. size - 1 : Filled(y, t, size) = Filled(h, t, size) => y = h
      BY FilledFacts
    <3>2. CASE x = h
      BY <1>1, <2>2, <3>2
    <3>3. CASE x # h
      <4>1. Filled(x, t, size) # n
        BY <2>2, <3>1, <3>3
      <4>2. j - 1 # n
        BY <2>2, <4>1
      <4>3. j # n + 1
        <5>1. n \in Int /\ j \in Int
          BY <1>1
        <5> HIDE DEF n
        <5> QED
          BY <4>2, <5>1
      <4> QED
        BY <3>3, <4>3
    <3> QED
      BY <3>2, <3>3
  <2>4. q[j] = after[x] /\ after[x] = IF x = h THEN v ELSE buf[x]
    <3>1. q[j] = after[x]
      BY <1>3
    <3> HIDE DEF x, q
    <3> QED
      BY <2>2, <3>1
  <2>5. CASE j = n + 1
    BY <1>4, <2>3, <2>4, <2>5
  <2>6. CASE j # n + 1
    <3>1. j \in 1 .. n
      BY <1>1, <2>6
    <3>2. r[j] = p[j] /\ p[j] = buf[x]
      BY <1>2, <1>4, <3>1
    <3> QED
      BY <2>3, <2>4, <2>6, <3>2
  <2> QED
    BY <2>5, <2>6
<1> HIDE DEF q, r
<1>6. q = r
  BY <1>3, <1>4, <1>5, SeqEqual
<1> QED
  BY <1>6 DEF q, r

\* The byte at the tail is the first of the ring.
LEMMA RingTake ==
    ASSUME NEW size \in Nat, size > 1, NEW t \in 0 .. size - 1, NEW h \in 0 .. size - 1,
           NEW buf \in [0 .. size - 1 -> Nat], h # t
    PROVE  /\ Ring(buf, h, t, size) # <<>>
           /\ Head(Ring(buf, h, t, size)) = buf[t]
           /\ Tail(Ring(buf, h, t, size)) = Ring(buf, h, Succ(t, size), size)
<1> DEFINE n == Filled(h, t, size)
           u == Succ(t, size)
           p == Ring(buf, h, t, size)
           q == Ring(buf, h, u, size)
<1>1. n \in 1 .. size - 1 /\ u \in 0 .. size - 1 /\ Filled(h, u, size) = n - 1
  <2>1. u \in 0 .. size - 1
    BY SuccInRange
  <2>2. n \in 0 .. size - 1 /\ n # 0 /\ Filled(h, u, size) = n - 1
    BY FilledFacts
  <2> QED
    BY <2>1, <2>2
<1>2. /\ p \in Seq(Nat) /\ Len(p) = n /\ p # <<>>
      /\ \A j \in 1 .. n : p[j] = buf[Slot(t, j - 1, size)]
  BY RingIs
<1>3. /\ q \in Seq(Nat) /\ Len(q) = n - 1
      /\ \A j \in 1 .. n - 1 : q[j] = buf[Slot(u, j - 1, size)]
  <2> HIDE DEF n, u
  <2>1. q \in Seq(Nat) /\ Len(q) = Filled(h, u, size)
    BY <1>1, RingIs, ZenonT(30)
  <2>2. \A j \in 1 .. Filled(h, u, size) : q[j] = buf[Slot(u, j - 1, size)]
    BY <1>1, RingAt
  <2> QED
    BY <1>1, <2>1, <2>2
<1>4. Head(p) = buf[t]
  <2>1. Slot(t, 1 - 1, size) = t
    <3>1. 1 - 1 \in 0 .. size - 1 /\ t + (1 - 1) = t
      OBVIOUS
    <3> QED
      BY <3>1, SlotOf
  <2>2. Head(p) = p[1]
    BY <1>2
  <2>3. p[1] = buf[Slot(t, 1 - 1, size)]
    BY <1>1, <1>2
  <2> QED
    BY <2>1, <2>2, <2>3
<1> DEFINE r == Tail(p)
<1>5. r \in Seq(Nat) /\ Len(r) = n - 1 /\ \A j \in 1 .. n - 1 : r[j] = p[j + 1]
  <2> HIDE DEF p
  <2> QED
    BY <1>2, HeadTailProperties
<1>6. \A j \in 1 .. n - 1 : q[j] = r[j]
  <2> SUFFICES ASSUME NEW j \in 1 .. n - 1 PROVE q[j] = r[j]
    OBVIOUS
  <2>1. j - 1 \in 0 .. size - 1 /\ j \in 0 .. size - 1 /\ j + 1 \in 1 .. n /\ (j + 1) - 1 = j
    BY <1>1, SMTT(30)
  <2>2. Slot(t, j, size) = IF t + j < size THEN t + j ELSE t + j - size
    BY <2>1, SlotOf
  <2>3. Slot(u, j - 1, size) = IF u + (j - 1) < size THEN u + (j - 1) ELSE u + (j - 1) - size
    BY <1>1, <2>1, SlotOf
  <2>4. u = IF t + 1 = size THEN 0 ELSE t + 1
    BY SuccValue
  <2>5. Slot(u, j - 1, size) = Slot(t, j, size)
    <3> DEFINE y == Slot(t, j, size)  z == Slot(u, j - 1, size)
    <3> HIDE DEF u, y, z
    <3>1. y = IF t + j < size THEN t + j ELSE t + j - size
      BY <2>2 DEF y
    <3>2. z = IF u + (j - 1) < size THEN u + (j - 1) ELSE u + (j - 1) - size
      BY <2>3 DEF z
    <3>3. z = y
      BY <1>1, <2>1, <2>4, <3>1, <3>2, SMTT(30)
    <3> QED
      BY <3>3 DEF y, z
  <2>6. q[j] = buf[Slot(u, j - 1, size)]
    BY <1>3
  <2>7. r[j] = p[j + 1] /\ p[j + 1] = buf[Slot(t, (j + 1) - 1, size)]
    BY <1>2, <1>5, <2>1
  <2> QED
    BY <2>1, <2>5, <2>6, <2>7
<1> HIDE DEF q, r, p
<1>7. q = r
  BY <1>3, <1>5, <1>6, SeqEqual
<1> QED
  BY <1>2, <1>4, <1>7 DEF q, r, p

\* What is on its way out is the run of the bytes written and not yet sent.
Out == Txq = Run(sent, accepted - sent) /\ accepted - sent \in 0 .. TX_SIZE + 1

\* Shift register, data register and ring, one after the other, are that run.
LEMMA OutIs == Inv => Out
<1> SUFFICES ASSUME Inv PROVE Out
  OBVIOUS
<1> DEFINE ring == Ring(txbuf, txhead, txtail, TX_SIZE)
           a == IF shift # 0 THEN <<shift>> ELSE <<>>
           b == IF udr # 0 THEN <<udr>> ELSE <<>>
<1>1. /\ txhead \in 0 .. TX_SIZE - 1 /\ txtail \in 0 .. TX_SIZE - 1 /\ TX_SIZE \in Nat /\ TX_SIZE > 1
      /\ txbuf \in [0 .. TX_SIZE - 1 -> Nat] /\ shift \in Nat /\ udr \in Nat
      /\ sent \in Nat /\ accepted \in Nat
  BY SizesAssumption DEF Inv, TypeOK
<1>2. Queued \in 0 .. TX_SIZE - 1
  BY <1>1, FilledFacts DEF Queued
<1>3. ring \in Seq(Nat) /\ Len(ring) = Queued
  BY <1>1, RingIs DEF Queued
<1>4. ASSUME NEW j \in 1 .. Queued PROVE ring[j] = sent + InHw + j
  <2>1. j \in 1 .. Filled(txhead, txtail, TX_SIZE) /\ j - 1 \in 0 .. TX_SIZE - 1
    BY <1>1, <1>2 DEF Queued
  <2>2. ring[j] = txbuf[Slot(txtail, j - 1, TX_SIZE)]
    BY <1>1, <2>1, RingAt
  <2>3. /\ Slot(txtail, j - 1, TX_SIZE) \in 0 .. TX_SIZE - 1
        /\ Offset(Slot(txtail, j - 1, TX_SIZE)) = j - 1
    BY <1>1, <2>1, SlotOf DEF Offset
  <2>4. txbuf[Slot(txtail, j - 1, TX_SIZE)] = sent + InHw + (j - 1) + 1
    BY <1>2, <2>3 DEF Inv, InOrder
  <2>5. InHw \in Nat
    BY DEF InHw
  <2> QED
    BY <1>1, <2>2, <2>4, <2>5
<1>5. /\ a \in Seq(Nat) /\ Len(a) = (IF shift # 0 THEN 1 ELSE 0) /\ (shift # 0 => a[1] = shift)
      /\ b \in Seq(Nat) /\ Len(b) = (IF udr # 0 THEN 1 ELSE 0) /\ (udr # 0 => b[1] = udr)
  BY <1>1
<1>6. Txq = a \o b \o ring
  BY DEF Txq
<1>7. /\ accepted = sent + InHw + Queued
      /\ shift # 0 => shift = sent + 1
      /\ udr # 0 => udr = sent + InHw
  BY DEF Inv, InOrder
<1> HIDE DEF ring, a, b
<1>5a. Len(a) \in Nat /\ Len(b) \in Nat /\ Queued \in Nat
  BY <1>1, <1>2, <1>5
<1>5b. /\ a \o b \in Seq(Nat) /\ Len(a \o b) = Len(a) + Len(b)
       /\ \A j \in 1 .. Len(a) + Len(b) : (a \o b)[j] = IF j <= Len(a) THEN a[j] ELSE b[j - Len(a)]
  BY <1>5, ConcatProperties
<1>8. /\ Txq \in Seq(Nat) /\ Len(Txq) = Len(a) + Len(b) + Queued
      /\ \A j \in 1 .. Len(a) + Len(b) + Queued :
            Txq[j] = IF j <= Len(a) + Len(b) THEN (a \o b)[j] ELSE ring[j - (Len(a) + Len(b))]
  <2> DEFINE c == a \o b
  <2>1. c \in Seq(Nat) /\ Len(c) = Len(a) + Len(b) /\ Txq = c \o ring
    BY <1>5b, <1>6
  <2> HIDE DEF c
  <2>2. /\ c \o ring \in Seq(Nat) /\ Len(c \o ring) = Len(c) + Len(ring)
        /\ \A j \in 1 .. Len(c) + Len(ring) :
              (c \o ring)[j] = IF j <= Len(c) THEN c[j] ELSE ring[j - Len(c)]
    <3>1. c \in Seq(Nat) /\ ring \in Seq(Nat)
      BY <1>3, <2>1
    <3> QED
      BY <3>1, ConcatProperties
  <2>3. /\ Txq \in Seq(Nat) /\ Len(Txq) = Len(a) + Len(b) + Queued
        /\ \A j \in 1 .. Len(a) + Len(b) + Queued :
              Txq[j] = IF j <= Len(a) + Len(b) THEN c[j] ELSE ring[j - (Len(a) + Len(b))]
    BY <1>3, <2>1, <2>2
  <2> QED
    BY <2>3 DEF c
<1>9. Len(a) + Len(b) = InHw /\ InHw \in 0 .. 2
  BY <1>5 DEF InHw
<1>10. ASSUME NEW j \in 1 .. Len(Txq) PROVE Txq[j] = sent + j
  <2>1. Txq[j] = IF j <= Len(a) THEN a[j]
                 ELSE IF j <= Len(a) + Len(b) THEN b[j - Len(a)]
                 ELSE ring[j - (Len(a) + Len(b))]
    BY <1>5a, <1>5b, <1>8
  <2>2. CASE j <= Len(a)
    BY <1>1, <1>5, <1>7, <2>1, <2>2
  <2>3. CASE j > Len(a) /\ j <= Len(a) + Len(b)
    <3>1. udr # 0 /\ j - Len(a) = 1
      BY <1>5, <2>3
    <3>2. j = InHw
      BY <1>5, <1>9, <2>3, <3>1
    <3> QED
      BY <1>1, <1>5, <1>7, <2>1, <2>3, <3>1, <3>2
  <2>4. CASE j > Len(a) + Len(b)
    <3>1. j - InHw \in 1 .. Queued
      BY <1>2, <1>8, <1>9, <2>4
    <3>2. ring[j - InHw] = sent + InHw + (j - InHw)
      BY <1>4, <3>1
    <3>3. Txq[j] = ring[j - InHw]
      BY <1>5, <1>9, <2>1, <2>4
    <3> QED
      BY <1>1, <1>9, <3>2, <3>3
  <2> QED
    BY <1>5, <2>2, <2>3, <2>4
<1>11. Len(Txq) = accepted - sent /\ accepted - sent \in 0 .. TX_SIZE + 1
  <2>1. InHw \in 0 .. 2 /\ Len(Txq) = InHw + Queued
    BY <1>5a, <1>8, <1>9
  <2> QED
    BY <1>1, <1>2, <1>7, <2>1
<1>12. Txq = Run(sent, Len(Txq))
  BY <1>1, <1>8, <1>10, IsRun
<1> QED
  BY <1>11, <1>12 DEF Out

\* A port whose receiver is off has no frame at the receiver; end() gets there.
Closing ==
    /\ "RXEN" \notin ucsrb => rxfifo = <<>>
    /\ k # 1 => pc \in {"b_read", "b_write", "e_read", "e_write"}
    /\ pc \in {"e_read", "e_write"} /\ k # 1 => "RXEN" \notin ucsrb
    /\ pc = "e_clear" => "RXEN" \notin ucsrb

\* It holds of a port that was never opened,
LEMMA ClosingInit == Init => Closing
BY DEF Init, Closing

\* and every step keeps it: the register updates of end() switch RXEN off first.
LEMMA ClosingStep == Inv /\ Closing /\ [Next]_vars => Closing'
<1> SUFFICES ASSUME Inv, Closing, [Next]_vars PROVE Closing'
  OBVIOUS
<1>1. pc \in Labels /\ ret \in {"idle", "e_read"} /\ (k = 1 \/ k = 2 \/ k = 3 \/ k = 4)
  BY DEF Inv, TypeOK
<1>2. CASE TxIsr
  BY <1>2 DEF TxIsr, TxUdrEmptyIrq, Closing, sketch
<1>3. CASE RxIsr
  <2>1. rxfifo # <<>> /\ UNCHANGED <<ucsrb, pc, k>>
    BY <1>3 DEF RxIsr, sketch
  <2> QED
    BY <2>1 DEF Closing
<1>4. CASE Write
  <2>1. UNCHANGED <<rxfifo, k>> /\ ("RXEN" \in ucsrb => "RXEN" \in ucsrb')
        /\ ("RXEN" \notin ucsrb => "RXEN" \notin ucsrb')
        /\ pc' \in WritePcs \union {"idle"} /\ pc \in WritePcs \union {"idle"}
    BY <1>4 DEF Write, WriteCall, WriteCheck, WriteUdre, WriteFast, WriteSlot, WritePoll,
       WriteProceed, WriteStore, WritePublish, TxUdrEmptyIrq, RequestUdre, WritePcs, sketch
  <2> QED
    BY <2>1 DEF Closing, WritePcs
<1>5. CASE FlushStep
  <2>1. UNCHANGED <<rxfifo, k>> /\ ("RXEN" \in ucsrb <=> "RXEN" \in ucsrb')
        /\ pc' \in FlushPcs \union {"idle", "e_read"} /\ pc \in FlushPcs \union {"idle"}
    BY <1>1, <1>5 DEF FlushStep, FlushCall, FlushUdrie, FlushTxc, FlushPoll, Flush, TxUdrEmptyIrq, FlushPcs
  <2> QED
    BY <2>1 DEF Closing, FlushPcs
<1>6. CASE BeginCall \/ EndCall \/ EndClear
  BY <1>6 DEF BeginCall, EndCall, EndClear, Flush, Closing
<1>7. CASE RegLoad("b_read", "b_write") \/ RegLoad("e_read", "e_write")
  BY <1>7 DEF RegLoad, Closing
<1>8. CASE RegStore(BeginOps, "b_write", "b_read", "idle")
  <2>1. /\ pc = "b_write" /\ pc' \in {"b_read", "idle"} /\ (pc' = "idle" => k' = 1)
        /\ rxfifo' = IF "RXEN" \in ucsrb' THEN rxfifo ELSE <<>>
        /\ ucsrb' = Update(BeginOps[k], tmp)
    BY <1>8 DEF RegStore
  <2>2. "RXEN" \in ucsrb => "RXEN" \in ucsrb'
    BY <1>1, <2>1 DEF Inv, Quiet, Update, BeginOps
  <2> QED
    BY <2>1, <2>2 DEF Closing
<1>9. CASE RegStore(EndOps, "e_write", "e_read", "e_clear")
  <2>1. /\ pc = "e_write" /\ pc' \in {"e_read", "e_clear"} /\ (pc' = "e_clear" => k' = 1 /\ k # 1)
        /\ rxfifo' = IF "RXEN" \in ucsrb' THEN rxfifo ELSE <<>>
        /\ ucsrb' = Update(EndOps[k], tmp) /\ tmp = ucsrb
    BY <1>1, <1>9 DEF RegStore, EndOps, Inv, Quiet
  <2>2. "RXEN" \notin ucsrb'
    BY <1>1, <2>1 DEF Closing, Update, EndOps
  <2> QED
    BY <2>1, <2>2 DEF Closing
<1>10. CASE Read \/ Available \/ AvailableForWrite \/ Cli \/ Sei
  BY <1>10 DEF Read, ReadCall, ReadTake, ReadAdvance, Available, AvailableForWrite, Cli, Sei,
     Closing, sketch
<1>11. CASE Usart
  BY <1>11 DEF Usart, TxLoad, TxDone, RxFrame, Closing, sketch
<1>12. CASE UNCHANGED vars
  BY <1>12 DEF vars, sketch, Closing
<1> QED
  BY <1>2, <1>3, <1>4, <1>5, <1>6, <1>7, <1>8, <1>9, <1>10, <1>11, <1>12 DEF Next, Begin, End

\* The same after a step.
LEMMA OutIsNext == Inv' => Out'
BY OutIs, PTL

\* What waits to be read, and how read() takes the first of it.
LEMMA WaitingIs ==
    ASSUME Inv
    PROVE  /\ Waiting \in Seq(Nat) /\ Len(Waiting) = Filled(rxhead, rxtail, RX_SIZE)
           /\ Waiting = <<>> <=> rxhead = rxtail
           /\ pc \in ReadPcs => Waiting # <<>>
           /\ rxhead # rxtail =>
                 Head(Waiting) = rxbuf[rxtail]
                 /\ Tail(Waiting) = Ring(rxbuf, rxhead, Succ(rxtail, RX_SIZE), RX_SIZE)
<1>1. /\ rxhead \in 0 .. RX_SIZE - 1 /\ rxtail \in 0 .. RX_SIZE - 1 /\ RX_SIZE \in Nat /\ RX_SIZE > 1
      /\ rxbuf \in [0 .. RX_SIZE - 1 -> Nat]
  BY SizesAssumption DEF Inv, TypeOK
<1>2. /\ Waiting \in Seq(Nat) /\ Len(Waiting) = Filled(rxhead, rxtail, RX_SIZE)
      /\ Waiting = <<>> <=> rxhead = rxtail
  BY <1>1, RingIs DEF Waiting
<1>3. pc \in ReadPcs => Waiting # <<>>
  BY <1>2 DEF Inv, ReadLocals
<1>4. rxhead # rxtail =>
         Head(Waiting) = rxbuf[rxtail]
         /\ Tail(Waiting) = Ring(rxbuf, rxhead, Succ(rxtail, RX_SIZE), RX_SIZE)
  BY <1>1, RingTake DEF Waiting
<1> QED
  BY <1>2, <1>3, <1>4

\* Appending and taking the first commute when there is a first.
LEMMA AppendTail ==
    ASSUME NEW q \in Seq(Nat), NEW v \in Nat
    PROVE  /\ Append(q, v) # <<>>
           /\ q # <<>> => Tail(Append(q, v)) = Append(Tail(q), v)
<1> DEFINE r == Append(q, v)
<1>1. /\ r \in Seq(Nat) /\ Len(r) = Len(q) + 1 /\ Len(q) \in Nat
      /\ (\A j \in 1 .. Len(q) : r[j] = q[j]) /\ r[Len(q) + 1] = v
  OBVIOUS
<1> HIDE DEF r
<1>2. r # <<>>
  BY <1>1
<1>3. ASSUME q # <<>> PROVE Tail(r) = Append(Tail(q), v)
  <2>1. /\ Tail(r) \in Seq(Nat) /\ Len(Tail(r)) = Len(q)
        /\ \A j \in 1 .. Len(q) : Tail(r)[j] = r[j + 1]
    BY <1>1, <1>2, HeadTailProperties
  <2> DEFINE u == Tail(q)
  <2>2. /\ u \in Seq(Nat) /\ Len(u) = Len(q) - 1
        /\ \A j \in 1 .. Len(q) - 1 : u[j] = q[j + 1]
    BY <1>3, HeadTailProperties
  <2> HIDE DEF u
  <2> DEFINE w == Append(u, v)
  <2>3. /\ w \in Seq(Nat) /\ Len(w) = Len(q)
        /\ (\A j \in 1 .. Len(q) - 1 : w[j] = u[j]) /\ w[Len(q)] = v
    BY <1>1, <2>2
  <2> HIDE DEF w
  <2>4. \A j \in 1 .. Len(q) : Tail(r)[j] = w[j]
    <3> TAKE j \in 1 .. Len(q)
    <3>1. Tail(r)[j] = r[j + 1]
      BY <2>1
    <3>2. CASE j = Len(q)
      BY <1>1, <2>3, <3>1, <3>2
    <3>3. CASE j # Len(q)
      <4>1. j \in 1 .. Len(q) - 1 /\ j + 1 \in 1 .. Len(q)
        BY <1>1, <3>3
      <4>2. w[j] = q[j + 1] /\ r[j + 1] = q[j + 1]
        BY <1>1, <2>2, <2>3, <4>1
      <4> QED
        BY <3>1, <4>2
    <3> QED
      BY <3>2, <3>3
  <2>5. Tail(r) = w
    BY <2>1, <2>3, <2>4, SeqEqual
  <2> QED
    BY <2>5 DEF w, u
<1> QED
  BY <1>2, <1>3 DEF r

\* The initial state is an idle port.
LEMMA PortInit == Init => Port!Init
<1> SUFFICES ASSUME Init PROVE Port!Init
  OBVIOUS
<1>1. Out /\ Inv
  BY InvInit, OutIs
<1>2. Txq = <<>>
  BY <1>1, RunIs DEF Init, Out
<1>3. Waiting = <<>>
  BY <1>1, WaitingIs DEF Init
<1>4. Rxq = <<>> /\ Held = 0
  BY <1>3 DEF Init, Rxq, Held
<1> QED
  BY <1>2, <1>4 DEF Init, Port!Init

\* Each step of the sketch, a handler or the USART is a step of the port, or none.
LEMMA PortStep ==
    ASSUME ~Reopen
    PROVE  Inv /\ Inv' /\ Closing /\ [Next]_vars => [Port!Next]_<<Port!tx, Port!rx>>
<1> SUFFICES ASSUME Inv, Inv', Closing, [Next]_vars
             PROVE  Port!Next \/ UNCHANGED <<Port!tx, Port!rx>>
  OBVIOUS
<1>1. Out /\ Out'
  BY OutIs, OutIsNext
<1>2. accepted \in Nat /\ sent \in Nat /\ accepted' \in Nat /\ sent' \in Nat /\ arrived \in Nat
      /\ TX_SIZE \in Nat /\ RX_SIZE \in Nat /\ RX_SIZE > 1
      /\ rxhead \in 0 .. RX_SIZE - 1 /\ rxtail \in 0 .. RX_SIZE - 1
      /\ rxbuf \in [0 .. RX_SIZE - 1 -> Nat] /\ rxfifo \in Seq(Frames) /\ pc \in Labels
  BY SizesAssumption DEF Inv, TypeOK
<1>3. ASSUME UNCHANGED <<accepted, sent>> PROVE UNCHANGED Port!tx
  BY <1>1, <1>3 DEF Out, Port!tx
<1>4. ASSUME UNCHANGED <<rxRing, pc>> PROVE UNCHANGED <<Rxq, Held>>
  BY <1>4 DEF Rxq, Held, Waiting, rxRing
<1>5. ASSUME UNCHANGED rxRing, pc # "r_advance", pc' # "r_advance" PROVE UNCHANGED <<Rxq, Held>>
  BY <1>5 DEF Rxq, Held, Waiting, rxRing
<1>6. ASSUME UNCHANGED <<accepted, sent, arrived, rxfifo, got, Rxq, Held>>
      PROVE  UNCHANGED <<Port!tx, Port!rx>>
  BY <1>3, <1>6 DEF Port!rx
\* accepting a byte
<1>7. ASSUME accepted' = accepted + 1, UNCHANGED <<sent, arrived, rxfifo, got, Rxq, Held>>
      PROVE  Port!Accept
  <2> DEFINE n == accepted - sent
  <2>1. n \in Nat /\ accepted' - sent' = n + 1 /\ n < TX_SIZE + 1 /\ sent + n + 1 = accepted + 1
    BY <1>1, <1>2, <1>7 DEF Out
  <2>2. Txq = Run(sent, n) /\ Txq' = Run(sent, n + 1)
    BY <1>1, <1>7, <2>1 DEF Out
  <2> HIDE DEF n
  <2>3. Txq' = Append(Txq, accepted + 1) /\ Len(Txq) < TX_SIZE + 1
    <3>1. Append(Run(sent, n), sent + n + 1) = Run(sent, n + 1) /\ Len(Run(sent, n)) = n
      BY <1>2, <2>1, RunEnds, RunIs
    <3>2. Append(Run(sent, n), accepted + 1) = Run(sent, n + 1)
      BY <2>1, <3>1
    <3> QED
      BY <2>1, <2>2, <3>1, <3>2
  <2> QED
    BY <1>7, <2>3 DEF Port!Accept, Port!rx
\* putting one on the wire
<1>8. ASSUME sent' = sent + 1, UNCHANGED <<accepted, arrived, rxfifo, got, Rxq, Held>>
      PROVE  Port!Emit
  <2> DEFINE n == accepted - sent - 1
  <2>1. n \in Nat /\ accepted - sent = n + 1 /\ accepted' - sent' = n
    BY <1>1, <1>2, <1>8 DEF Out
  <2>2. Txq = Run(sent, n + 1) /\ Txq' = Run(sent + 1, n)
    BY <1>1, <1>8, <2>1 DEF Out
  <2> HIDE DEF n
  <2>3. Head(Txq) = sent + 1 /\ Txq' = Tail(Txq)
    BY <1>2, <2>1, <2>2, RunEnds
  <2>4. Txq # <<>>
    <3>1. Len(Txq) = n + 1
      BY <1>2, <2>1, <2>2, RunIs
    <3> QED
      BY <2>1, <3>1
  <2> QED
    BY <1>8, <2>3, <2>4 DEF Port!Emit, Port!rx
<1>9. CASE TxIsr
  <2>1. UNCHANGED <<accepted, sent, arrived, rxfifo, got, rxRing, pc>>
    BY <1>9 DEF TxIsr, sketch, told, hist
  <2> QED
    BY <1>4, <1>6, <2>1
<1>10. CASE RxIsr
  <2> DEFINE f == Head(rxfifo)
             next == Succ(rxhead, RX_SIZE)
  <2>1. /\ UNCHANGED <<accepted, sent, arrived, got, pc, rxtail>>
        /\ rxfifo # <<>> /\ rxfifo' = Tail(rxfifo)
    BY <1>10 DEF RxIsr, sketch, told, hist
  <2>2. f \in Frames /\ f.n \in Nat
    <3>1. f \in Frames
      BY <1>2, <2>1
    <3> HIDE DEF f
    <3> QED
      BY <3>1 DEF Frames
  <2>3. Held' = Held /\ Held \in {0, 1}
    BY <2>1 DEF Held
  <2>4. Len(Waiting) = Filled(rxhead, rxtail, RX_SIZE) /\ Waiting \in Seq(Nat)
        /\ (pc = "r_advance" => Waiting # <<>>)
    BY WaitingIs DEF ReadPcs
  <2>5. Rxq = IF pc = "r_advance" THEN Tail(Waiting) ELSE Waiting
    BY <2>4 DEF Rxq
  <2>6. Len(Rxq) + Held = Filled(rxhead, rxtail, RX_SIZE)
    BY <2>4, <2>5 DEF Held
  <2>7. Filled(rxhead, rxtail, RX_SIZE) \in Nat
        /\ (next # rxtail <=> Filled(rxhead, rxtail, RX_SIZE) < RX_SIZE - 1)
    <3>1. /\ Filled(rxhead, rxtail, RX_SIZE) \in 0 .. RX_SIZE - 1
          /\ Room(rxhead, rxtail, RX_SIZE) = RX_SIZE - 1 - Filled(rxhead, rxtail, RX_SIZE)
      BY <1>2, FilledFacts
    <3>2. next = rxtail <=> Room(rxhead, rxtail, RX_SIZE) = 0
      BY <1>2, FilledFacts
    <3> HIDE DEF next
    <3> QED
      BY <1>2, <3>1, <3>2, SMTT(30)
  <2>8. CASE ~f.upe /\ next # rxtail
    <3>1. Waiting' = Append(Waiting, f.n)
      <4>1. rxbuf' = [rxbuf EXCEPT ![rxhead] = f.n] /\ rxhead' = next
        BY <1>10, <2>8 DEF RxIsr, Stores
      <4>2. Ring([rxbuf EXCEPT ![rxhead] = f.n], next, rxtail, RX_SIZE) = Append(Waiting, f.n)
        BY <1>2, <2>2, <2>8, RingPut DEF Waiting
      <4> QED
        BY <2>1, <4>1, <4>2 DEF Waiting
    <3>2. Rxq' = Append(Rxq, f.n)
      <4>1. Append(Waiting, f.n) # <<>> /\
            (Waiting # <<>> => Tail(Append(Waiting, f.n)) = Append(Tail(Waiting), f.n))
        <5> HIDE DEF f
        <5> QED
          BY <2>2, <2>4, AppendTail
      <4> QED
        BY <2>1, <2>4, <2>5, <3>1, <4>1 DEF Rxq
    <3>3. Len(Rxq) + Held < RX_SIZE - 1
      BY <2>6, <2>7, <2>8
    <3>4. Port!Deliver
      BY <1>3, <2>1, <2>3, <2>8, <3>2, <3>3 DEF Port!Deliver, Port!tx
    <3> QED
      BY <3>4 DEF Port!Next
  <2>9. CASE ~(~f.upe /\ next # rxtail)
    <3>1. UNCHANGED rxRing
      BY <1>10, <2>1, <2>9 DEF RxIsr, Stores, rxRing
    <3>2. ~(~f.upe /\ Len(Rxq) + Held < RX_SIZE - 1)
      BY <2>6, <2>7, <2>9
    <3>3. UNCHANGED <<Rxq, Held>>
      BY <1>4, <2>1, <3>1
    <3>4. Port!Deliver
      BY <1>3, <2>1, <3>2, <3>3 DEF Port!Deliver, Port!tx
    <3> QED
      BY <3>4 DEF Port!Next
  <2> QED
    BY <2>8, <2>9
<1>11. CASE Write
  <2>1. UNCHANGED <<sent, arrived, rxfifo, got, rxRing>> /\ accepted' \in {accepted, accepted + 1}
        /\ pc # "r_advance" /\ pc' # "r_advance"
    BY <1>11 DEF Write, WriteCall, WriteCheck, WriteUdre, WriteFast, WriteSlot, WritePoll,
       WriteProceed, WriteStore, WritePublish, sketch, told, hist
  <2>2. UNCHANGED <<Rxq, Held>>
    BY <1>5, <2>1
  <2>3. CASE accepted' = accepted
    BY <1>6, <2>1, <2>2, <2>3
  <2>4. CASE accepted' = accepted + 1
    BY <1>7, <2>1, <2>2, <2>4 DEF Port!Next
  <2> QED
    BY <2>1, <2>3, <2>4
<1>12. CASE FlushStep
  <2>1. UNCHANGED <<accepted, sent, arrived, rxfifo, got, rxRing>>
        /\ pc # "r_advance" /\ pc' # "r_advance"
    <3>1. ret # "r_advance"
      BY DEF Inv, TypeOK
    <3> QED
      BY <1>12, <3>1 DEF FlushStep, FlushCall, FlushUdrie, FlushTxc, FlushPoll, Flush, told, hist
  <2> QED
    BY <1>5, <1>6, <2>1
<1>13. CASE BeginCall \/ EndCall \/ RegLoad("b_read", "b_write") \/ RegLoad("e_read", "e_write")
  <2>1. UNCHANGED <<accepted, sent, arrived, rxfifo, got, rxRing>>
        /\ pc # "r_advance" /\ pc' # "r_advance"
    BY <1>13 DEF BeginCall, EndCall, Flush, RegLoad, told, hist
  <2> QED
    BY <1>5, <1>6, <2>1
<1>14. ASSUME pc \in SetupPcs PROVE Txq = <<>>
  <2>1. accepted - sent = 0
    BY <1>2, <1>14 DEF Inv, Quiet
  <2> QED
    BY <1>1, <1>2, <2>1, RunIs DEF Out
<1>15. CASE RegStore(BeginOps, "b_write", "b_read", "idle") \/ RegStore(EndOps, "e_write", "e_read", "e_clear")
  <2>1. /\ UNCHANGED <<accepted, sent, arrived, got, rxRing>> /\ pc \in SetupPcs
        /\ pc # "r_advance" /\ pc' # "r_advance" /\ rxfifo' \in {rxfifo, <<>>}
    BY <1>15 DEF RegStore, told, hist, SetupPcs
  <2>2. UNCHANGED <<Rxq, Held>> /\ Txq = <<>>
    BY <1>5, <1>14, <2>1
  <2>3. CASE rxfifo' = rxfifo
    BY <1>6, <2>1, <2>2, <2>3
  <2>4. CASE rxfifo' = <<>>
    <3>1. Port!Close
      BY <1>3, <2>1, <2>2, <2>4 DEF Port!Close
    <3> QED
      BY <3>1 DEF Port!Next
  <2> QED
    BY <2>1, <2>3, <2>4
<1>16. CASE EndClear
  <2>1. /\ UNCHANGED <<accepted, sent, arrived, got, rxfifo, rxbuf, rxtail>> /\ rxhead' = rxtail
        /\ pc = "e_clear" /\ pc' = "idle" /\ rxfifo = <<>>
    BY <1>16 DEF EndClear, told, hist, Closing
  <2>2. Txq = <<>> /\ Held' = Held
    BY <1>14, <2>1 DEF SetupPcs, Held
  <2>3. Waiting' = <<>>
    <3>1. Ring(rxbuf, rxtail, rxtail, RX_SIZE) = <<>>
      BY <1>2, RingIs
    <3> QED
      BY <2>1, <3>1 DEF Waiting
  <2>4. Rxq' = <<>>
    BY <2>1, <2>3 DEF Rxq
  <2>5. Port!Close
    BY <1>3, <2>1, <2>2, <2>4 DEF Port!Close
  <2> QED
    BY <2>5 DEF Port!Next
<1>17. CASE ReadCall
  <2>1. UNCHANGED <<accepted, sent, arrived, rxfifo, rxRing>> /\ pc # "r_advance" /\ pc' # "r_advance"
    BY <1>17 DEF ReadCall, hist
  <2>2. UNCHANGED <<Rxq, Held>> /\ Held = 0
    BY <1>5, <2>1 DEF Held
  <2>3. CASE got' = got
    BY <1>6, <2>1, <2>2, <2>3
  <2>4. CASE got' # got
    <3>1. rxhead = rxtail /\ got' = -1
      BY <1>17, <2>4 DEF ReadCall
    <3>2. Rxq = <<>>
      BY <2>1, <3>1, WaitingIs DEF Rxq
    <3>3. Port!ReadNothing
      BY <1>3, <2>1, <2>2, <3>1, <3>2 DEF Port!ReadNothing
    <3> QED
      BY <3>3 DEF Port!Next
  <2> QED
    BY <2>3, <2>4
<1>18. CASE ReadTake
  <2>1. /\ UNCHANGED <<accepted, sent, arrived, rxfifo, rxRing>> /\ pc = "r_take" /\ pc' = "r_advance"
        /\ got' = rxbuf[rxtail]
    BY <1>18 DEF ReadTake, hist
  <2>2. rxhead # rxtail
    BY <2>1 DEF Inv, ReadLocals, ReadPcs
  <2>3. Waiting # <<>> /\ Waiting' = Waiting /\ Head(Waiting) = got'
    BY <2>1, <2>2, WaitingIs DEF Waiting, rxRing
  <2>4. Rxq = Waiting /\ Rxq' = Tail(Waiting) /\ Held = 0 /\ Held' = 1
    BY <2>1, <2>3 DEF Rxq, Held
  <2>5. Port!ReadByte
    BY <1>3, <2>1, <2>3, <2>4 DEF Port!ReadByte
  <2> QED
    BY <2>5 DEF Port!Next
<1>19. CASE ReadAdvance
  <2>1. /\ UNCHANGED <<accepted, sent, arrived, rxfifo, rxbuf, rxhead, got>>
        /\ pc = "r_advance" /\ pc' = "idle" /\ rxtail' = Succ(rxtail, RX_SIZE)
    BY <1>19 DEF ReadAdvance, hist
  <2>2. rxhead # rxtail
    BY <2>1 DEF Inv, ReadLocals, ReadPcs
  <2>3. Waiting # <<>> /\ Waiting' = Tail(Waiting)
    BY <2>1, <2>2, WaitingIs DEF Waiting
  <2>4. Rxq' = Rxq /\ Held = 1 /\ Held' = 0
    BY <2>1, <2>3 DEF Rxq, Held
  <2>5. Port!Release
    BY <1>3, <2>1, <2>4 DEF Port!Release
  <2> QED
    BY <2>5 DEF Port!Next
<1>20. CASE Available \/ AvailableForWrite \/ Cli \/ Sei
  <2>1. UNCHANGED <<accepted, sent, arrived, rxfifo, got, rxRing, pc>>
    BY <1>20 DEF Available, AvailableForWrite, Cli, Sei, sketch, hist, told
  <2> QED
    BY <1>4, <1>6, <2>1
<1>21. CASE TxLoad
  <2>1. UNCHANGED <<accepted, sent, arrived, rxfifo, got, rxRing, pc>>
    BY <1>21 DEF TxLoad, sketch, hist, told
  <2> QED
    BY <1>4, <1>6, <2>1
<1>22. CASE TxDone
  <2>1. UNCHANGED <<accepted, arrived, rxfifo, got, rxRing, pc>> /\ sent' = shift /\ shift # 0
    BY <1>22 DEF TxDone, sketch, told
  <2>2. sent' = sent + 1
    BY <2>1 DEF Inv, InOrder
  <2> QED
    BY <1>4, <1>8, <2>1, <2>2 DEF Port!Next
<1>23. CASE RxFrame
  <2>1. UNCHANGED <<accepted, sent, got, rxRing, pc>> /\ arrived' = arrived + 1
    BY <1>23 DEF RxFrame, sketch, told
  <2>2. PICK upe \in BOOLEAN :
           rxfifo' = IF Len(rxfifo) < 2 THEN Append(rxfifo, [n |-> arrived + 1, upe |-> upe]) ELSE rxfifo
    BY <1>23 DEF RxFrame
  <2>3. Port!Arrive
    BY <1>3, <1>4, <2>1, <2>2 DEF Port!Arrive
  <2> QED
    BY <2>3 DEF Port!Next
<1>24. CASE UNCHANGED vars
  <2>1. UNCHANGED <<accepted, sent, arrived, rxfifo, got, rxRing, pc>>
    BY <1>24 DEF vars, sketch, hist, told
  <2> QED
    BY <1>4, <1>6, <2>1
<1> QED
  BY <1>9, <1>10, <1>11, <1>12, <1>13, <1>15, <1>16, <1>17, <1>18, <1>19, <1>20, <1>21, <1>22,
     <1>23, <1>24 DEF Next, Begin, End, Read, Usart

\* The driver, its handlers running between any two of its steps, is a serial
\* port: for every buffer size, each step is a step of the port or none.
THEOREM DriverIsPort == ASSUME ~Reopen PROVE Spec => ImplementsPort
<1>1. Init => Inv /\ Closing /\ Port!Init
  BY InvInit, ClosingInit, PortInit
<1>2. Inv /\ Closing /\ [Next]_vars => Inv' /\ Closing'
  BY InvStep, ClosingStep
<1>3. Inv /\ Inv' /\ Closing /\ [Next]_vars => [Port!Next]_<<Port!tx, Port!rx>>
  BY PortStep
<1> QED
  BY <1>1, <1>2, <1>3, PTL DEF Spec, ImplementsPort, Port!Spec
=============================================================================
