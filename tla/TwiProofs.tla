----------------------------- MODULE TwiProofs -----------------------------
(***************************************************************************)
(* Proofs about the I2C driver for every buffer size, every timeout        *)
(* setting and any other master on the bus.                                *)
(***************************************************************************)
EXTENDS TwiProps, SequenceTheorems, TLAPS

-----------------------------------------------------------------------------
(* No STOP in a transfer of another master *)

Own == StopsOnlyOurs /\ Ours

\* Nothing is pending at the start.
LEMMA OwnInit == Init => Own
BY DEF Init, Own, StopsOnlyOurs, Ours, MasterCodes, Listening

\* Every step, of the sketch, the handler, the peripheral or another master,
\* keeps a requested STOP inside our own tenure of the bus.
LEMMA OwnStep ==
    ASSUME ~Noise, Own, [Next]_vars
    PROVE  Own'
<1> USE DEF Own, StopsOnlyOurs, Ours, MasterCodes, Running, settings, soft, master, slave, data,
        call, hard, seen
<1>1. ASSUME NEW o \in Ops, NEW n \in 0 .. BUF + 1, NEW s \in BOOLEAN, Call(o, n, s), UNCHANGED settings
      PROVE  Own'
  BY <1>1 DEF Call, Refused
<1>2. ASSUME WaitReady, UNCHANGED settings
      PROVE  Own'
  BY <1>2 DEF WaitReady, Wait, ClockOk
<1>3. ASSUME Claim, UNCHANGED settings
      PROVE  Own'
  BY <1>3 DEF Claim
<1>4. ASSUME Setup, UNCHANGED settings
      PROVE  Own'
  BY <1>4 DEF Setup
<1>5. ASSUME Start, UNCHANGED settings
      PROVE  Own'
  BY <1>5 DEF Start, Go, Listening
<1>6. ASSUME RepLoad, UNCHANGED settings
      PROVE  Own'
  BY <1>6 DEF RepLoad
<1>7. ASSUME RepGo, UNCHANGED settings
      PROVE  Own'
  BY <1>7 DEF RepGo, Go, Listening
<1>8. ASSUME WaitDone, UNCHANGED settings
      PROVE  Own'
  BY <1>8 DEF WaitDone, Wait, ClockOk
<1>9. ASSUME Result, UNCHANGED settings
      PROVE  Own'
  BY <1>9 DEF Result
<1>10. ASSUME TimeoutMain, UNCHANGED settings
      PROVE  Own'
  BY <1>10 DEF TimeoutMain
<1>11. ASSUME Disable, UNCHANGED settings
      PROVE  Own'
  BY <1>11 DEF Disable, Disabled, Listening
<1>12. ASSUME InitMain, UNCHANGED settings
      PROVE  Own'
  BY <1>12 DEF InitMain, Initialise, Listening
<1>13. ASSUME ClearTimeoutFlag, UNCHANGED settings
      PROVE  Own'
  BY <1>13 DEF ClearTimeoutFlag
<1>14. ASSUME IsrStart, UNCHANGED settings
      PROVE  Own'
  BY <1>14 DEF IsrStart, Enter, Reply, Go, Listening
<1>15. ASSUME IsrSend, UNCHANGED settings
      PROVE  Own'
  BY <1>15 DEF IsrSend, Enter, Finish, Stop, SilentStart, Reply, Go, Listening
<1>16. ASSUME IsrNack, UNCHANGED settings
      PROVE  Own'
  BY <1>16 DEF IsrNack, Enter, Stop, Go, Listening
<1>17. ASSUME IsrLost, UNCHANGED settings
      PROVE  Own'
  BY <1>17 DEF IsrLost, Enter, GiveUpBus, Release, Go, Listening
<1>18. ASSUME IsrReceive, UNCHANGED settings
      PROVE  Own'
  BY <1>18 DEF IsrReceive, Enter, Stop, Reply, Go, Listening
<1>19. ASSUME IsrReceiveLast, UNCHANGED settings
      PROVE  Own'
  BY <1>19 DEF IsrReceiveLast, Enter, Finish, Stop, SilentStart, Go, Listening
<1>20. ASSUME IsrStopDone, UNCHANGED settings
      PROVE  Own'
  BY <1>20 DEF IsrStopDone
<1>21. ASSUME IsrStopTimeout, UNCHANGED settings
      PROVE  Own'
  BY <1>21, TimeoutAssumption DEF IsrStopTimeout, Initialise, Listening
<1>22. ASSUME IsrSlaveReceive, UNCHANGED settings
      PROVE  Own'
  BY <1>22 DEF IsrSlaveReceive, Enter, Reply, Go, Listening
<1>23. ASSUME IsrSlaveByte, UNCHANGED settings
      PROVE  Own'
  BY <1>23 DEF IsrSlaveByte, Enter, Reply, Go, Listening
<1>24. ASSUME IsrSlaveNack, UNCHANGED settings
      PROVE  Own'
  BY <1>24 DEF IsrSlaveNack, Enter, Reply, Go, Listening
<1>25. ASSUME IsrSlaveSend, UNCHANGED settings
      PROVE  Own'
  BY <1>25 DEF IsrSlaveSend, Enter, SlaveByte, Reply, Go, Listening
<1>26. ASSUME IsrSlaveSent, UNCHANGED settings
      PROVE  Own'
  BY <1>26 DEF IsrSlaveSent, Enter, Release, Go, Listening
<1>27. ASSUME IsrSlaveStop, UNCHANGED data, UNCHANGED settings
      PROVE  Own'
  BY <1>27 DEF IsrSlaveStop, Enter, Release, Go, Listening
<1>28. ASSUME NEW n \in 0 .. BUF, IsrSlaveRequest(n), UNCHANGED data, UNCHANGED settings
      PROVE  Own'
  BY <1>28 DEF IsrSlaveRequest, Enter, SlaveByte, Reply, Go, Listening
<1>29. ASSUME HwStart, UNCHANGED settings
      PROVE  Own'
  BY <1>29 DEF HwStart, Busy, Raise
<1>30. ASSUME HwStop, UNCHANGED settings
      PROVE  Own'
  BY <1>30 DEF HwStop
<1>31. ASSUME HwAddress, UNCHANGED settings
      PROVE  Own'
  BY <1>31 DEF HwAddress, Busy, Raise
<1>32. ASSUME HwSend, UNCHANGED settings
      PROVE  Own'
  BY <1>32 DEF HwSend, Busy, Raise
<1>33. ASSUME HwReceive, UNCHANGED settings
      PROVE  Own'
  BY <1>33 DEF HwReceive, Busy, Raise
<1>34. ASSUME OtherTakes, UNCHANGED settings
      PROVE  Own'
  BY <1>34 DEF OtherTakes
<1>35. ASSUME OtherWins, UNCHANGED settings
      PROVE  Own'
  BY <1>35 DEF OtherWins, Busy, Raise
<1>36. ASSUME OtherAddresses, UNCHANGED settings
      PROVE  Own'
  BY <1>36 DEF OtherAddresses, Busy, Raise
<1>37. ASSUME OtherSends, UNCHANGED settings
      PROVE  Own'
  BY <1>37 DEF OtherSends, Busy, Raise
<1>38. ASSUME OtherStops, UNCHANGED settings
      PROVE  Own'
  BY <1>38 DEF OtherStops, Busy, Raise
<1>39. ASSUME OtherReads, UNCHANGED settings
      PROVE  Own'
  BY <1>39 DEF OtherReads, Busy, Raise
<1>40. ASSUME OtherLeaves, UNCHANGED settings
      PROVE  Own'
  BY <1>40 DEF OtherLeaves
<1>41. ASSUME BusNoise, UNCHANGED settings
      PROVE  Own'
  BY <1>41 DEF BusNoise
<1>42. ASSUME UNCHANGED vars
      PROVE  Own'
  BY <1>42 DEF vars
<1> HIDE DEF Own, StopsOnlyOurs, Ours, MasterCodes, Running, settings, soft, master, slave, data,
         call, hard, seen
<1> QED
  BY <1>1, <1>2, <1>3, <1>4, <1>5, <1>6, <1>7, <1>8, <1>9, <1>10, <1>11, <1>12, <1>13, <1>14, <1>15,
     <1>16, <1>17, <1>18, <1>19, <1>20, <1>21, <1>22, <1>23, <1>24, <1>25, <1>26, <1>27, <1>28,
     <1>29, <1>30, <1>31, <1>32, <1>33, <1>34, <1>35, <1>36, <1>37, <1>38, <1>39, <1>40, <1>41,
     <1>42
  DEF Next, Sketch, Calls, CallStep, Handler, MasterHandler, SlaveHandler, Callbacks, Peripheral,
     Others

\* twi_stop() is reached only while the bus is ours, on a bus without illegal
\* conditions: by the sketch's races with the handler no STOP of the driver can
\* cut another master's transfer.
THEOREM NoStopOnOthers ==
    ASSUME ~Noise
    PROVE  Spec => []StopsOnlyOurs
<1>1. Init => Own
  BY OwnInit
<1>2. Own /\ [Next]_vars => Own'
  BY OwnStep
<1>3. Own => StopsOnlyOurs
  BY DEF Own
<1> QED
  BY <1>1, <1>2, <1>3, PTL DEF Spec

-----------------------------------------------------------------------------
(* Every index stays inside its buffer *)

Safe == InBounds /\ Accepted

\* What is assumed of the constants.
LEMMA Constants == BUF \in Nat /\ BUF > 0 /\ Ops \subseteq {"W", "R"}
BY BufAssumption, OpsAssumption

\* The buffers start empty.
LEMMA SafeInit == Init => Safe
BY Constants DEF Init, Safe, InBounds, Accepted

\* No step moves an index past its buffer: the sketch sets the length only for a
\* call that was not refused, the handler checks before it stores.
LEMMA SafeStep ==
    ASSUME Safe, [Next]_vars
    PROVE  Safe'
<1> USE DEF soft, master, slave, data, call, hard, seen, Safe, InBounds, Accepted, Running
<1>1. ASSUME NEW o \in Ops, NEW n \in 0 .. BUF + 1, NEW s \in BOOLEAN, Call(o, n, s)
      PROVE  Safe'
  BY <1>1, Constants DEF Call, Refused
<1>2. ASSUME WaitReady
      PROVE  Safe'
  BY <1>2, Constants DEF WaitReady, Wait, ClockOk
<1>3. ASSUME Claim
      PROVE  Safe'
  BY <1>3, Constants DEF Claim
<1>4. ASSUME Setup
      PROVE  Safe'
  <2>1. op \in {"W", "R"} /\ len \in 0 .. BUF /\ (op = "R" => len > 0)
    BY <1>4 DEF Setup, Safe, Accepted
  <2>2. mlength' \in 0 .. BUF
    <3>1. CASE op = "W"
      BY <1>4, <2>1, <3>1, Constants DEF Setup, LastIndex
    <3>2. CASE op # "W"
      BY <1>4, <2>1, <3>2, Constants DEF Setup, LastIndex
    <3> QED
      BY <3>1, <3>2
  <2>3. DOMAIN mbuf' = 0 .. BUF - 1
    <3>1. CASE op = "W"
      BY <1>4, <3>1 DEF Setup
    <3>2. CASE op # "W"
      BY <1>4, <3>2 DEF Setup, Safe, InBounds
    <3> QED
      BY <3>1, <3>2
  <2>4. mindex' \in 0 .. BUF
    BY <1>4, Constants DEF Setup, FirstIndex
  <2>5. UNCHANGED <<txindex, txlength, rxindex, op, len>>
    BY <1>4 DEF Setup, slave, call
  <2> QED
    BY <2>1, <2>2, <2>3, <2>4, <2>5 DEF Safe, InBounds, Accepted
<1>5. ASSUME Start
      PROVE  Safe'
  BY <1>5, Constants DEF Start, Go, Listening
<1>6. ASSUME RepLoad
      PROVE  Safe'
  BY <1>6, Constants DEF RepLoad
<1>7. ASSUME RepGo
      PROVE  Safe'
  BY <1>7, Constants DEF RepGo, Go, Listening
<1>8. ASSUME WaitDone
      PROVE  Safe'
  BY <1>8, Constants DEF WaitDone, Wait, ClockOk
<1>9. ASSUME Result
      PROVE  Safe'
  BY <1>9, Constants DEF Result
<1>10. ASSUME TimeoutMain
      PROVE  Safe'
  BY <1>10, Constants DEF TimeoutMain
<1>11. ASSUME Disable
      PROVE  Safe'
  BY <1>11, Constants DEF Disable, Disabled, Listening
<1>12. ASSUME InitMain
      PROVE  Safe'
  BY <1>12, Constants DEF InitMain, Initialise, Listening
<1>13. ASSUME ClearTimeoutFlag
      PROVE  Safe'
  BY <1>13, Constants DEF ClearTimeoutFlag
<1>14. ASSUME IsrStart
      PROVE  Safe'
  BY <1>14, Constants DEF IsrStart, Enter, Reply, Go, Listening
<1>15. ASSUME IsrSend
      PROVE  Safe'
  BY <1>15, Constants DEF IsrSend, MoreToSend, Enter, Finish, Stop, SilentStart, Reply, Go,
     Listening
<1>16. ASSUME IsrNack
      PROVE  Safe'
  BY <1>16, Constants DEF IsrNack, Enter, Stop, Go, Listening
<1>17. ASSUME IsrLost
      PROVE  Safe'
  BY <1>17, Constants DEF IsrLost, Enter, GiveUpBus, Release, Go, Listening
<1>18. ASSUME IsrReceive
      PROVE  Safe'
  BY <1>18, Constants DEF IsrReceive, Enter, Stop, Reply, Go, Listening
<1>19. ASSUME IsrReceiveLast
      PROVE  Safe'
  BY <1>19, Constants DEF IsrReceiveLast, Enter, Finish, Stop, SilentStart, Go, Listening
<1>20. ASSUME IsrStopDone
      PROVE  Safe'
  BY <1>20, Constants DEF IsrStopDone
<1>21. ASSUME IsrStopTimeout
      PROVE  Safe'
  BY <1>21, Constants DEF IsrStopTimeout, Initialise, Listening
<1>22. ASSUME IsrSlaveReceive
      PROVE  Safe'
  BY <1>22, Constants DEF IsrSlaveReceive, Enter, Reply, Go, Listening
<1>23. ASSUME IsrSlaveByte
      PROVE  Safe'
  BY <1>23, Constants DEF IsrSlaveByte, RoomToReceive, Enter, Reply, Go, Listening
<1>24. ASSUME IsrSlaveNack
      PROVE  Safe'
  BY <1>24, Constants DEF IsrSlaveNack, Enter, Reply, Go, Listening
<1>25. ASSUME IsrSlaveSend
      PROVE  Safe'
  BY <1>25, Constants DEF IsrSlaveSend, Enter, SlaveByte, Reply, Go, Listening
<1>26. ASSUME IsrSlaveSent
      PROVE  Safe'
  BY <1>26, Constants DEF IsrSlaveSent, Enter, Release, Go, Listening
<1>27. ASSUME IsrSlaveStop, UNCHANGED data
      PROVE  Safe'
  BY <1>27, Constants DEF IsrSlaveStop, Enter, Release, Go, Listening
<1>28. ASSUME NEW n \in 0 .. BUF, IsrSlaveRequest(n), UNCHANGED data
      PROVE  Safe'
  BY <1>28, Constants DEF IsrSlaveRequest, Enter, SlaveByte, Reply, Go, Listening
<1>29. ASSUME HwStart
      PROVE  Safe'
  BY <1>29, Constants DEF HwStart, Busy, Raise
<1>30. ASSUME HwStop
      PROVE  Safe'
  BY <1>30, Constants DEF HwStop
<1>31. ASSUME HwAddress
      PROVE  Safe'
  BY <1>31, Constants DEF HwAddress, Busy, Raise
<1>32. ASSUME HwSend
      PROVE  Safe'
  BY <1>32, Constants DEF HwSend, Busy, Raise
<1>33. ASSUME HwReceive
      PROVE  Safe'
  BY <1>33, Constants DEF HwReceive, Busy, Raise
<1>34. ASSUME OtherTakes
      PROVE  Safe'
  BY <1>34, Constants DEF OtherTakes
<1>35. ASSUME OtherWins
      PROVE  Safe'
  BY <1>35, Constants DEF OtherWins, Busy, Raise
<1>36. ASSUME OtherAddresses
      PROVE  Safe'
  BY <1>36, Constants DEF OtherAddresses, Busy, Raise
<1>37. ASSUME OtherSends
      PROVE  Safe'
  BY <1>37, Constants DEF OtherSends, Busy, Raise
<1>38. ASSUME OtherStops
      PROVE  Safe'
  BY <1>38, Constants DEF OtherStops, Busy, Raise
<1>39. ASSUME OtherReads
      PROVE  Safe'
  BY <1>39, Constants DEF OtherReads, Busy, Raise
<1>40. ASSUME OtherLeaves
      PROVE  Safe'
  BY <1>40, Constants DEF OtherLeaves
<1>41. ASSUME BusNoise
      PROVE  Safe'
  BY <1>41, Constants DEF BusNoise
<1>42. ASSUME UNCHANGED vars
      PROVE  Safe'
  BY <1>42 DEF vars
<1> HIDE DEF soft, master, slave, data, call, hard, seen, Safe, InBounds, Accepted, Running
<1> QED
  BY <1>1, <1>2, <1>3, <1>4, <1>5, <1>6, <1>7, <1>8, <1>9, <1>10, <1>11, <1>12, <1>13, <1>14, <1>15,
     <1>16, <1>17, <1>18, <1>19, <1>20, <1>21, <1>22, <1>23, <1>24, <1>25, <1>26, <1>27, <1>28,
     <1>29, <1>30, <1>31, <1>32, <1>33, <1>34, <1>35, <1>36, <1>37, <1>38, <1>39, <1>40, <1>41,
     <1>42
  DEF Next, Sketch, Calls, CallStep, Handler, MasterHandler, SlaveHandler, Callbacks, Peripheral,
     Others

\* The indices and lengths of the three buffers stay within TWI_BUFFER_LENGTH,
\* whatever the devices, other masters and bus errors do.
THEOREM IndicesInBounds == Spec => []InBounds
<1>1. Init => Safe
  BY SafeInit
<1>2. Safe /\ [Next]_vars => Safe'
  BY SafeStep
<1>3. Safe => InBounds
  BY DEF Safe
<1> QED
  BY <1>1, <1>2, <1>3, PTL DEF Spec

-----------------------------------------------------------------------------
(* Every variable keeps its type *)

\* The type invariant by who writes the variables: the sketch, the handler's state
\* machine, the buffers, the peripheral, the history.
CallTyped ==
    /\ timeout \in Timeouts /\ role \in Roles
    /\ pc \in Pcs /\ op \in {"W", "R"} /\ len \in 0 .. BUF + 1 /\ stopArg \in BOOLEAN
    /\ ret \in Nat /\ isr \in {"none", "stop"}
DriverTyped ==
    /\ state \in {READY, MRX, MTX, SRX, STX} /\ slarw \in {SlaW, SlaR}
    /\ sendStop \in BOOLEAN /\ inRepStart \in BOOLEAN /\ timedOut \in BOOLEAN
    /\ error \in Errors
BufferTyped ==
    mbuf \in [0 .. BUF - 1 -> Int] /\ out \in [0 .. BUF - 1 -> Int] /\ in \in [0 .. BUF - 1 -> Int]
HardTyped ==
    /\ twcr \in SUBSET TwcrBits /\ twint \in BOOLEAN
    /\ status \in MasterCodes \union SlaveCodes \union {"NO_INFO", "BUS_ERROR"}
    /\ link \in {"idle", "addr", "mt", "mr", "sr", "st"} /\ bus \in {"free", "us", "other"}
    /\ twdr \in Int
SeenTyped ==
    /\ answer \in {"none", "ack", "addrNack", "dataNack", "lost", "busError"}
    /\ wire \in Seq(Int) /\ acked \in 0 .. RemoteBytes
Typed == Safe /\ CallTyped /\ DriverTyped /\ BufferTyped /\ HardTyped /\ SeenTyped

\* The types above are TypeOK.
LEMMA TypedIsTypeOK == Typed => TypeOK
BY DEF Typed, Safe, CallTyped, DriverTyped, BufferTyped, HardTyped, SeenTyped, TypeOK

\* Everything starts with a value of its type.
LEMMA TypedInit == Init => Typed
<1>1. Init => CallTyped
  BY Constants DEF Init, CallTyped, Pcs
<1>5. Init => DriverTyped
  BY DEF Init, DriverTyped, Errors
<1>2. Init => BufferTyped
  BY Constants DEF Init, BufferTyped
<1>3. Init => HardTyped
  <2>1. Listening \subseteq TwcrBits
    BY DEF Listening, TwcrBits
  <2>2. Init => twcr \in SUBSET TwcrBits
    BY <2>1 DEF Init
  <2>3. Init => status \in MasterCodes \union SlaveCodes \union {"NO_INFO", "BUS_ERROR"}
    BY DEF Init
  <2>4. Init => bus \in {"free", "us", "other"} /\ link \in {"idle", "addr", "mt", "mr", "sr", "st"}
    BY DEF Init
  <2>5. Init => twint \in BOOLEAN
    BY DEF Init
  <2>6. Init => twdr \in Int
    BY DEF Init
  <2> QED
    BY <2>2, <2>3, <2>4, <2>5, <2>6 DEF HardTyped
<1>4. Init => SeenTyped
  BY BusAssumption DEF Init, SeenTyped
<1> QED
  BY <1>1, <1>2, <1>3, <1>4, <1>5, SafeInit DEF Typed

\* Who writes the buffers of the master, the caller's included.
LEMMA BufferWriters ==
    ASSUME [Next]_vars
    PROVE  UNCHANGED <<mbuf, out, in>> \/ Setup \/ Result \/ IsrReceive \/ IsrReceiveLast
BY DEF Call, WaitReady, Claim, Start, RepLoad, RepGo, WaitDone, TimeoutMain, Disable, InitMain,
   ClearTimeoutFlag, IsrStart, IsrSend, IsrNack, IsrLost, IsrStopDone, IsrStopTimeout,
   IsrSlaveReceive, IsrSlaveByte, IsrSlaveNack, IsrSlaveSend, IsrSlaveSent, IsrSlaveStop,
   IsrSlaveRequest, HwStart, HwStop, HwAddress, HwSend, HwReceive, OtherTakes, OtherWins,
   OtherAddresses, OtherSends, OtherStops, OtherReads, OtherLeaves, BusNoise, Next, Sketch,
   Calls, CallStep, Handler, MasterHandler, SlaveHandler, Callbacks, Peripheral, Others, Wait,
   ClockOk, vars, settings, soft, master, slave, data, call, hard, seen

\* Who writes the history.
LEMMA HistoryWriters ==
    ASSUME [Next]_vars
    PROVE  \/ UNCHANGED seen \/ Setup \/ HwAddress \/ HwSend \/ HwReceive
           \/ OtherWins \/ OtherAddresses \/ OtherSends \/ BusNoise
BY DEF Call, WaitReady, Claim, Start, RepLoad, RepGo, WaitDone, Result, TimeoutMain, Disable,
   InitMain, ClearTimeoutFlag, IsrStart, IsrSend, IsrNack, IsrLost, IsrReceive, IsrReceiveLast,
   IsrStopDone, IsrStopTimeout, IsrSlaveReceive, IsrSlaveByte, IsrSlaveNack, IsrSlaveSend,
   IsrSlaveSent, IsrSlaveStop, IsrSlaveRequest, HwStart, HwStop, OtherTakes, OtherStops,
   OtherReads, OtherLeaves, Next, Sketch, Calls, CallStep, Handler, MasterHandler, SlaveHandler,
   Callbacks, Peripheral, Others, Wait, ClockOk, vars, settings, soft, master, slave, data,
   call, hard, seen

\* Who writes TWDR.
LEMMA DataWriters ==
    ASSUME [Next]_vars
    PROVE  \/ twdr' \in {twdr, 0, slarw} \/ IsrSend \/ HwReceive
           \/ twdr' = QueuedByte(0) \/ twdr' = QueuedByte(txindex)
BY DEF Call, WaitReady, Claim, Setup, Start, RepLoad, RepGo, WaitDone, Result, TimeoutMain, Disable,
   InitMain, ClearTimeoutFlag, IsrStart, IsrNack, IsrLost, IsrReceive, IsrReceiveLast,
   IsrStopDone, IsrStopTimeout, IsrSlaveReceive, IsrSlaveByte, IsrSlaveNack, IsrSlaveSend,
   IsrSlaveSent, IsrSlaveStop, IsrSlaveRequest, HwStart, HwStop, HwAddress, HwSend, OtherTakes,
   OtherWins, OtherAddresses, OtherSends, OtherStops, OtherReads, OtherLeaves, BusNoise, Next,
   Sketch, Calls, CallStep, Handler, MasterHandler, SlaveHandler, Callbacks, Peripheral, Others,
   Wait, ClockOk, vars, settings, soft, master, slave, data, call, hard, seen, SlaveByte

\* Every step keeps every type.
LEMMA TypedStep ==
    ASSUME Typed, [Next]_vars
    PROVE  Typed'
<1>1. Safe'
  BY SafeStep DEF Typed
<1>2. CallTyped'
  BY Constants DEF Call, WaitReady, Claim, Setup, Start, RepLoad, RepGo, WaitDone, Result,
     TimeoutMain,
     Disable, InitMain, ClearTimeoutFlag, IsrStart, IsrSend, IsrNack, IsrLost, IsrReceive,
     IsrReceiveLast, IsrStopDone, IsrStopTimeout, IsrSlaveReceive, IsrSlaveByte, IsrSlaveNack,
     IsrSlaveSend, IsrSlaveSent, IsrSlaveStop, IsrSlaveRequest, HwStart, HwStop, HwAddress,
     HwSend, HwReceive, OtherTakes, OtherWins, OtherAddresses, OtherSends, OtherStops,
     OtherReads, OtherLeaves, BusNoise, Next, Sketch, Calls, CallStep, Handler, MasterHandler,
     SlaveHandler, Callbacks, Peripheral, Others, Wait, ClockOk, vars, settings, soft, master,
     slave, data, call, hard, seen, Pcs, CallTyped, Typed, Code, Smaller, Safe, InBounds,
     Listening, Go, Reply, Stop, SilentStart, Finish, Release, GiveUpBus, Enter, SlaveByte,
     Initialise, InitState, Disabled, Freed, Busy, Raise, Running, Refused, Target, ReadsClock,
     MayClaim
<1>3. DriverTyped'
  <2>1. state' \in {READY, MRX, MTX, SRX, STX}
    BY DEF Call, WaitReady, Claim, Setup, Start, RepLoad, RepGo, WaitDone, Result, TimeoutMain,
       Disable, InitMain, ClearTimeoutFlag, IsrStart, IsrSend, IsrNack, IsrLost, IsrReceive,
       IsrReceiveLast, IsrStopDone, IsrStopTimeout, IsrSlaveReceive, IsrSlaveByte, IsrSlaveNack,
       IsrSlaveSend, IsrSlaveSent, IsrSlaveStop, IsrSlaveRequest, HwStart, HwStop, HwAddress,
       HwSend, HwReceive, OtherTakes, OtherWins, OtherAddresses, OtherSends, OtherStops,
       OtherReads, OtherLeaves, BusNoise, Next, Sketch, Calls, CallStep, Handler, MasterHandler,
       SlaveHandler, Callbacks, Peripheral, Others, Wait, ClockOk, vars, settings, soft, master,
       slave, data, call, hard, seen, DriverTyped, Typed, READY, MRX, MTX, SRX, STX, Listening,
       Go, Reply, Stop, SilentStart, Finish, Release, GiveUpBus, Enter, SlaveByte, Initialise,
       InitState, Disabled, Freed, Busy, Raise, Running, Refused, Target, ReadsClock, MayClaim
  <2>2. slarw' \in {SlaW, SlaR}
    BY DEF Call, WaitReady, Claim, Setup, Start, RepLoad, RepGo, WaitDone, Result, TimeoutMain,
       Disable, InitMain, ClearTimeoutFlag, IsrStart, IsrSend, IsrNack, IsrLost, IsrReceive,
       IsrReceiveLast, IsrStopDone, IsrStopTimeout, IsrSlaveReceive, IsrSlaveByte, IsrSlaveNack,
       IsrSlaveSend, IsrSlaveSent, IsrSlaveStop, IsrSlaveRequest, HwStart, HwStop, HwAddress,
       HwSend, HwReceive, OtherTakes, OtherWins, OtherAddresses, OtherSends, OtherStops,
       OtherReads, OtherLeaves, BusNoise, Next, Sketch, Calls, CallStep, Handler, MasterHandler,
       SlaveHandler, Callbacks, Peripheral, Others, Wait, ClockOk, vars, settings, soft, master,
       slave, data, call, hard, seen, DriverTyped, Typed, Initialise, Finish
  <2>3. sendStop' \in BOOLEAN
    BY DEF Call, WaitReady, Claim, Setup, Start, RepLoad, RepGo, WaitDone, Result, TimeoutMain,
       Disable, InitMain, ClearTimeoutFlag, IsrStart, IsrSend, IsrNack, IsrLost, IsrReceive,
       IsrReceiveLast, IsrStopDone, IsrStopTimeout, IsrSlaveReceive, IsrSlaveByte, IsrSlaveNack,
       IsrSlaveSend, IsrSlaveSent, IsrSlaveStop, IsrSlaveRequest, HwStart, HwStop, HwAddress,
       HwSend, HwReceive, OtherTakes, OtherWins, OtherAddresses, OtherSends, OtherStops,
       OtherReads, OtherLeaves, BusNoise, Next, Sketch, Calls, CallStep, Handler, MasterHandler,
       SlaveHandler, Callbacks, Peripheral, Others, Wait, ClockOk, vars, settings, soft, master,
       slave, data, call, hard, seen, DriverTyped, CallTyped, Typed, Initialise, Finish
  <2>4. inRepStart' \in BOOLEAN
    BY DEF Call, WaitReady, Claim, Setup, Start, RepLoad, RepGo, WaitDone, Result, TimeoutMain,
       Disable, InitMain, ClearTimeoutFlag, IsrStart, IsrSend, IsrNack, IsrLost, IsrReceive,
       IsrReceiveLast, IsrStopDone, IsrStopTimeout, IsrSlaveReceive, IsrSlaveByte, IsrSlaveNack,
       IsrSlaveSend, IsrSlaveSent, IsrSlaveStop, IsrSlaveRequest, HwStart, HwStop, HwAddress,
       HwSend, HwReceive, OtherTakes, OtherWins, OtherAddresses, OtherSends, OtherStops,
       OtherReads, OtherLeaves, BusNoise, Next, Sketch, Calls, CallStep, Handler, MasterHandler,
       SlaveHandler, Callbacks, Peripheral, Others, Wait, ClockOk, vars, settings, soft, master,
       slave, data, call, hard, seen, DriverTyped, Typed, Initialise, Finish
  <2>5. timedOut' \in BOOLEAN
    BY DEF Call, WaitReady, Claim, Setup, Start, RepLoad, RepGo, WaitDone, Result, TimeoutMain,
       Disable, InitMain, ClearTimeoutFlag, IsrStart, IsrSend, IsrNack, IsrLost, IsrReceive,
       IsrReceiveLast, IsrStopDone, IsrStopTimeout, IsrSlaveReceive, IsrSlaveByte, IsrSlaveNack,
       IsrSlaveSend, IsrSlaveSent, IsrSlaveStop, IsrSlaveRequest, HwStart, HwStop, HwAddress,
       HwSend, HwReceive, OtherTakes, OtherWins, OtherAddresses, OtherSends, OtherStops,
       OtherReads, OtherLeaves, BusNoise, Next, Sketch, Calls, CallStep, Handler, MasterHandler,
       SlaveHandler, Callbacks, Peripheral, Others, Wait, ClockOk, vars, settings, soft, master,
       slave, data, call, hard, seen, DriverTyped, Typed, Initialise, Finish
  <2>6. error' \in Errors
    BY DEF Call, WaitReady, Claim, Setup, Start, RepLoad, RepGo, WaitDone, Result, TimeoutMain,
       Disable, InitMain, ClearTimeoutFlag, IsrStart, IsrSend, IsrNack, IsrLost, IsrReceive,
       IsrReceiveLast, IsrStopDone, IsrStopTimeout, IsrSlaveReceive, IsrSlaveByte, IsrSlaveNack,
       IsrSlaveSend, IsrSlaveSent, IsrSlaveStop, IsrSlaveRequest, HwStart, HwStop, HwAddress,
       HwSend, HwReceive, OtherTakes, OtherWins, OtherAddresses, OtherSends, OtherStops,
       OtherReads, OtherLeaves, BusNoise, Next, Sketch, Calls, CallStep, Handler, MasterHandler,
       SlaveHandler, Callbacks, Peripheral, Others, Wait, ClockOk, vars, settings, soft, master,
       slave, data, call, hard, seen, DriverTyped, Typed, Errors, NoError, FreshError, Enter
  <2> QED
    BY <2>1, <2>2, <2>3, <2>4, <2>5, <2>6 DEF DriverTyped
<1>4. BufferTyped'
  <2>1. CASE UNCHANGED <<mbuf, out, in>>
    BY <2>1 DEF Typed, BufferTyped
  <2>2. CASE Setup
    BY <2>2 DEF Setup, Typed, BufferTyped, data
  <2>3. CASE Result
    BY <2>3 DEF Result, Typed, BufferTyped, master
  <2>4. CASE IsrReceive
    <3>1. UNCHANGED <<out, in>> /\ (mbuf' = mbuf \/ mbuf' = [mbuf EXCEPT ![mindex] = twdr])
      BY <2>4 DEF IsrReceive, data
    <3> QED
      BY <3>1 DEF Typed, BufferTyped, HardTyped
  <2>5. CASE IsrReceiveLast
    <3>1. UNCHANGED <<out, in>> /\ (mbuf' = mbuf \/ mbuf' = [mbuf EXCEPT ![mindex] = twdr])
      BY <2>5 DEF IsrReceiveLast, data
    <3> QED
      BY <3>1 DEF Typed, BufferTyped, HardTyped
  <2> QED
    BY <2>1, <2>2, <2>3, <2>4, <2>5, BufferWriters
<1>5. HardTyped'
  <2>1. twcr' \in SUBSET TwcrBits
    BY DEF Call, WaitReady, Claim, Setup, Start, RepLoad, RepGo, WaitDone, Result, TimeoutMain,
       Disable, InitMain, ClearTimeoutFlag, IsrStart, IsrSend, IsrNack, IsrLost, IsrReceive,
       IsrReceiveLast, IsrStopDone, IsrStopTimeout, IsrSlaveReceive, IsrSlaveByte, IsrSlaveNack,
       IsrSlaveSend, IsrSlaveSent, IsrSlaveStop, IsrSlaveRequest, HwStart, HwStop, HwAddress,
       HwSend, HwReceive, OtherTakes, OtherWins, OtherAddresses, OtherSends, OtherStops,
       OtherReads, OtherLeaves, BusNoise, Next, Sketch, Calls, CallStep, Handler, MasterHandler,
       SlaveHandler, Callbacks, Peripheral, Others, Wait, ClockOk, vars, settings, soft, master,
       slave, data, call, hard, seen, HardTyped, Typed, TwcrBits, Listening, Go, Reply, Stop,
       SilentStart, Finish, Release, GiveUpBus, Enter, SlaveByte, Initialise, InitState,
       Disabled, Freed, Busy, Raise, Running, Refused, Target, ReadsClock, MayClaim
  <2>2. twint' \in BOOLEAN
    BY DEF Call, WaitReady, Claim, Setup, Start, RepLoad, RepGo, WaitDone, Result, TimeoutMain,
       Disable, InitMain, ClearTimeoutFlag, IsrStart, IsrSend, IsrNack, IsrLost, IsrReceive,
       IsrReceiveLast, IsrStopDone, IsrStopTimeout, IsrSlaveReceive, IsrSlaveByte, IsrSlaveNack,
       IsrSlaveSend, IsrSlaveSent, IsrSlaveStop, IsrSlaveRequest, HwStart, HwStop, HwAddress,
       HwSend, HwReceive, OtherTakes, OtherWins, OtherAddresses, OtherSends, OtherStops,
       OtherReads, OtherLeaves, BusNoise, Next, Sketch, Calls, CallStep, Handler, MasterHandler,
       SlaveHandler, Callbacks, Peripheral, Others, Wait, ClockOk, vars, settings, soft, master,
       slave, data, call, hard, seen, HardTyped, Typed, Listening, Go, Reply, Stop, SilentStart,
       Finish, Release, GiveUpBus, Enter, SlaveByte, Initialise, InitState, Disabled, Freed,
       Busy, Raise, Running, Refused, Target, ReadsClock, MayClaim
  <2>3. status' \in MasterCodes \union SlaveCodes \union {"NO_INFO", "BUS_ERROR"}
    BY DEF Call, WaitReady, Claim, Setup, Start, RepLoad, RepGo, WaitDone, Result, TimeoutMain,
       Disable, InitMain, ClearTimeoutFlag, IsrStart, IsrSend, IsrNack, IsrLost, IsrReceive,
       IsrReceiveLast, IsrStopDone, IsrStopTimeout, IsrSlaveReceive, IsrSlaveByte, IsrSlaveNack,
       IsrSlaveSend, IsrSlaveSent, IsrSlaveStop, IsrSlaveRequest, HwStart, HwStop, HwAddress,
       HwSend, HwReceive, OtherTakes, OtherWins, OtherAddresses, OtherSends, OtherStops,
       OtherReads, OtherLeaves, BusNoise, Next, Sketch, Calls, CallStep, Handler, MasterHandler,
       SlaveHandler, Callbacks, Peripheral, Others, Wait, ClockOk, vars, settings, soft, master,
       slave, data, call, hard, seen, HardTyped, Typed, MasterCodes, SlaveCodes, Listening, Go,
       Reply, Stop, SilentStart, Finish, Release, GiveUpBus, Enter, SlaveByte, Initialise,
       InitState, Disabled, Freed, Busy, Raise, Running, Refused, Target, ReadsClock, MayClaim
  <2>4. link' \in {"idle", "addr", "mt", "mr", "sr", "st"}
    BY DEF Call, WaitReady, Claim, Setup, Start, RepLoad, RepGo, WaitDone, Result, TimeoutMain,
       Disable, InitMain, ClearTimeoutFlag, IsrStart, IsrSend, IsrNack, IsrLost, IsrReceive,
       IsrReceiveLast, IsrStopDone, IsrStopTimeout, IsrSlaveReceive, IsrSlaveByte, IsrSlaveNack,
       IsrSlaveSend, IsrSlaveSent, IsrSlaveStop, IsrSlaveRequest, HwStart, HwStop, HwAddress,
       HwSend, HwReceive, OtherTakes, OtherWins, OtherAddresses, OtherSends, OtherStops,
       OtherReads, OtherLeaves, BusNoise, Next, Sketch, Calls, CallStep, Handler, MasterHandler,
       SlaveHandler, Callbacks, Peripheral, Others, Wait, ClockOk, vars, settings, soft, master,
       slave, data, call, hard, seen, HardTyped, Typed, Raise, Disabled
  <2>5. bus' \in {"free", "us", "other"}
    BY DEF Call, WaitReady, Claim, Setup, Start, RepLoad, RepGo, WaitDone, Result, TimeoutMain,
       Disable, InitMain, ClearTimeoutFlag, IsrStart, IsrSend, IsrNack, IsrLost, IsrReceive,
       IsrReceiveLast, IsrStopDone, IsrStopTimeout, IsrSlaveReceive, IsrSlaveByte, IsrSlaveNack,
       IsrSlaveSend, IsrSlaveSent, IsrSlaveStop, IsrSlaveRequest, HwStart, HwStop, HwAddress,
       HwSend, HwReceive, OtherTakes, OtherWins, OtherAddresses, OtherSends, OtherStops,
       OtherReads, OtherLeaves, BusNoise, Next, Sketch, Calls, CallStep, Handler, MasterHandler,
       SlaveHandler, Callbacks, Peripheral, Others, Wait, ClockOk, vars, settings, soft, master,
       slave, data, call, hard, seen, HardTyped, Typed, Raise, Disabled
  <2>6. twdr' \in Int
    <3>1. CASE IsrSend
      <4>1. twdr' = twdr \/ (mindex < mlength /\ twdr' = mbuf[mindex])
        BY <3>1 DEF IsrSend, MoreToSend
      <4>2. mindex \in Nat /\ mlength \in 0 .. BUF /\ twdr \in Int /\ mbuf \in [0 .. BUF - 1 -> Int]
        BY Constants DEF Typed, Safe, InBounds, BufferTyped, HardTyped
      <4> QED
        BY <4>1, <4>2, Constants
    <3>2. CASE HwReceive
      BY <3>2 DEF HwReceive, Typed, SeenTyped
    <3>3. CASE twdr' \in {twdr, 0, slarw}
      BY <3>3 DEF Typed, HardTyped, DriverTyped, SlaW, SlaR
    <3>4. CASE twdr' = QueuedByte(0) \/ twdr' = QueuedByte(txindex)
      BY <3>4 DEF QueuedByte, Typed, Safe, InBounds
    <3> QED
      BY <3>1, <3>2, <3>3, <3>4, DataWriters
  <2> QED
    BY <2>1, <2>2, <2>3, <2>4, <2>5, <2>6 DEF HardTyped
<1>6. SeenTyped'
  <2>1. CASE UNCHANGED seen
    BY <2>1 DEF seen, Typed, SeenTyped
  <2>2. CASE Setup
    BY <2>2 DEF Setup, Typed, SeenTyped
  <2>3. CASE HwAddress
    <3>1. answer' \in {"ack", "addrNack"} /\ acked' = acked /\ wire' \in {wire, Append(wire, twdr)}
      BY <2>3 DEF HwAddress
    <3> QED
      BY <3>1 DEF Typed, SeenTyped, HardTyped
  <2>4. CASE HwSend
    <3>1. answer' \in {"ack", "dataNack"} /\ acked' = acked /\ wire' \in {wire, Append(wire, twdr)}
      BY <2>4 DEF HwSend
    <3> QED
      BY <3>1 DEF Typed, SeenTyped, HardTyped
  <2>5. CASE HwReceive
    BY <2>5 DEF HwReceive, Typed, SeenTyped
  <2>6. CASE OtherWins \/ OtherAddresses \/ OtherSends \/ BusNoise
    BY <2>6, BusAssumption DEF OtherWins, OtherAddresses, OtherSends, BusNoise, seen, Typed,
       SeenTyped
  <2> QED
    BY <2>1, <2>2, <2>3, <2>4, <2>5, <2>6, HistoryWriters
<1> QED
  BY <1>1, <1>2, <1>3, <1>4, <1>5, <1>6 DEF Typed

\* Every variable always has its type, for every buffer size and whatever the sketch,
\* the devices and the other masters do.
THEOREM TypesAlwaysOK == Spec => []TypeOK
<1>1. Init => Typed
  BY TypedInit
<1>2. Typed /\ [Next]_vars => Typed'
  BY TypedStep
<1>3. Typed => TypeOK
  BY TypedIsTypeOK
<1> QED
  BY <1>1, <1>2, <1>3, PTL DEF Spec

-----------------------------------------------------------------------------
(* A node that is only slave *)

\* What the node is doing: never a call, and once a bus error broke off a reception the
\* handler may be stopping.
Answering ==
    /\ pc = "idle" /\ op = "R" /\ ret = 0
    /\ status \notin MasterCodes /\ state \in {READY, SRX, STX} /\ error \in {NoError, "BUS_ERROR"}
    /\ "TWSTA" \notin twcr /\ link \in {"idle", "sr", "st"}
    /\ isr = "stop" => error = "BUS_ERROR"
    /\ "TWSTO" \in twcr => error = "BUS_ERROR" /\ ~twint

\* A reception: the handler has stored what we acknowledged, but for the byte it has not
\* seen yet; and it acknowledges the next one.
Hearing ==
    /\ link = "sr" /\ ~twint /\ "TWSTO" \notin twcr => rxindex = acked /\ "TWEA" \in twcr
    /\ link = "sr" /\ twint => \/ status = "SR_SLA_ACK" /\ acked = 0
                               \/ status = "SR_DATA_ACK" /\ acked = rxindex + 1
                               \/ status = "BUS_ERROR"
    /\ link = "idle" /\ twint => \/ status = "SR_STOP" /\ rxindex = acked
                                 \/ status \in {"ST_DATA_NACK", "ST_LAST_DATA"}

\* A transmission: TWDR holds the byte before txindex, or the zero past the end.
Telling ==
    /\ link = "st" /\ ~(twint /\ status = "ST_SLA_ACK") => twdr \in {txindex, 0}
    /\ link = "st" /\ twint => status \in {"ST_SLA_ACK", "ST_DATA_ACK", "BUS_ERROR"}

\* Not addressed, and nothing left to answer: the driver is free and listens.
Unaddressed == link = "idle" /\ ~twint /\ error # "BUS_ERROR" => state = READY /\ "TWEA" \in twcr

\* What a node that is only slave keeps.
Serving == Answering /\ Hearing /\ Telling /\ Unaddressed

\* A free node serves.
LEMMA ServingInit == ASSUME Init, role = "slave" PROVE Serving
BY DEF Init, Serving, Answering, Hearing, Telling, Unaddressed, Listening, NoError, READY,
   MasterCodes

\* The sketch of such a node calls nothing, and no event of a master occurs.
LEMMA SlaveSteps ==
    ASSUME role = "slave", Answering, [Next]_vars
    PROVE  \/ UNCHANGED vars
           \/ ClearTimeoutFlag
           \/ IsrNack
           \/ IsrStopDone
           \/ IsrStopTimeout
           \/ IsrSlaveReceive
           \/ IsrSlaveByte
           \/ IsrSlaveNack
           \/ IsrSlaveStop /\ UNCHANGED data
           \/ (\E n \in 0 .. BUF : IsrSlaveRequest(n)) /\ UNCHANGED data
           \/ IsrSlaveSend
           \/ IsrSlaveSent
           \/ HwStop
           \/ OtherTakes
           \/ OtherAddresses
           \/ OtherSends
           \/ OtherStops
           \/ OtherReads
           \/ OtherLeaves
           \/ BusNoise
BY DEF Call, WaitReady, Claim, Setup, Start, RepLoad, RepGo, WaitDone, Result, TimeoutMain, Disable,
   InitMain, IsrStart, IsrSend, IsrLost, IsrReceive, IsrReceiveLast, HwStart, HwAddress, HwSend,
   HwReceive, OtherWins, Next, Sketch, Calls, CallStep, Handler, MasterHandler, SlaveHandler,
   Callbacks, Peripheral, Others, Wait, ClockOk, vars, settings, soft, master, slave, data,
   call, hard, seen, Answering, MasterCodes, Enter, Running, Busy

\* Whatever such a step does, the node stays one that only answers.
LEMMA AnswerStep ==
    ASSUME role = "slave", Answering, Typed, [Next]_vars
    PROVE  Answering'
<1> USE DEF ClearTimeoutFlag, IsrNack, Enter, Stop, Go, Listening, IsrStopDone, Freed,
        IsrStopTimeout, Initialise, InitState, IsrSlaveReceive, Reply, IsrSlaveByte,
        RoomToReceive, IsrSlaveNack, IsrSlaveStop, Release, IsrSlaveRequest, SlaveByte,
        QueuedByte, IsrSlaveSend, IsrSlaveSent, HwStop, OtherTakes, OtherAddresses, Busy, Raise,
        OtherSends, OtherStops, OtherReads, OtherLeaves, BusNoise, vars, soft, master, slave,
        data, call, hard, seen, Answering, MasterCodes, Running
<1>1. pc' = "idle" /\ op' = "R" /\ ret' = 0
  BY SlaveSteps
<1>2. state' \in {READY, SRX, STX} /\ error' \in {NoError, "BUS_ERROR"}
  BY SlaveSteps
<1>3. status' \notin MasterCodes /\ link' \in {"idle", "sr", "st"}
  BY SlaveSteps
<1> HIDE DEF Listening
<1>4. \/ twcr' = twcr /\ error' = error /\ ("TWSTO" \in twcr => twint' = twint)
      \/ twcr' = twcr \ {"TWSTO"}
      \/ twcr' \in {Listening, Listening \ {"TWEA"}}
      \/ twcr' = Listening \union {"TWSTO"} /\ error' = "BUS_ERROR" /\ ~twint'
  BY SlaveSteps
<1>5. isr' = "stop" => error' = "BUS_ERROR"
  BY SlaveSteps
<1>6. "TWSTA" \notin twcr' /\ ("TWSTO" \in twcr' => error' = "BUS_ERROR" /\ ~twint')
  BY <1>4 DEF Listening
<1> QED
  BY <1>1, <1>2, <1>3, <1>4, <1>5, <1>6

\* Each of them keeps the other three parts too, if the other master sends no more than
\* the buffer holds.
LEMMA SlaveStep ==
    ASSUME role = "slave", RemoteBytes <= BUF, Serving, Answering', Typed, [Next]_vars
    PROVE  Serving'
<1> USE DEF soft, master, slave, data, call, hard, seen, Running, Serving, Answering, Hearing,
        Telling, Unaddressed, Typed, Safe, InBounds, CallTyped, DriverTyped, HardTyped,
        SeenTyped
<1>1. ASSUME ClearTimeoutFlag
      PROVE  Serving'
  BY <1>1, Constants DEF ClearTimeoutFlag
<1>2. ASSUME IsrNack
      PROVE  Serving'
  BY <1>2, Constants DEF IsrNack, Enter, Stop, Go, Listening
<1>3. ASSUME IsrStopDone
      PROVE  Serving'
  BY <1>3, Constants DEF IsrStopDone, Freed
<1>4. ASSUME IsrStopTimeout
      PROVE  Serving'
  BY <1>4, Constants DEF IsrStopTimeout, Initialise, Listening, InitState
<1>5. ASSUME IsrSlaveReceive
      PROVE  Serving'
  BY <1>5, Constants DEF IsrSlaveReceive, Enter, Reply, Go, Listening
<1>6. ASSUME IsrSlaveByte
      PROVE  Serving'
  <2>1. /\ rxindex \in 0 .. BUF /\ acked \in 0 .. RemoteBytes /\ twcr \in SUBSET TwcrBits
        /\ twint = TRUE /\ status = "SR_DATA_ACK" /\ isr = "none"
    BY <1>6 DEF Typed, Safe, InBounds, SeenTyped, HardTyped, IsrSlaveByte, Enter
  <2>2. link = "sr" /\ acked = rxindex + 1 /\ rxindex < BUF
    BY <2>1, Constants, BusAssumption DEF Serving, Answering, Hearing, Telling
  <2>3. /\ rxindex' = rxindex + 1 /\ twcr' = Listening /\ twint' = FALSE
        /\ UNCHANGED <<soft, txindex, pc, call, isr, status, twdr, link, acked>>
    BY <1>6, <2>2 DEF IsrSlaveByte, RoomToReceive, Reply, Go, seen
  <2> QED
    BY <2>1, <2>2, <2>3 DEF Listening, soft, call, Serving, Answering, Hearing, Telling, Unaddressed
<1>7. ASSUME IsrSlaveNack
      PROVE  Serving'
  BY <1>7, Constants DEF IsrSlaveNack, Enter, Reply, Go, Listening
<1>8. ASSUME IsrSlaveStop, UNCHANGED data
      PROVE  Serving'
  BY <1>8, Constants DEF IsrSlaveStop, Enter, Release, Go, Listening
<1>9. ASSUME NEW n \in 0 .. BUF, IsrSlaveRequest(n), UNCHANGED data
      PROVE  Serving'
  BY <1>9, Constants DEF IsrSlaveRequest, Enter, SlaveByte, Reply, Go, Listening, QueuedByte
<1>10. ASSUME IsrSlaveSend
      PROVE  Serving'
  BY <1>10, Constants DEF IsrSlaveSend, Enter, SlaveByte, Reply, Go, Listening, QueuedByte
<1>11. ASSUME IsrSlaveSent
      PROVE  Serving'
  BY <1>11, Constants DEF IsrSlaveSent, Enter, Release, Go, Listening
<1>12. ASSUME HwStop
      PROVE  Serving'
  BY <1>12, Constants DEF HwStop
<1>13. ASSUME OtherTakes
      PROVE  Serving'
  BY <1>13, Constants DEF OtherTakes
<1>14. ASSUME OtherAddresses
      PROVE  Serving'
  BY <1>14, Constants DEF OtherAddresses, Busy, Raise
<1>15. ASSUME OtherSends
      PROVE  Serving'
  BY <1>15, Constants DEF OtherSends, Busy, Raise
<1>16. ASSUME OtherStops
      PROVE  Serving'
  BY <1>16, Constants DEF OtherStops, Busy, Raise
<1>17. ASSUME OtherReads
      PROVE  Serving'
  BY <1>17, Constants DEF OtherReads, Busy, Raise
<1>18. ASSUME OtherLeaves
      PROVE  Serving'
  BY <1>18, Constants DEF OtherLeaves
<1>19. ASSUME BusNoise
      PROVE  Serving'
  BY <1>19, Constants DEF BusNoise, Busy, Raise
<1>20. ASSUME UNCHANGED vars
      PROVE  Serving'
  BY <1>20 DEF vars, settings
<1> HIDE DEF soft, master, slave, data, call, hard, seen, Running, Serving, Answering, Hearing,
         Telling, Unaddressed, Typed, Safe, InBounds, CallTyped, DriverTyped, HardTyped,
         SeenTyped
<1> QED
  BY <1>1, <1>2, <1>3, <1>4, <1>5, <1>6, <1>7, <1>8, <1>9, <1>10, <1>11, <1>12, <1>13, <1>14, <1>15,
     <1>16, <1>17, <1>18, <1>19, <1>20, SlaveSteps DEF Serving

-----------------------------------------------------------------------------
(* A node that is the only master *)

\* No other master: the bus is free or ours, and no event of a slave occurs.
Alone ==
    /\ bus # "other" /\ link \notin {"sr", "st"}
    /\ status \notin SlaveCodes \union {"ARB_LOST"} /\ state \in {READY, MTX, MRX}

\* Between transfers the peripheral listens, or holds a repeated start with its interrupt
\* off.
Quiet   == twcr = Listening /\ ~twint /\ link = "idle"
Between == isr = "none" /\ IF inRepStart THEN twcr = SilentStart ELSE Quiet

Repeating == {"rep", "rep_clock", "loaded_clock", "rep_go"}
Waiting   == {"wait", "wait_clock"}

\* Who may act: a free driver and a sketch that fills the buffer stand between transfers,
\* a sketch that waits has handed the driver to the handler, and a timeout takes it back.
Turns ==
    /\ state = READY /\ pc # "init" => Between
    /\ pc \in {"setup", "start"} => Between
    /\ inRepStart /\ pc # "init" => state = READY \/ pc \in {"setup", "start"}
    /\ pc \in {"claim", "result"} => state = READY
    /\ pc \in {"setup", "start"} \union Repeating => state = Target
    /\ pc \in Waiting => state \in {READY, Target} /\ (state # READY => "TWIE" \in twcr)
    /\ pc \in Repeating => isr = "none" /\ twcr = SilentStart
    /\ pc \in {"rep_go", "loaded_clock"} => twint /\ twdr = slarw
    /\ pc \in {"disable", "init"} => timeout = "reset" /\ ret = (IF op = "W" THEN 5 ELSE 0)
    /\ pc = "init" => /\ isr = "none" /\ link = "idle" /\ ~twint
                      /\ {"TWEN", "TWIE", "TWSTO"} \intersect twcr = {}
    /\ pc = "idle" /\ ret = 5 /\ timeout = "reset" => state = READY

\* Which events the peripheral can report in each part of a transfer, and what TWCR asks
\* of it.
Codes ==
    /\ link = "idle" => ~twint
    /\ link = "addr" /\ twint => status \in {"START", "REP_START", "BUS_ERROR"}
    /\ link = "mt" /\ twint => status \in {"MT_SLA_ACK", "MT_DATA_ACK", "MT_SLA_NACK",
                                           "MT_DATA_NACK", "MR_SLA_NACK", "BUS_ERROR"}
    /\ link = "mr" /\ twint => status \in {"MR_SLA_ACK", "MR_DATA_ACK", "MR_DATA_NACK",
                                           "BUS_ERROR"}
    /\ twcr = SilentStart => link # "idle" /\ (twint => status \in {"REP_START", "BUS_ERROR"})
    /\ "TWSTO" \in twcr => /\ twcr = Listening \union {"TWSTO"} /\ ~twint
                           /\ timeout = "plain" \/ isr = "stop"
    /\ isr = "stop" /\ "TWSTO" \notin twcr => twcr = Listening /\ link = "idle"
    /\ "TWIE" \in twcr /\ "TWSTA" \in twcr => link \in {"idle", "addr"} /\ (link = "addr" => twint)

\* The transfer under way is the one the sketch set up: its address, and for a read a
\* length that leaves the last byte its place.
Engaged ==
    /\ error # "OVERRUN"
    /\ state \in {MTX, MRX} /\ pc # "setup" =>
         /\ slarw = (IF state = MTX THEN SlaW ELSE SlaR)
         /\ state = MRX => mlength \in 0 .. BUF - 1
         /\ "TWSTA" \in twcr \/ link = "addr" => mindex = 0
         /\ pc = "start" => mindex = 0
         /\ link = "addr" /\ ~twint /\ {"TWSTA", "TWSTO"} \intersect twcr = {} => twdr = slarw

\* A reception acknowledges a byte exactly if it is not the last one, so the capacity
\* check never bites.
Receiving == link = "mr" /\ "TWIE" \in twcr /\ "TWSTO" \notin twcr /\ status # "BUS_ERROR"
Acking ==
    Receiving =>
       /\ state = MRX /\ mindex <= mlength
       /\ IF twint THEN status = "MR_DATA_ACK" => mindex < mlength
          ELSE status \in {"MR_SLA_ACK", "MR_DATA_ACK"} => ("TWEA" \in twcr <=> mindex < mlength)

\* What a node that is the only master keeps.
Owner == Alone /\ Turns /\ Codes /\ Engaged /\ Acking

\* The steps of a node that is the only master.
LEMMA MasterSteps ==
    ASSUME role = "master", Alone, [Next]_vars
    PROVE  \/ UNCHANGED vars
           \/ (\E o \in Ops, n \in 0 .. BUF + 1, s \in BOOLEAN : Call(o, n, s))
           \/ WaitReady
           \/ Claim
           \/ Setup
           \/ Start
           \/ RepLoad
           \/ RepGo
           \/ WaitDone
           \/ Result
           \/ TimeoutMain
           \/ Disable
           \/ InitMain
           \/ ClearTimeoutFlag
           \/ IsrStart
           \/ IsrSend
           \/ IsrNack
           \/ IsrReceive
           \/ IsrReceiveLast
           \/ IsrStopDone
           \/ IsrStopTimeout
           \/ HwStart
           \/ HwStop
           \/ HwAddress
           \/ HwSend
           \/ HwReceive
           \/ BusNoise
BY DEF IsrLost, IsrSlaveReceive, IsrSlaveByte, IsrSlaveNack, IsrSlaveSend, IsrSlaveSent,
   IsrSlaveStop, IsrSlaveRequest, OtherTakes, OtherWins, OtherAddresses, OtherSends, OtherStops,
   OtherReads, OtherLeaves, Next, Sketch, Calls, CallStep, Handler, MasterHandler, SlaveHandler,
   Callbacks, Peripheral, Others, Wait, ClockOk, vars, settings, soft, master, slave, data,
   call, hard, seen, Alone, SlaveCodes, Enter

\* Each of them keeps the five parts of the invariant.
LEMMA MasterStep ==
    ASSUME role = "master", Owner, Typed, [Next]_vars
    PROVE  Owner'
<1>0. UNCHANGED <<timeout, role>>
  BY DEF Next, vars, settings
<1> USE DEF soft, master, slave, data, call, hard, seen, Running, Owner, Alone, Turns, Codes,
        Engaged, Acking, Quiet, Between, Repeating, Waiting, Receiving, SlaveCodes, READY, MTX,
        MRX, SilentStart, Target, Listening, Typed, Safe, InBounds, Accepted, CallTyped,
        DriverTyped, HardTyped
<1>1. ASSUME NEW o \in Ops, NEW n \in 0 .. BUF + 1, NEW s \in BOOLEAN, Call(o, n, s)
      PROVE  Owner'
  BY <1>1, <1>0, Constants, TimeoutAssumption DEF Call, Refused
<1>2. ASSUME WaitReady
      PROVE  Owner'
  BY <1>2, <1>0, Constants, TimeoutAssumption DEF WaitReady, Wait, ClockOk, ReadsClock, MayClaim
<1>3. ASSUME Claim
      PROVE  Owner'
  BY <1>3, <1>0, Constants, TimeoutAssumption DEF Claim
<1>4. ASSUME Setup
      PROVE  Owner'
  BY <1>4, <1>0, Constants, TimeoutAssumption DEF Setup, LastIndex, FirstIndex, FreshError, NoError
<1>5. ASSUME Start
      PROVE  Owner'
  BY <1>5, <1>0, Constants, TimeoutAssumption DEF Start, Go
<1>6. ASSUME RepLoad
      PROVE  Owner'
  BY <1>6, <1>0, Constants, TimeoutAssumption DEF RepLoad, ReadsClock
<1>7. ASSUME RepGo
      PROVE  Owner'
  BY <1>7, <1>0, Constants, TimeoutAssumption DEF RepGo, Go
<1>8. ASSUME WaitDone
      PROVE  Owner'
  BY <1>8, <1>0, Constants, TimeoutAssumption, SMTT(30) DEF WaitDone, Wait, ClockOk, ReadsClock
<1>9. ASSUME Result
      PROVE  Owner'
  BY <1>9, <1>0, Constants, TimeoutAssumption DEF Result, Code, Smaller
<1>10. ASSUME TimeoutMain
      PROVE  Owner'
  BY <1>10, <1>0, Constants, TimeoutAssumption DEF TimeoutMain
<1>11. ASSUME Disable
      PROVE  Owner'
  BY <1>11, <1>0, Constants, TimeoutAssumption DEF Disable, Disabled
<1>12. ASSUME InitMain
      PROVE  Owner'
  BY <1>12, <1>0, Constants, TimeoutAssumption DEF InitMain, Initialise, InitState
<1>13. ASSUME ClearTimeoutFlag
      PROVE  Owner'
  BY <1>13, <1>0, Constants, TimeoutAssumption DEF ClearTimeoutFlag
<1>14. ASSUME IsrStart
      PROVE  Owner'
  BY <1>14, <1>0, Constants, TimeoutAssumption DEF IsrStart, Enter, Reply, Go
<1>15. ASSUME IsrSend
      PROVE  Owner'
  BY <1>15, <1>0, Constants, TimeoutAssumption DEF IsrSend, Enter, Finish, Stop, Reply, Go,
     MoreToSend
<1>16. ASSUME IsrNack
      PROVE  Owner'
  BY <1>16, <1>0, Constants, TimeoutAssumption DEF IsrNack, Enter, Stop, Go
<1>17. ASSUME IsrReceive
      PROVE  Owner'
  BY <1>17, <1>0, Constants, TimeoutAssumption DEF IsrReceive, Enter, Stop, Reply, Go
<1>18. ASSUME IsrReceiveLast
      PROVE  Owner'
  BY <1>18, <1>0, Constants, TimeoutAssumption DEF IsrReceiveLast, Enter, Finish, Stop, Go
<1>19. ASSUME IsrStopDone
      PROVE  Owner'
  BY <1>19, <1>0, Constants, TimeoutAssumption DEF IsrStopDone, Freed
<1>20. ASSUME IsrStopTimeout
      PROVE  Owner'
  <2>1. Alone'
    BY <1>20, <1>0, Constants, TimeoutAssumption DEF IsrStopTimeout, Initialise, InitState
  <2>2. Turns'
    BY <1>20, <1>0, Constants, TimeoutAssumption DEF IsrStopTimeout, Initialise, InitState
  <2>3. Codes'
    <3>1. CASE timeout = "reset"
      BY <3>1, <1>20, <1>0, Constants, TimeoutAssumption DEF IsrStopTimeout, Initialise, InitState
    <3>2. CASE timeout # "reset"
      BY <3>2, <1>20, <1>0, Constants, TimeoutAssumption DEF IsrStopTimeout, Initialise, InitState
    <3> QED
      BY <3>1, <3>2
  <2>4. Engaged'
    BY <1>20, <1>0, Constants, TimeoutAssumption DEF IsrStopTimeout, Initialise, InitState
  <2>5. Acking'
    BY <1>20, <1>0, Constants, TimeoutAssumption DEF IsrStopTimeout, Initialise, InitState
  <2> QED
    BY <2>1, <2>2, <2>3, <2>4, <2>5 DEF Owner
<1>21. ASSUME HwStart
      PROVE  Owner'
  BY <1>21, <1>0, Constants, TimeoutAssumption DEF HwStart, Busy, Raise
<1>22. ASSUME HwStop
      PROVE  Owner'
  BY <1>22, <1>0, Constants, TimeoutAssumption DEF HwStop
<1>23. ASSUME HwAddress
      PROVE  Owner'
  BY <1>23, <1>0, Constants, TimeoutAssumption DEF HwAddress, Busy, Raise
<1>24. ASSUME HwSend
      PROVE  Owner'
  BY <1>24, <1>0, Constants, TimeoutAssumption DEF HwSend, Busy, Raise
<1>25. ASSUME HwReceive
      PROVE  Owner'
  BY <1>25, <1>0, Constants, TimeoutAssumption DEF HwReceive, Busy, Raise
<1>26. ASSUME BusNoise
      PROVE  Owner'
  BY <1>26, <1>0, Constants, TimeoutAssumption DEF BusNoise, Busy, Raise
<1>27. ASSUME UNCHANGED vars
      PROVE  Owner'
  BY <1>27 DEF vars, settings, soft, master, slave, data, call, hard, seen, Owner, Alone, Turns,
     Codes,
     Engaged, Acking, Quiet, Between, Repeating, Waiting, Receiving, SlaveCodes, READY, MTX,
     MRX, SilentStart, Target, Listening
<1> HIDE DEF soft, master, slave, data, call, hard, seen, Running, Owner, Alone, Turns, Codes,
         Engaged, Acking, Quiet, Between, Repeating, Waiting, Receiving, SlaveCodes, READY, MTX,
         MRX, SilentStart, Target, Listening, Typed, Safe, InBounds, Accepted, CallTyped,
         DriverTyped, HardTyped
<1> QED
  BY <1>0, <1>1, <1>2, <1>3, <1>4, <1>5, <1>6, <1>7, <1>8, <1>9, <1>10, <1>11, <1>12, <1>13, <1>14,
     <1>15, <1>16, <1>17, <1>18, <1>19, <1>20, <1>21, <1>22, <1>23, <1>24, <1>25, <1>26, <1>27,
     MasterSteps DEF Owner

-----------------------------------------------------------------------------
(* What a call tells, and what happened on the wire *)

\* Of a write: the buffer holds the message, and so much of it passed on the wire.
Sent(k)    == <<SlaW>> \o [x \in 1 .. k |-> out[x - 1]]
Filled     == \A x \in 0 .. len - 1 : mbuf[x] = out[x]
SentAll    == wire = Sent(mindex)
SentButOne == wire = Sent(mindex - 1) /\ twdr = out[mindex - 1]

\* Of a read: the bytes stored, or handed over, are the first ones of the device.
Stored == \A x \in 1 .. mindex : mbuf[x - 1] = -x /\ x < Len(wire) /\ wire[x + 1] = -x
Given  == \A x \in 1 .. ret : in[x - 1] = -x /\ x < Len(wire) /\ wire[x + 1] = -x

\* A call that has not started its transfer finds buffer, history and error fresh.
Freshly == {"start"} \union Repeating
InCall  == Freshly \union Waiting \union {"result"}
Loaded ==
    /\ pc \in InCall => mlength = LastIndex /\ (op = "W" => Filled)
    /\ pc \in Freshly => wire = <<>> /\ mindex = 0 /\ error = NoError

\* How a write can end: all of it acknowledged, or with the error that happened.
Outcome ==
    \/ error = NoError /\ wire = Message
    \/ error = "MT_SLA_NACK" /\ answer = "addrNack" /\ ~inRepStart
    \/ error = "MT_DATA_NACK" /\ answer = "dataNack" /\ ~inRepStart
    \/ error = "BUS_ERROR" /\ answer = "busError" /\ ~inRepStart

\* A write under way: the bytes before mindex passed, but for the one in TWDR.
WriteSoFar ==
    /\ pc = "result" \/ (pc \in Waiting /\ (state = READY \/ isr = "stop")) => Outcome
    /\ pc \in Waiting /\ isr = "none" /\ state = MTX /\ "TWSTO" \notin twcr =>
       /\ "TWSTA" \in twcr \/ link = "addr" => wire = <<>> /\ error = NoError
       /\ link = "mt" /\ status \in {"MT_SLA_ACK", "MT_DATA_ACK"} =>
            /\ error = NoError /\ mindex <= mlength
            /\ IF twint THEN SentAll ELSE mindex > 0 /\ SentButOne
       /\ twint /\ status = "MT_SLA_NACK" => answer = "addrNack"
       /\ twint /\ status = "MT_DATA_NACK" => answer = "dataNack"
       /\ twint => status # "MR_SLA_NACK"
       /\ twint /\ status = "BUS_ERROR" => answer = "busError"
Written == op = "W" => WriteSoFar

\* A read under way: the bytes that passed are stored, but for the one in TWDR.
ReadSoFar ==
    /\ pc \in InCall => Stored
    /\ pc \in Waiting /\ state = MRX =>
       /\ "TWSTA" \in twcr \/ link = "addr" => wire = <<>>
       /\ link = "mt" => status \in {"MR_SLA_NACK", "BUS_ERROR"}
       /\ Receiving =>
           IF ~twint \/ status = "MR_SLA_ACK"
           THEN Len(wire) = mindex + 1
           ELSE Len(wire) = mindex + 2 /\ twdr = -(mindex + 1) /\ wire[mindex + 2] = twdr
Read == op = "R" => ReadSoFar

\* A finished call.
Answered ==
    pc = "idle" /\ len <= BUF =>
      /\ op = "W" /\ ret \in {0, 2, 3, 4} => state = READY
      /\ op = "W" /\ ret = 0 => wire = Message
      /\ op = "W" /\ ret = 2 => ~inRepStart /\ answer = "addrNack"
      /\ op = "W" /\ ret = 3 => ~inRepStart /\ answer = "dataNack"
      /\ op = "W" /\ ret = 4 => ~inRepStart /\ answer = "busError"
      /\ op = "R" /\ ret > 0 => state = READY /\ ret <= len /\ Given

\* What is kept of the calls of the only master.
Told == Loaded /\ Written /\ Read /\ Answered

\* A message is the address and then the bytes of the caller.
LEMMA SentShape ==
    ASSUME NEW f, f \in [0 .. BUF - 1 -> Int], NEW k \in 0 .. BUF
    PROVE  LET s == <<SlaW>> \o [x \in 1 .. k |-> f[x - 1]]
           IN  /\ s \in Seq(Int) /\ Len(s) = k + 1 /\ s[1] = SlaW
               /\ \A x \in 2 .. k + 1 : s[x] = f[x - 2]
<1> DEFINE t == [x \in 1 .. k |-> f[x - 1]]
<1>1. t \in Seq(Int) /\ Len(t) = k
  BY Constants
<1>2. <<SlaW>> \in Seq(Int) /\ Len(<<SlaW>>) = 1 /\ <<SlaW>>[1] = SlaW
  BY DEF SlaW
<1>3. \A x \in 1 .. k : t[x] = f[x - 1]
  OBVIOUS
<1> HIDE DEF t
<1>4. <<SlaW>> \o t \in Seq(Int) /\ Len(<<SlaW>> \o t) = k + 1 /\ (<<SlaW>> \o t)[1] = SlaW
  BY <1>1, <1>2, ConcatProperties
<1>5. ASSUME NEW x \in 2 .. k + 1
      PROVE  (<<SlaW>> \o t)[x] = f[x - 2]
  <2>1. (<<SlaW>> \o t)[x] = t[x - 1]
    BY <1>1, <1>2, ConcatProperties
  <2>2. x - 1 \in 1 .. k /\ (x - 1) - 1 = x - 2
    OBVIOUS
  <2> QED
    BY <2>1, <2>2, <1>3
<1> QED
  BY <1>4, <1>5 DEF t

\* The address alone begins a message.
LEMMA SentFirst ==
    ASSUME out \in [0 .. BUF - 1 -> Int]
    PROVE  Append(<<>>, SlaW) = Sent(0)
<1>1. Sent(0) \in Seq(Int) /\ Len(Sent(0)) = 1 /\ Sent(0)[1] = SlaW
  BY SentShape, Constants DEF Sent
<1>2. Append(<<>>, SlaW) \in Seq(Int) /\ Len(Append(<<>>, SlaW)) = 1 /\ Append(<<>>, SlaW)[1] = SlaW
  BY DEF SlaW
<1> QED
  BY <1>1, <1>2, SeqEqual

\* The next byte of the caller continues it.
LEMMA SentNext ==
    ASSUME out \in [0 .. BUF - 1 -> Int], NEW k \in 1 .. BUF
    PROVE  Append(Sent(k - 1), out[k - 1]) = Sent(k)
<1> DEFINE a == Append(Sent(k - 1), out[k - 1])
<1>1. Sent(k) \in Seq(Int) /\ Len(Sent(k)) = k + 1 /\ Sent(k)[1] = SlaW
      /\ \A x \in 2 .. k + 1 : Sent(k)[x] = out[x - 2]
  BY SentShape, Constants DEF Sent
<1>2. Sent(k - 1) \in Seq(Int) /\ Len(Sent(k - 1)) = k /\ Sent(k - 1)[1] = SlaW
      /\ \A x \in 2 .. k : Sent(k - 1)[x] = out[x - 2]
  <2>1. k - 1 \in 0 .. BUF /\ (k - 1) + 1 = k
    BY Constants
  <2> QED
    BY <2>1, SentShape DEF Sent
<1>3. out[k - 1] \in Int
  BY Constants
<1>4. a \in Seq(Int) /\ Len(a) = k + 1 /\ a[k + 1] = out[k - 1]
      /\ \A x \in 1 .. k : a[x] = Sent(k - 1)[x]
  BY <1>2, <1>3, AppendProperties
<1> HIDE DEF a
<1>5. ASSUME NEW x \in 1 .. k + 1
      PROVE  a[x] = Sent(k)[x]
  <2>1. CASE x = 1
    BY <2>1, <1>1, <1>2, <1>4
  <2>2. CASE x \in 2 .. k
    BY <2>2, <1>1, <1>2, <1>4
  <2>3. CASE x = k + 1
    BY <2>3, <1>1, <1>4
  <2> QED
    BY <2>1, <2>2, <2>3
<1>6. a = Sent(k)
  BY <1>1, <1>4, <1>5, SeqEqual
<1> QED
  BY <1>6 DEF a
\* A byte that follows on the wire leaves the bytes stored where they are.
LEMMA StoredKept ==
    ASSUME Stored, wire \in Seq(Int), mindex \in 0 .. BUF, NEW b \in Int,
           wire' = Append(wire, b), UNCHANGED <<mindex, mbuf>>
    PROVE  Stored'
<1>1. /\ Len(wire) \in Nat /\ Len(wire') = Len(wire) + 1
      /\ \A x \in 1 .. Len(wire) : wire'[x] = wire[x]
  BY LenProperties, AppendProperties
<1>2. ASSUME NEW x \in 1 .. mindex
      PROVE  mbuf[x - 1] = -x /\ x < Len(wire') /\ wire'[x + 1] = -x
  <2>1. mbuf[x - 1] = -x /\ x < Len(wire) /\ wire[x + 1] = -x
    BY DEF Stored
  <2>2. x + 1 \in 1 .. Len(wire) /\ x \in Nat
    BY <2>1, <1>1, Constants
  <2> QED
    BY <2>1, <2>2, <1>1
<1> QED
  BY <1>2 DEF Stored

\* The byte that is stored is the one that passed last.
LEMMA StoredNext ==
    ASSUME Stored, mbuf \in [0 .. BUF - 1 -> Int], mindex \in 0 .. BUF - 1,
           Len(wire) = mindex + 2, wire[mindex + 2] = twdr, twdr = -(mindex + 1),
           mbuf' = [mbuf EXCEPT ![mindex] = twdr], mindex' = mindex + 1, wire' = wire
    PROVE  Stored'
<1>1. ASSUME NEW x \in 1 .. mindex + 1
      PROVE  mbuf'[x - 1] = -x /\ x < Len(wire) /\ wire[x + 1] = -x
  <2>1. CASE x = mindex + 1
    BY <2>1, Constants
  <2>2. CASE x # mindex + 1
    <3>1. x \in 1 .. mindex /\ x - 1 \in 0 .. BUF - 1 /\ x - 1 # mindex
      BY <2>2, Constants
    <3> QED
      BY <3>1 DEF Stored
  <2> QED
    BY <2>1, <2>2
<1> QED
  BY <1>1 DEF Stored

\* What readFrom() copies was stored.
LEMMA GivenStored ==
    ASSUME Stored, mindex \in 0 .. BUF, ret' \in 0 .. mindex, wire' = wire,
           in' = [x \in 0 .. BUF - 1 |-> IF x < ret' THEN mbuf[x] ELSE in[x]]
    PROVE  Given'
<1>1. ASSUME NEW x \in 1 .. ret'
      PROVE  in'[x - 1] = -x /\ x < Len(wire) /\ wire[x + 1] = -x
  <2>1. x \in 1 .. mindex /\ x - 1 \in 0 .. BUF - 1 /\ x - 1 < ret'
    BY Constants
  <2>2. in'[x - 1] = mbuf[x - 1]
    BY <2>1
  <2> QED
    BY <2>1, <2>2 DEF Stored
<1> QED
  BY <1>1 DEF Given

\* The same of the next state: the address begins the message, a byte continues it.
LEMMA AddressSent ==
    ASSUME Typed, wire = <<>>, mindex = 0, twdr = SlaW,
           wire' = Append(wire, twdr), UNCHANGED <<mindex, out>>
    PROVE  SentAll'
<1>1. wire' = Sent(0)
  BY SentFirst DEF Typed, BufferTyped
<1>2. Sent(mindex)' = Sent(0)
  BY DEF Sent
<1> QED
  BY <1>1, <1>2 DEF SentAll

\* A byte after the ones that passed makes all of them.
LEMMA ByteSent ==
    ASSUME Typed, SentButOne, mindex > 0,
           wire' = Append(wire, twdr), UNCHANGED <<mindex, out>>
    PROVE  SentAll'
<1>1. mindex \in 1 .. BUF
  BY Constants DEF Typed, Safe, InBounds
<1>2. wire' = Append(Sent(mindex - 1), out[mindex - 1])
  BY DEF SentButOne
<1>3. wire' = Sent(mindex)
  BY <1>1, <1>2, SentNext DEF Typed, BufferTyped
<1>4. Sent(mindex)' = Sent(mindex)
  BY DEF Sent
<1> QED
  BY <1>3, <1>4 DEF SentAll

\* What a step leaves alone, it leaves alone in the parts of the story too: the message of
\* the caller never changes during a call.
LEMMA Frames ==
    ASSUME [Next]_vars
    PROVE  /\ out' = out
           /\ UNCHANGED <<mbuf, len>> => (Filled' <=> Filled)
           /\ UNCHANGED <<op, len>> => LastIndex' = LastIndex /\ Message' = Message
           /\ UNCHANGED <<wire, mindex>> => (SentAll' <=> SentAll)
           /\ UNCHANGED <<wire, mindex, twdr>> => (SentButOne' <=> SentButOne)
           /\ UNCHANGED <<wire, mindex, mbuf>> => (Stored' <=> Stored)
           /\ UNCHANGED <<wire, in, ret>> => (Given' <=> Given)
<1>1. out' = out
  BY BufferWriters DEF Setup, Result, IsrReceive, IsrReceiveLast, data
<1> QED
  BY <1>1 DEF Filled, Message, LastIndex, SentAll, SentButOne, Sent, Stored, Given

\* Every step of the only master keeps the story: what passed on the wire, what the buffer
\* holds and what the finished call answered tell the same.
LEMMA StoryStep ==
    ASSUME role = "master", Owner, Owner', Told, Typed, Typed', [Next]_vars
    PROVE  Told'
<1>0. UNCHANGED <<timeout, role>>
  BY DEF Next, vars, settings
<1> USE DEF soft, master, slave, data, call, hard, seen, Running, Owner, Alone, Turns, Codes,
        Engaged, Acking, Quiet, Between, Repeating, Waiting, Receiving, SlaveCodes, READY, MTX,
        MRX, SilentStart, Target, Listening, Typed, Safe, InBounds, Accepted, CallTyped,
        DriverTyped, HardTyped, Told, Loaded, Written, Read, Answered, WriteSoFar, ReadSoFar,
        Outcome, Freshly, InCall
<1>1. ASSUME NEW o \in Ops, NEW n \in 0 .. BUF + 1, NEW s \in BOOLEAN, Call(o, n, s)
      PROVE  Told'
  BY <1>1, <1>0, Frames, Constants, TimeoutAssumption DEF Call, Refused
<1>2. ASSUME WaitReady
      PROVE  Told'
  BY <1>2, <1>0, Frames, Constants, TimeoutAssumption DEF WaitReady, Wait, ClockOk, ReadsClock,
     MayClaim
<1>3. ASSUME Claim
      PROVE  Told'
  BY <1>3, <1>0, Frames, Constants, TimeoutAssumption DEF Claim
<1>4. ASSUME Setup
      PROVE  Told'
  <2>1. op = "W" => Filled'
    BY <1>4, Constants DEF Setup, Filled
  <2>2. Stored'
    BY <1>4, Constants DEF Setup, FirstIndex, Stored
  <2>3. Loaded'
    BY <2>1, <1>4, <1>0, Frames, Constants, TimeoutAssumption DEF Setup, LastIndex, FirstIndex,
       FreshError, NoError
  <2>4. Written'
    BY <1>4, <1>0, Frames, Constants, TimeoutAssumption DEF Setup, LastIndex, FirstIndex,
       FreshError, NoError
  <2>5. Read'
    BY <2>2, <1>4, <1>0, Frames, Constants, TimeoutAssumption DEF Setup, LastIndex, FirstIndex,
       FreshError, NoError
  <2>6. Answered'
    BY <1>4, <1>0, Frames, Constants, TimeoutAssumption DEF Setup, LastIndex, FirstIndex,
       FreshError, NoError
  <2> QED
    BY <2>3, <2>4, <2>5, <2>6
<1>5. ASSUME Start
      PROVE  Told'
  BY <1>5, <1>0, Frames, Constants, TimeoutAssumption DEF Start, Go
<1>6. ASSUME RepLoad
      PROVE  Told'
  BY <1>6, <1>0, Frames, Constants, TimeoutAssumption DEF RepLoad, ReadsClock
<1>7. ASSUME RepGo
      PROVE  Told'
  BY <1>7, <1>0, Frames, Constants, TimeoutAssumption DEF RepGo, Go
<1>8. ASSUME WaitDone
      PROVE  Told'
  <2>1. Loaded'
    BY <1>8, <1>0, Frames, Constants, TimeoutAssumption, SMTT(30) DEF WaitDone, Wait, ClockOk, ReadsClock
  <2>2. Written'
    BY <1>8, <1>0, Frames, Constants, TimeoutAssumption, SMTT(30) DEF WaitDone, Wait, ClockOk, ReadsClock
  <2>3. Read'
    BY <1>8, <1>0, Frames, Constants, TimeoutAssumption, ZenonT(30) DEF WaitDone, Wait, ClockOk, ReadsClock
  <2>4. Answered'
    BY <1>8, <1>0, Frames, Constants, TimeoutAssumption DEF WaitDone, Wait, ClockOk, ReadsClock
  <2> QED
    BY <2>1, <2>2, <2>3, <2>4
<1>9. ASSUME Result
      PROVE  Told'
  <2>1. op = "R" => ret' \in 0 .. mindex /\ ret' <= len /\ Given'
    BY <1>9, GivenStored, Constants DEF Result, Smaller, NoError
  <2>2. Loaded'
    BY <1>9, <1>0, Frames, Constants, TimeoutAssumption DEF Result, Code, Smaller, NoError
  <2>3. Written'
    BY <1>9, <1>0, Frames, Constants, TimeoutAssumption DEF Result, Code, Smaller, NoError
  <2>4. Read'
    BY <1>9, <1>0, Frames, Constants, TimeoutAssumption DEF Result, Code, Smaller, NoError
  <2>5. Answered'
    BY <2>1, <1>9, <1>0, Frames, Constants, TimeoutAssumption DEF Result, Code, Smaller, NoError
  <2> QED
    BY <2>2, <2>3, <2>4, <2>5
<1>10. ASSUME TimeoutMain
      PROVE  Told'
  BY <1>10, <1>0, Frames, Constants, TimeoutAssumption DEF TimeoutMain
<1>11. ASSUME Disable
      PROVE  Told'
  BY <1>11, <1>0, Frames, Constants, TimeoutAssumption DEF Disable, Disabled
<1>12. ASSUME InitMain
      PROVE  Told'
  BY <1>12, <1>0, Frames, Constants, TimeoutAssumption DEF InitMain, Initialise, InitState
<1>13. ASSUME ClearTimeoutFlag
      PROVE  Told'
  BY <1>13, <1>0, Frames, Constants, TimeoutAssumption DEF ClearTimeoutFlag
<1>14. ASSUME IsrStart
      PROVE  Told'
  BY <1>14, <1>0, Frames, Constants, TimeoutAssumption DEF IsrStart, Enter, Reply, Go
<1>15. ASSUME IsrSend
      PROVE  Told'
  <2>1. pc \in InCall => pc \in Waiting /\ state = Target /\ link = "mt" /\ isr = "none" /\ twint
    BY <1>15 DEF IsrSend, Enter
  <2>2. Loaded'
    BY <2>1, <1>15, Frames DEF IsrSend
  <2>3. Written'
    <3>1. SUFFICES ASSUME op = "W", pc \in Waiting
                   PROVE  WriteSoFar'
      BY <2>1, <1>15 DEF IsrSend
    <3>2. /\ state = MTX /\ error = NoError /\ SentAll /\ Filled /\ mlength = len /\ mindex \in 0 .. len
          /\ "TWSTO" \notin twcr
      BY <2>1, <3>1, <1>15 DEF IsrSend, Enter, LastIndex
    <3>3. CASE MoreToSend
      <4>1. SentButOne' /\ mindex' = mindex + 1 /\ mindex < mlength
        BY <3>2, <3>3, <1>15, Frames, Constants DEF IsrSend, MoreToSend, SentAll, SentButOne,
           Filled, Sent
      <4> QED
        BY <2>1, <3>1, <3>2, <3>3, <4>1, <1>15, Constants DEF IsrSend, Reply, Go
    <3>4. CASE ~MoreToSend
      <4>1. mindex = len
        BY <3>2, <3>4 DEF MoreToSend
      <4>2. Outcome'
        BY <3>2, <3>4, <4>1, <1>15, Frames DEF IsrSend, SentAll, Sent, Message
      <4> QED
        BY <3>1, <3>2, <3>4, <4>2, <1>15 DEF IsrSend, Finish, Stop, Go
    <3> QED
      BY <3>3, <3>4
  <2>4. Read'
    BY <2>1, <1>15 DEF IsrSend, Enter
  <2>5. Answered'
    BY <1>15, <1>0, Frames DEF IsrSend, Enter, Finish, Stop, Reply, Go
  <2> QED
    BY <2>2, <2>3, <2>4, <2>5
<1>16. ASSUME IsrNack
      PROVE  Told'
  BY <1>16, <1>0, Frames, Constants, TimeoutAssumption DEF IsrNack, Enter, Stop, Go
<1>17. ASSUME IsrReceive
      PROVE  Told'
  <2>1. /\ link = "mr" /\ state = MRX /\ isr = "none" /\ twint
        /\ pc \in InCall => pc \in Waiting /\ op = "R"
    BY <1>17 DEF IsrReceive, Enter
  <2>2. op = "R" /\ pc \in Waiting /\ status = "MR_DATA_ACK" =>
          Stored' /\ mindex' = mindex + 1 /\ Len(wire') = mindex + 2
    <3>1. SUFFICES ASSUME op = "R", pc \in Waiting, status = "MR_DATA_ACK"
                   PROVE  Stored' /\ mindex' = mindex + 1 /\ Len(wire') = mindex + 2
      OBVIOUS
    <3>2. /\ mindex \in 0 .. BUF - 1 /\ Stored
          /\ Len(wire) = mindex + 2 /\ twdr = -(mindex + 1) /\ wire[mindex + 2] = twdr
      BY <2>1, <3>1, <1>17, Constants DEF IsrReceive, Enter
    <3>3. mbuf' = [mbuf EXCEPT ![mindex] = twdr] /\ mindex' = mindex + 1 /\ wire' = wire
      BY <3>1, <3>2, <1>17, Constants DEF IsrReceive
    <3> QED
      BY <3>2, <3>3, StoredNext DEF BufferTyped
  <2>3. Loaded'
    BY <2>1, <1>17, Frames DEF IsrReceive
  <2>4. Written'
    BY <2>1, <1>17 DEF IsrReceive
  <2>5. Read'
    <3>1. SUFFICES ASSUME op = "R", pc \in Waiting
                   PROVE  ReadSoFar'
      BY <2>1, <1>17 DEF IsrReceive
    <3>2. CASE status = "MR_DATA_ACK"
      <4>1. "TWSTA" \notin twcr' /\ ~twint' /\ UNCHANGED <<link, pc, op, status>>
        BY <3>2, <1>17 DEF IsrReceive, Reply, Go, Stop
      <4>2. Len(wire') = mindex' + 1 /\ Stored'
        <5>1. mindex \in Nat
          BY Constants
        <5> HIDE DEF Owner, Told, Typed
        <5> QED
          BY <2>2, <3>1, <3>2, <5>1
      <4> QED
        BY <2>1, <3>1, <4>1, <4>2
    <3>3. CASE status = "MR_SLA_ACK"
      BY <2>1, <3>1, <3>3, <1>17, Frames DEF IsrReceive, Enter, Reply, Go
    <3> QED
      BY <3>2, <3>3, <1>17 DEF IsrReceive, Enter
  <2>6. Answered'
    BY <2>1, <1>17, <1>0, Frames DEF IsrReceive, Enter, Stop, Reply, Go
  <2> QED
    BY <2>3, <2>4, <2>5, <2>6
<1>18. ASSUME IsrReceiveLast
      PROVE  Told'
  <2>1. /\ link = "mr" /\ state = MRX /\ isr = "none" /\ twint
        /\ pc \in InCall => pc \in Waiting /\ op = "R"
    BY <1>18 DEF IsrReceiveLast, Enter
  <2>2. op = "R" /\ pc \in Waiting => Stored' /\ mindex' = mindex + 1 /\ Len(wire') = mindex + 2
    <3>1. SUFFICES ASSUME op = "R", pc \in Waiting
                   PROVE  Stored' /\ mindex' = mindex + 1 /\ Len(wire') = mindex + 2
      OBVIOUS
    <3>2. /\ mindex \in 0 .. BUF - 1 /\ Stored
          /\ Len(wire) = mindex + 2 /\ twdr = -(mindex + 1) /\ wire[mindex + 2] = twdr
      BY <2>1, <3>1, <1>18, Constants DEF IsrReceiveLast, Enter
    <3>3. mbuf' = [mbuf EXCEPT ![mindex] = twdr] /\ mindex' = mindex + 1 /\ wire' = wire
      BY <3>1, <3>2, <1>18, Constants DEF IsrReceiveLast
    <3> QED
      BY <3>2, <3>3, StoredNext DEF BufferTyped
  <2>3. Loaded'
    BY <2>1, <1>18, Frames DEF IsrReceiveLast
  <2>4. Written'
    BY <2>1, <1>18 DEF IsrReceiveLast
  <2>5. Read'
    BY <2>1, <2>2, <1>18 DEF IsrReceiveLast, Enter, Finish, Stop, Go
  <2>6. Answered'
    BY <2>1, <1>18, <1>0, Frames DEF IsrReceiveLast, Enter, Finish, Stop, Go
  <2> QED
    BY <2>3, <2>4, <2>5, <2>6
<1>19. ASSUME IsrStopDone
      PROVE  Told'
  BY <1>19, <1>0, Frames, Constants, TimeoutAssumption DEF IsrStopDone, Freed
<1>20. ASSUME IsrStopTimeout
      PROVE  Told'
  BY <1>20, <1>0, Frames, Constants, TimeoutAssumption DEF IsrStopTimeout, Initialise, InitState
<1>21. ASSUME HwStart
      PROVE  Told'
  BY <1>21, <1>0, Frames, Constants, TimeoutAssumption DEF HwStart, Busy, Raise
<1>22. ASSUME HwStop
      PROVE  Told'
  BY <1>22, <1>0, Frames, Constants, TimeoutAssumption DEF HwStop
<1>23. ASSUME HwAddress
      PROVE  Told'
  <2>1. /\ link = "addr" /\ ~twint /\ {"TWSTA", "TWSTO"} \intersect twcr = {}
        /\ "TWEN" \in twcr /\ isr = "none"
        /\ pc \in InCall => pc \in Waiting /\ state = Target
    BY <1>23 DEF HwAddress, Busy
  <2>2. pc \in InCall => wire = <<>> /\ mindex = 0 /\ twdr = slarw /\ (op = "W" => error = NoError)
    BY <2>1, <1>23 DEF Target
  <2>3. Loaded'
    BY <2>1, <1>23, Frames DEF HwAddress
  <2>4. Written'
    <3>1. SUFFICES ASSUME op = "W", pc \in Waiting
                   PROVE  WriteSoFar'
      BY <2>1, <1>23 DEF HwAddress
    <3>2. wire' = Append(wire, twdr) => SentAll'
      BY <2>1, <2>2, <3>1, <1>23, AddressSent, Frames DEF HwAddress, Target
    <3> QED
      BY <2>1, <2>2, <3>1, <3>2, <1>23, Constants DEF HwAddress, Raise, Target
  <2>5. Read'
    <3>1. SUFFICES ASSUME op = "R", pc \in Waiting
                   PROVE  ReadSoFar'
      BY <2>1, <1>23 DEF HwAddress
    <3>2. Stored'
      BY <2>2, <3>1, <1>23, Constants DEF HwAddress, Stored
    <3>3. wire' = Append(wire, twdr) => Len(wire') = 1
      BY <2>2, <3>1, <1>23 DEF HwAddress
    <3>4. \/ status' = "MR_SLA_ACK" /\ link' = "mr" /\ wire' = Append(wire, twdr)
          \/ status' = "MR_SLA_NACK" /\ link' = "mt"
      <4>1. twdr = SlaR
        BY <2>1, <2>2, <3>1 DEF Target
      <4> HIDE DEF Owner, Told, Typed
      <4> QED
        BY <4>1, <1>23 DEF HwAddress, Raise, SlaW, SlaR
    <3> QED
      BY <2>1, <2>2, <3>1, <3>2, <3>3, <3>4, <1>23 DEF HwAddress, Raise
  <2>6. Answered'
    BY <2>1, <1>23, <1>0, Frames DEF HwAddress, Raise
  <2> QED
    BY <2>3, <2>4, <2>5, <2>6
<1>24. ASSUME HwSend
      PROVE  Told'
  <2>1. SentButOne /\ mindex > 0 /\ wire' = Append(wire, twdr) => SentAll'
    BY <1>24, ByteSent, Frames DEF HwSend
  <2>2. Stored => Stored'
    BY <1>24, StoredKept, Frames DEF HwSend, SeenTyped
  <2>3. Loaded'
    BY <1>24, <1>0, Frames, Constants, TimeoutAssumption DEF HwSend, Busy, Raise
  <2>4. Written'
    BY <2>1, <1>24, <1>0, Frames, Constants, TimeoutAssumption DEF HwSend, Busy, Raise
  <2>5. Read'
    BY <2>2, <1>24, <1>0, Frames, Constants, TimeoutAssumption DEF HwSend, Busy, Raise
  <2>6. Answered'
    BY <1>24, <1>0, Frames, Constants, TimeoutAssumption DEF HwSend, Busy, Raise
  <2> QED
    BY <2>3, <2>4, <2>5, <2>6
<1>25. ASSUME HwReceive
      PROVE  Told'
  <2>1. Stored => Stored'
    BY <1>25, StoredKept, Frames, LenProperties DEF HwReceive, SeenTyped
  <2>2. Len(wire') = Len(wire) + 1 /\ wire'[Len(wire) + 1] = twdr' /\ twdr' = -Len(wire)
    BY <1>25, AppendProperties, LenProperties DEF HwReceive, SeenTyped
  <2>3. Loaded'
    BY <1>25, <1>0, Frames, Constants, TimeoutAssumption DEF HwReceive, Busy, Raise
  <2>4. Written'
    BY <1>25, <1>0, Frames, Constants, TimeoutAssumption DEF HwReceive, Busy, Raise
  <2>5. Read'
    BY <2>1, <2>2, <1>25, <1>0, Frames, Constants, TimeoutAssumption DEF HwReceive, Busy, Raise
  <2>6. Answered'
    BY <1>25, <1>0, Frames, Constants, TimeoutAssumption DEF HwReceive, Busy, Raise
  <2> QED
    BY <2>3, <2>4, <2>5, <2>6
<1>26. ASSUME BusNoise
      PROVE  Told'
  BY <1>26, <1>0, Frames, Constants, TimeoutAssumption DEF BusNoise, Busy, Raise
<1>27. ASSUME UNCHANGED vars
      PROVE  Told'
  BY <1>27, Frames DEF vars
<1> HIDE DEF soft, master, slave, data, call, hard, seen, Running, Owner, Alone, Turns, Codes,
         Engaged, Acking, Quiet, Between, Repeating, Waiting, Receiving, SlaveCodes, READY, MTX,
         MRX, SilentStart, Target, Listening, Typed, Safe, InBounds, Accepted, CallTyped,
         DriverTyped, HardTyped, Told, Loaded, Written, Read, Answered, WriteSoFar, ReadSoFar,
         Outcome, Freshly, InCall
<1> QED
  BY <1>0, <1>1, <1>2, <1>3, <1>4, <1>5, <1>6, <1>7, <1>8, <1>9, <1>10, <1>11, <1>12, <1>13, <1>14,
     <1>15, <1>16, <1>17, <1>18, <1>19, <1>20, <1>21, <1>22, <1>23, <1>24, <1>25, <1>26, <1>27,
     MasterSteps DEF Owner

-----------------------------------------------------------------------------
(* A node that is only master or only slave *)

\* The whole invariant.
Kept ==
    /\ Typed
    /\ role = "master" => Owner /\ Told
    /\ role = "slave" => Answering

\* Nothing is under way at the start.
LEMMA KeptInit == Init => Kept
<1> SUFFICES ASSUME Init PROVE Kept
  OBVIOUS
<1>1. Typed
  BY TypedInit
<1>2. Owner
  <2>1. Alone
    BY DEF Init, Alone, SlaveCodes, READY
  <2>2. Turns
    BY DEF Init, Turns, Between, Quiet, Repeating, Waiting, READY
  <2>3. Codes
    BY SMTT(30) DEF Init, Codes, Listening, SilentStart
  <2>4. Engaged /\ Acking
    BY DEF Init, Engaged, Acking, Receiving, READY, MTX, MRX, NoError
  <2> QED
    BY <2>1, <2>2, <2>3, <2>4 DEF Owner
<1>3. Told
  BY DEF Init, Told, Loaded, Written, Read, Answered, WriteSoFar, ReadSoFar, Freshly, InCall,
     Repeating, Waiting
<1>4. role = "slave" => Answering
  BY ServingInit DEF Serving
<1> QED
  BY <1>1, <1>2, <1>3, <1>4 DEF Kept

\* Every step keeps it, whatever the node is on its bus.
LEMMA KeptStep == Kept /\ [Next]_vars => Kept'
<1> SUFFICES ASSUME Kept, [Next]_vars PROVE Kept'
  OBVIOUS
<1>1. role' = role
  BY DEF Next, vars, settings
<1>2. Typed /\ Typed'
  BY TypedStep DEF Kept
<1>3. ASSUME role = "master"
      PROVE  Owner' /\ Told'
  <2>1. Owner'
    BY <1>2, <1>3, MasterStep DEF Kept
  <2> QED
    BY <2>1, <1>2, <1>3, StoryStep DEF Kept
<1>4. ASSUME role = "slave"
      PROVE  Answering'
  BY <1>2, <1>4, AnswerStep DEF Kept
<1> QED
  BY <1>1, <1>2, <1>3, <1>4 DEF Kept

\* A node that is not both at once is one or the other.
LEMMA OneRole == ASSUME "both" \notin Roles, Kept PROVE role \in {"master", "slave"}
BY BusAssumption DEF Kept, Typed, CallTyped

\* The buffer and the state of the driver have one owner at a time, for every buffer
\* size, timeout setting and order of bus errors: the sketch fills the buffer only
\* between transfers, the handler uses it only during one, and no call that a resetting
\* timeout ended leaves the driver busy.
THEOREM AlwaysHandedOver == ASSUME "both" \notin Roles PROVE Spec => []HandedOver
<1>1. Init => Kept
  BY KeptInit
<1>2. Kept /\ [Next]_vars => Kept'
  BY KeptStep
<1>3. Kept => HandedOver
  <2> SUFFICES ASSUME Kept PROVE HandedOver
    OBVIOUS
  <2>1. CASE role = "master"
    <3>1. MasterOwned
      <4> SUFFICES ASSUME Enter(MasterCodes), state = READY PROVE FALSE
        BY <2>1 DEF MasterOwned, Kept, Owner, Alone
      <4>1. pc # "init"
        BY <2>1 DEF Kept, Owner, Turns, Enter
      <4> QED
        BY <2>1, <4>1 DEF Kept, Owner, Turns, Between, Quiet, SilentStart, Enter
    <3>2. BufferHandoff
      BY <2>1 DEF BufferHandoff, Kept, Owner, Turns, Between, Quiet
    <3>3. NeverOverrun /\ NotLeftBusy
      BY <2>1 DEF NeverOverrun, NotLeftBusy, Returned, Kept, Owner, Engaged, Turns, READY, MTX, MRX
    <3> QED
      BY <3>1, <3>2, <3>3 DEF HandedOver
  <2>2. CASE role = "slave"
    BY <2>2 DEF Kept, Answering, HandedOver, MasterOwned, Enter, BufferHandoff, NeverOverrun,
       NotLeftBusy,
       Returned, NoError, READY, SRX, STX, MTX, MRX
  <2> QED
    BY <2>1, <2>2, OneRole
<1> QED
  BY <1>1, <1>2, <1>3, PTL DEF Spec

\* What a finished call tells the sketch is what happened on the bus: writeTo() answers 0
\* exactly for a message acknowledged whole and in order, its error codes name what came
\* last, and readFrom() hands over bytes the device sent in this call, in order.
THEOREM AlwaysTruthful == ASSUME "both" \notin Roles PROVE Spec => []Truthful
<1>1. Init => Kept
  BY KeptInit
<1>2. Kept /\ [Next]_vars => Kept'
  BY KeptStep
<1>3. Kept => Truthful
  <2> SUFFICES ASSUME Kept PROVE Truthful
    OBVIOUS
  <2>1. CASE role = "master"
    <3>1. ZeroMeansSent /\ ErrorsTruthful
      BY <2>1, Constants DEF Kept, Told, Answered, ZeroMeansSent, ErrorsTruthful, Returned
    <3>2. ASSUME Returned, op = "R", ret > 0
          PROVE  /\ ret <= len /\ Len(wire) > ret
                 /\ \A x \in 1 .. ret : in[x - 1] = -x /\ wire[x + 1] = -x
      <4>1. ret <= len /\ Given
        BY <2>1, <3>2 DEF Kept, Told, Answered, Returned
      <4>2. ret \in 1 .. ret /\ ret \in Nat
        BY <3>2 DEF Kept, Typed, CallTyped
      <4>3. ret < Len(wire) /\ Len(wire) \in Nat
        BY <4>1, <4>2 DEF Given, Kept, Typed, SeenTyped
      <4> QED
        BY <4>1, <4>2, <4>3 DEF Given
    <3>3. ReadIsFresh
      BY <3>2 DEF ReadIsFresh
    <3> QED
      BY <3>1, <3>3 DEF Truthful
  <2>2. CASE role = "slave"
    BY <2>2 DEF Kept, Answering, Truthful, ZeroMeansSent, ErrorsTruthful, ReadIsFresh
  <2> QED
    BY <2>1, <2>2, OneRole
<1> QED
  BY <1>1, <1>2, <1>3, PTL DEF Spec

\* A slave loses no byte it acknowledged, sends the bytes of its callback in order and is
\* free again when the other master is done, as long as that master sends no more in one
\* go than the buffer holds: the byte after the last place is acknowledged and dropped.
THEOREM SlaveIsFaithful ==
    ASSUME "both" \notin Roles, RemoteBytes <= BUF
    PROVE  Spec => []SlaveFaithful
<1> DEFINE All == Kept /\ (role = "slave" => Serving)
<1>1. Init => All
  BY KeptInit, ServingInit
<1>2. All /\ [Next]_vars => All'
  <2> SUFFICES ASSUME All, [Next]_vars PROVE All'
    OBVIOUS
  <2>1. Kept' /\ role' = role
    BY KeptStep DEF Next, vars, settings
  <2>2. ASSUME role = "slave"
        PROVE  Serving'
    BY <2>1, <2>2, SlaveStep DEF Kept
  <2> QED
    BY <2>1, <2>2
<1>3. All => SlaveFaithful
  <2> SUFFICES ASSUME All PROVE SlaveFaithful
    OBVIOUS
  <2>1. CASE role = "master"
    BY <2>1 DEF Kept, Owner, Alone, SlaveFaithful, AckedDelivered, SlaveBytesInOrder, SlaveFreed,
       Enter, SlaveCodes
  <2>2. CASE role = "slave"
    <3>1. AckedDelivered
      BY <2>2 DEF AckedDelivered, Enter, Serving, Answering, Hearing, Telling
    <3>2. SlaveBytesInOrder /\ SlaveFreed
      BY <2>2 DEF SlaveBytesInOrder, SlaveFreed, Serving, Telling, Unaddressed
    <3> QED
      BY <3>1, <3>2 DEF SlaveFaithful
  <2> QED
    BY <2>1, <2>2, OneRole
<1> HIDE DEF All
<1> QED
  BY <1>1, <1>2, <1>3, PTL DEF Spec
=============================================================================
