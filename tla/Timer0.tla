------------------------------- MODULE Timer0 -------------------------------
(***************************************************************************)
(* Time keeping, cores/lgt8f/wiring.c: the overflow handler of Timer0, and *)
(* millis(), micros() and delay().  The timer runs on while they read.     *)
(***************************************************************************)
EXTENDS Integers

CONSTANTS
    TOP,         \* ticks per overflow (code: 256)
    TICK_US,     \* microseconds per tick (code: 64 / clockCyclesPerMicrosecond)
    MS,          \* microseconds in a millisecond (code: 1000)
    FRACT_UNIT,  \* microseconds per unit of timer0_fract (code: 8)
    BYTE,        \* what one load of a counter reads (code: 256)
    U32,         \* the counters are numbers modulo U32 (code: 2^32)
    MaxPending,  \* interrupts are not off for more ticks than this after an overflow
    MaxLag,      \* ticks that pass between two steps of a call
    Delays       \* arguments of delay()

OVERFLOW_US == TOP * TICK_US
MILLIS_INC  == OVERFLOW_US \div MS
FRACT_INC   == (OVERFLOW_US % MS) \div FRACT_UNIT
FRACT_MAX   == MS \div FRACT_UNIT

ASSUME ClockAssumption ==
    /\ TOP \in Nat \ {0, 1} /\ TICK_US \in Nat \ {0}
    /\ MS \in Nat \ {0} /\ FRACT_UNIT \in Nat \ {0} /\ BYTE \in Nat \ {0}
    /\ U32 \in Nat \ {0}

\* What this core's clock speeds give: the division by FRACT_UNIT is exact, and
\* the count of ticks wraps with the count of overflows.
ASSUME ExactAssumption ==
    /\ MS = FRACT_MAX * FRACT_UNIT /\ OVERFLOW_US % MS = FRACT_INC * FRACT_UNIT
    /\ FRACT_INC < FRACT_MAX

ASSUME BoundAssumption ==
    /\ MaxPending \in Nat \ {0} /\ MaxLag \in Nat \ {0} /\ Delays \subseteq Nat

VARIABLES
    tcnt, tov,               \* TCNT0 and the flag TOV0
    timer0_overflow_count, timer0_millis, timer0_fract,
    sreg,                    \* the I bit of SREG
    pc, call,                \* where the sketch is, and in which call
    m, t, oldSREG, start, ms, \* locals
    ret,                     \* the time that delay() was last told
    lag,                     \* ticks since the last step of the sketch in a call
    now, stamp,              \* history: ticks so far, and at the last reading of TCNT0
    owed,                    \* history: microseconds counted, not yet in timer0_millis
    held,                    \* history: timer0_millis when millis() turned interrupts off
    asked, spent             \* history: delay()'s argument, and ticks since (capped)

timer   == <<tcnt, tov>>
counters == <<timer0_overflow_count, timer0_millis, timer0_fract>>
locals  == <<m, t, oldSREG, start, ms>>
past    == <<now, stamp, owed, held, asked, spent>>
clockVars == <<timer, counters, sreg, pc, call, locals, ret, lag, past>>

ClockInit ==
    /\ tcnt = 0 /\ tov = FALSE
    /\ timer0_overflow_count = 0 /\ timer0_millis = 0 /\ timer0_fract = 0
    /\ sreg = TRUE /\ pc = "idle" /\ call = "none"
    /\ m = 0 /\ t = 0 /\ oldSREG = TRUE /\ start = 0 /\ ms = 0
    /\ ret = 0 /\ lag = 0
    /\ now = 0 /\ stamp = 0 /\ owed = 0 /\ held = 0 /\ asked = 0 /\ spent = 0

-----------------------------------------------------------------------------
(* The timer and its handler *)

Capped(x) == IF asked > 0 /\ x * TICK_US < asked * MS THEN x + 1 ELSE x

Tick ==
    /\ tov => tcnt < MaxPending
    /\ pc # "idle" => lag < MaxLag
    /\ tcnt' = (tcnt + 1) % TOP
    /\ tov' = (tov \/ tcnt = TOP - 1)
    /\ lag' = IF pc = "idle" THEN 0 ELSE lag + 1
    /\ now' = (now + 1) % U32 /\ spent' = Capped(spent)
    /\ UNCHANGED <<counters, sreg, pc, call, locals, ret, stamp, owed, held, asked>>

Carries(f) == f >= FRACT_MAX

TIMER0_OVF ==
    /\ sreg /\ tov
    /\ tov' = FALSE
    /\ LET f == timer0_fract + FRACT_INC
           inc == MILLIS_INC + (IF Carries(f) THEN 1 ELSE 0)
       IN  /\ timer0_fract' = IF Carries(f) THEN f - FRACT_MAX ELSE f
           /\ timer0_millis' = (timer0_millis + inc) % U32
           /\ owed' = owed + OVERFLOW_US - inc * MS
    /\ timer0_overflow_count' = (timer0_overflow_count + 1) % U32
    /\ UNCHANGED <<tcnt, sreg, pc, call, locals, ret, lag, now, stamp, held, asked, spent>>

-----------------------------------------------------------------------------
(* millis() and micros(): interrupts off, the counter byte by byte, on again *)

\* cli(): after it, or with interrupts off before, no handler runs.
Enter(c) ==
    /\ call' = c
    /\ oldSREG' = sreg /\ sreg' = FALSE
    /\ held' = IF c = "millis" THEN timer0_millis ELSE 0
    /\ pc' = "low" /\ lag' = 0

Counter == IF call = "millis" THEN timer0_millis ELSE timer0_overflow_count

LoadLow ==
    /\ pc = "low" /\ m' = Counter % BYTE
    /\ pc' = "high" /\ lag' = 0
    /\ UNCHANGED <<timer, counters, sreg, call, t, oldSREG, start, ms, ret, past>>

LoadHigh ==
    /\ pc = "high" /\ m' = m + BYTE * (Counter \div BYTE)
    /\ pc' = IF call = "millis" THEN "return" ELSE "tcnt"
    /\ lag' = 0
    /\ UNCHANGED <<timer, counters, sreg, call, t, oldSREG, start, ms, ret, past>>

LoadTcnt ==
    /\ pc = "tcnt" /\ t' = tcnt /\ stamp' = now
    /\ pc' = "flag" /\ lag' = 0
    /\ UNCHANGED <<timer, counters, sreg, call, m, oldSREG, start, ms, ret,
                   now, owed, held, asked, spent>>

AlwaysFlagged == tov
\* An overflow that the handler has not counted, unless it came after TCNT0 was read.
Flagged == tov /\ t < TOP - 1

LoadFlag ==
    /\ pc = "flag" /\ m' = m + (IF Flagged THEN 1 ELSE 0)
    /\ pc' = "return" /\ lag' = 0
    /\ UNCHANGED <<timer, counters, sreg, call, t, oldSREG, start, ms, ret, past>>

Answer == IF call = "millis" THEN m ELSE ((m * TOP + t) * TICK_US) % U32

\* SREG = oldSREG.  delay() goes on with the answer, or the sketch.
Return ==
    /\ pc = "return"
    /\ sreg' = oldSREG /\ lag' = 0
    /\ IF call \in {"start", "poll"}
       THEN pc' = "delay" /\ ret' = Answer /\ call' = call
       ELSE pc' = "idle" /\ ret' = ret /\ call' = "none"
    /\ m' = 0 /\ t' = 0 /\ oldSREG' = TRUE /\ stamp' = 0 /\ held' = 0
    /\ UNCHANGED <<timer, counters, start, ms, now, owed, asked, spent>>

millis == pc = "idle" /\ Enter("millis") /\ UNCHANGED <<timer, counters, m, t, start, ms, ret,
                                                       now, stamp, owed, asked, spent>>
micros == pc = "idle" /\ Enter("micros") /\ UNCHANGED <<timer, counters, m, t, start, ms, ret,
                                                       now, stamp, owed, asked, spent>>

-----------------------------------------------------------------------------
(* delay(), called with interrupts on *)

delay(d) ==
    /\ pc = "idle" /\ sreg
    /\ Enter("start")
    /\ ms' = d /\ asked' = d /\ spent' = 0
    /\ UNCHANGED <<timer, counters, m, t, start, ret, now, stamp, owed>>

Compared == ret >= (start + MS) % U32
\* (micros() - start) >= 1000, in 32 bits
Elapsed == (ret - start) % U32 >= MS

\* Between two readings: take the start, or one millisecond off; then ask again.
DelayStep ==
    /\ pc = "delay"
    /\ start' = (IF call = "start" THEN ret ELSE IF Elapsed THEN start + MS ELSE start) % U32
    /\ ms' = (IF call = "poll" /\ Elapsed THEN ms - 1 ELSE ms)
    /\ ret' = 0
    /\ IF ms' = 0
       THEN /\ pc' = "delayed" /\ lag' = 0
            /\ UNCHANGED <<call, oldSREG, sreg, held>>
       ELSE Enter("poll")
    /\ UNCHANGED <<timer, counters, m, t, now, stamp, owed, asked, spent>>

DelayReturn ==
    /\ pc = "delayed"
    /\ pc' = "idle" /\ call' = "none" /\ start' = 0 /\ asked' = 0 /\ spent' = 0 /\ lag' = 0
    /\ UNCHANGED <<timer, counters, sreg, m, t, oldSREG, ms, ret, now, stamp, owed, held>>

-----------------------------------------------------------------------------
(* The sketch turns interrupts off and on: a critical section, or a handler of *)
(* its own that reads the clock.                                               *)

Interrupts(on) ==
    /\ pc = "idle" /\ sreg # on
    /\ sreg' = on
    /\ UNCHANGED <<timer, counters, pc, call, locals, ret, lag, past>>

InCall == LoadLow \/ LoadHigh \/ LoadTcnt \/ LoadFlag \/ Return \/ DelayStep \/ DelayReturn

ClockSketch ==
    \/ InCall \/ millis \/ micros \/ (\E d \in Delays : delay(d))
    \/ \E on \in BOOLEAN : Interrupts(on)

ClockNext == Tick \/ TIMER0_OVF \/ ClockSketch
=============================================================================
