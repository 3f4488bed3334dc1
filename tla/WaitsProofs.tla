----------------------------- MODULE WaitsProofs -----------------------------
(***************************************************************************)
(* What a sketch waits for is right: proofs of ClockTrue and of            *)
(* DelayNotEarly, for every width of the timer, of the counters and of one *)
(* load; of ToneTrue, for every clock, pin, frequency and duration; of     *)
(* OwnReplies, for FIFOs of every depth; of PulseTrue, for every width of  *)
(* the clock; and the types of their variables, for TextProofs.            *)
(***************************************************************************)
EXTENDS WaitsProps, SequenceTheorems, TLAPS

-----------------------------------------------------------------------------
(* Numbers modulo U32 *)

Same(a, b) == \E k \in Int : a = b + k * U32

\* Division with remainder.
LEMMA DivMod ==
    ASSUME NEW a \in Nat, NEW d \in Nat, d > 0
    PROVE  /\ a \div d \in Nat /\ a % d \in 0 .. d - 1
           /\ a = d * (a \div d) + (a % d)
OBVIOUS

\* Multiples of p that differ, differ by p at least.
LEMMA Multiples ==
    ASSUME NEW p \in Nat, NEW x \in Int, NEW y \in Int, x < y
    PROVE  p * x + p <= p * y
<1>1. PICK k \in Nat : y = x + 1 + k
  <2>1. y - x - 1 \in Nat /\ y = x + 1 + (y - x - 1)
    OBVIOUS
  <2> QED
    BY <2>1
<1>2. p * y = p * x + p + p * k
  BY <1>1
<1>3. p * k \in Nat
  BY <1>1
<1> QED
  BY <1>2, <1>3

\* Remainders are unique.
LEMMA Remainders ==
    ASSUME NEW p \in Nat, p > 0, NEW q \in Int, NEW r \in 0 .. p - 1,
           NEW s \in Int, NEW u \in 0 .. p - 1, p * q + r = p * s + u
    PROVE  r = u
<1> p * q \in Int /\ p * s \in Int
  OBVIOUS
<1>1. ~(q < s)
  BY Multiples
<1>2. ~(s < q)
  BY Multiples
<1> QED
  BY <1>1, <1>2

\* What is the same modulo U32 has the same remainder, in any unit.
LEMMA SameTimes ==
    ASSUME U32 \in Nat, U32 > 0, NEW a \in Nat, NEW b \in Nat, NEW q \in Nat, Same(a, b)
    PROVE  (a * q) % U32 = (b * q) % U32
<1>1. PICK k \in Int : a = b + k * U32
  BY DEF Same
<1> DEFINE x == a * q  y == b * q
<1>2. x \in Nat /\ y \in Nat
  OBVIOUS
<1>3. x = y + U32 * (k * q)
  <2>1. x = b * q + (k * U32) * q
    BY <1>1
  <2>2. (k * U32) * q = U32 * (k * q)
    OBVIOUS
  <2> QED
    BY <2>1, <2>2
<1> HIDE DEF x, y
<1>4. /\ x = U32 * (x \div U32) + (x % U32) /\ x \div U32 \in Nat /\ x % U32 \in 0 .. U32 - 1
      /\ y = U32 * (y \div U32) + (y % U32) /\ y \div U32 \in Nat /\ y % U32 \in 0 .. U32 - 1
  BY <1>2, DivMod
<1> DEFINE d == x \div U32  r == x % U32  e == y \div U32  u == y % U32  j == k * q
<1>5. d \in Nat /\ r \in 0 .. U32 - 1 /\ e \in Nat /\ u \in 0 .. U32 - 1 /\ j \in Int
      /\ U32 * d + r = U32 * e + u + U32 * j
  BY <1>3, <1>4
<1> HIDE DEF d, r, e, u, j
<1>6. U32 * (e + j) = U32 * e + U32 * j /\ e + j \in Int
  BY <1>5
<1>7. U32 * d + r = U32 * (e + j) + u
  <2>1. U32 * e \in Int /\ U32 * j \in Int /\ U32 * d \in Int
    BY <1>5
  <2> QED
    BY <1>5, <1>6, <2>1
<1>8. r = u
  BY <1>5, <1>6, <1>7, Remainders
<1> QED
  BY <1>8 DEF r, u, x, y

\* Both sides count on.
LEMMA SameNext ==
    ASSUME U32 \in Nat, U32 > 0, NEW a \in Int, NEW b \in Nat, Same(a, b)
    PROVE  Same(a + 1, (b + 1) % U32)
<1>1. PICK k \in Int : a = b + k * U32
  BY DEF Same
<1> DEFINE d == (b + 1) \div U32  r == (b + 1) % U32
<1>2. b + 1 = U32 * d + r /\ d \in Nat /\ r \in Nat
  BY DivMod
<1> HIDE DEF d, r
<1>3. (d + k) * U32 = U32 * d + k * U32 /\ U32 * d \in Int /\ k * U32 \in Int /\ d + k \in Int
  BY <1>2
<1>4. a + 1 = r + (d + k) * U32
  BY <1>1, <1>2, <1>3
<1> QED
  BY <1>3, <1>4 DEF Same, r

\* The count of overflows may wrap in a sum.
LEMMA SameCarry ==
    ASSUME U32 \in Nat, U32 > 0, TOP \in Nat, NEW c \in Nat, NEW x \in Nat, NEW b \in Nat,
           Same(c * TOP + x, b)
    PROVE  Same((c % U32) * TOP + x, b)
<1>1. PICK k \in Int : c * TOP + x = b + k * U32
  BY DEF Same
<1> DEFINE d == c \div U32  r == c % U32
<1>2. c = U32 * d + r /\ d \in Nat /\ r \in Nat
  BY DivMod
<1> HIDE DEF d, r
<1>3. c * TOP = (d * TOP) * U32 + r * TOP
  <2>1. c * TOP = (U32 * d) * TOP + r * TOP
    BY <1>2
  <2>2. (U32 * d) * TOP = (d * TOP) * U32
    BY <1>2
  <2> QED
    BY <2>1, <2>2
<1>4. PICK j \in Int : j = k - d * TOP
  BY <1>2
<1>5. j * U32 = k * U32 - (d * TOP) * U32
  BY <1>2, <1>4
<1>6. r * TOP \in Int /\ (d * TOP) * U32 \in Int /\ k * U32 \in Int /\ j * U32 \in Int
      /\ c * TOP \in Int
  BY <1>2, <1>4
<1> DEFINE ct == c * TOP  rt == r * TOP  du == (d * TOP) * U32  ku == k * U32  ju == j * U32
<1>7. ct + x = b + ku /\ ct = du + rt /\ ju = ku - du
  BY <1>1, <1>3, <1>5
<1>8. ct \in Int /\ rt \in Int /\ du \in Int /\ ku \in Int /\ ju \in Int
  BY <1>6
<1> HIDE DEF ct, rt, du, ku, ju
<1>9. rt + x = b + ju
  BY <1>7, <1>8
<1> QED
  BY <1>4, <1>9 DEF Same, r, rt, ju

-----------------------------------------------------------------------------
(* The invariant *)

Num(b) == IF b THEN 1 ELSE 0

ClockTypes ==
    /\ tcnt \in 0 .. TOP - 1 /\ t \in 0 .. TOP - 1
    /\ tov \in BOOLEAN /\ sreg \in BOOLEAN /\ oldSREG \in BOOLEAN
    /\ timer0_overflow_count \in Nat /\ timer0_millis \in Nat
    /\ timer0_fract \in 0 .. FRACT_MAX - 1
    /\ m \in Nat /\ lag \in Nat /\ now \in Nat /\ stamp \in Nat

\* A reading runs with interrupts off.
Closed == pc \in {"low", "high", "tcnt", "flag", "return"} => ~sreg

\* An overflow waits for its handler for a bounded time.
Pending == tov => tcnt <= MaxPending

\* What is owed is what the handler keeps as its fraction.
Fractions == owed = timer0_fract * FRACT_UNIT

\* The overflows counted, the one that waits and TCNT0 make the time.
Counted == Same((timer0_overflow_count + Num(tov)) * TOP + tcnt, now)

\* What the loads have read so far
HalfLoaded  == pc = "high" => m = Counter % BYTE
WholeLoaded == pc = "tcnt" => m = timer0_overflow_count /\ call # "millis"
MillisLoaded ==
    call = "millis" =>
        /\ pc \in {"low", "high"} => held = timer0_millis
        /\ pc = "return" => m = held

\* With the flag still to be read, and with all of it read
Stamping ==
    pc = "flag" =>
        /\ call # "millis" /\ (lag = 0 => t = tcnt)
        /\ Same((m + Num(Flagged)) * TOP + t, stamp)
Stamped == pc = "return" /\ call # "millis" => Same(m * TOP + t, stamp)

Loaded == HalfLoaded /\ WholeLoaded /\ MillisLoaded
ClockInv == ClockTypes /\ Closed /\ Pending /\ Fractions /\ Counted /\ Loaded /\ Stamping /\ Stamped

\* At most one tick passes between two steps, and an overflow is handled, or counted by
\* micros(), before the last tick of the next one.
Prompt == MaxLag = 1 /\ MaxPending < TOP - 1

\* The constants, and what an overflow adds
LEMMA Constants ==
    /\ TOP \in Nat /\ TOP > 1 /\ U32 \in Nat /\ U32 > 0 /\ BYTE \in Nat /\ BYTE > 0
    /\ FRACT_UNIT \in Nat /\ FRACT_UNIT > 0 /\ TICK_US \in Nat
    /\ MS \in Nat /\ MS = FRACT_MAX * FRACT_UNIT
    /\ FRACT_MAX \in Nat /\ FRACT_MAX > 0 /\ FRACT_INC \in Nat /\ FRACT_INC < FRACT_MAX
    /\ MILLIS_INC \in Nat /\ OVERFLOW_US = MS * MILLIS_INC + FRACT_INC * FRACT_UNIT
    /\ MaxPending \in Nat
<1>1. /\ TOP \in Nat /\ TOP > 1 /\ U32 \in Nat /\ U32 > 0 /\ BYTE \in Nat /\ BYTE > 0
      /\ FRACT_UNIT \in Nat /\ FRACT_UNIT > 0 /\ TICK_US \in Nat /\ MS \in Nat /\ MS > 0
      /\ MaxPending \in Nat
  BY ClockAssumption, BoundAssumption
<1>2. OVERFLOW_US \in Nat
  BY <1>1 DEF OVERFLOW_US
<1>3. /\ MILLIS_INC \in Nat /\ OVERFLOW_US % MS \in Nat
      /\ OVERFLOW_US = MS * MILLIS_INC + (OVERFLOW_US % MS)
  BY <1>1, <1>2, DivMod DEF MILLIS_INC
<1>4. FRACT_MAX \in Nat
  BY <1>1, DivMod DEF FRACT_MAX
<1>5. FRACT_INC \in Nat
  BY <1>1, <1>3, DivMod DEF FRACT_INC
<1>6. FRACT_MAX # 0
  BY <1>1, ExactAssumption
<1> QED
  BY <1>1, <1>3, <1>4, <1>5, <1>6, ExactAssumption

LEMMA ClockStarts == ClockInit => ClockInv
<1> SUFFICES ASSUME ClockInit PROVE ClockInv
  OBVIOUS
<1> USE Constants
<1>1. ClockTypes
  <2>1. tov \in BOOLEAN /\ sreg \in BOOLEAN /\ oldSREG \in BOOLEAN
    BY Zenon DEF ClockInit
  <2>2. /\ tcnt = 0 /\ t = 0 /\ timer0_overflow_count = 0 /\ timer0_millis = 0
        /\ timer0_fract = 0 /\ m = 0 /\ lag = 0 /\ now = 0 /\ stamp = 0
    BY Zenon DEF ClockInit
  <2>3. 0 \in 0 .. TOP - 1 /\ 0 \in 0 .. FRACT_MAX - 1 /\ 0 \in Nat
    OBVIOUS
  <2> QED
    BY <2>1, <2>2, <2>3, Zenon DEF ClockTypes
<1>2. Closed /\ Pending /\ Fractions
  BY DEF ClockInit, Closed, Pending, Fractions
<1>3. Loaded /\ Stamping /\ Stamped
  BY DEF ClockInit, Loaded, HalfLoaded, WholeLoaded, MillisLoaded, Stamping, Stamped
<1>4. Counted
  <2>1. (0 + 0) * TOP + 0 = 0 + 0 * U32
    OBVIOUS
  <2> QED
    BY <2>1 DEF ClockInit, Counted, Num, Same
<1> QED
  BY <1>1, <1>2, <1>3, <1>4 DEF ClockInv

\* The timer runs on.
LEMMA TickKeeps == ASSUME ClockInv, Prompt, Tick PROVE ClockInv'
<1> USE Constants
<1>1. ClockTypes'
  BY DEF ClockInv, ClockTypes, Tick, counters, locals
<1>2. Closed' /\ Fractions' /\ Loaded' /\ Stamped'
  BY DEF ClockInv, Tick, counters, locals, Closed, Fractions, Loaded, HalfLoaded, WholeLoaded,
         MillisLoaded, Stamped, Counter
<1>3. CASE tcnt = TOP - 1
  <2>1. ~tov /\ tcnt' = 0 /\ tov'
    <3>1. ~tov
      BY <1>3 DEF ClockInv, ClockTypes, Pending, Prompt
    <3>2. tcnt' = TOP % TOP /\ tov'
      <4>1. tcnt + 1 = TOP
        BY <1>3
      <4>2. tcnt' = (tcnt + 1) % TOP /\ (tov' = (tov \/ tcnt = TOP - 1))
        BY DEF Tick
      <4>3. tov'
        BY <1>3, <4>2, Zenon
      <4> QED
        BY <4>1, <4>2, <4>3
    <3>3. TOP \div TOP \in Nat /\ TOP % TOP \in 0 .. TOP - 1 /\ TOP = TOP * (TOP \div TOP) + (TOP % TOP)
      BY DivMod
    <3>4. TOP * 1 + 0 = TOP * (TOP \div TOP) + (TOP % TOP)
      BY <3>3
    <3>5. TOP % TOP = 0
      BY <3>3, <3>4, Remainders
    <3> QED
      BY <3>1, <3>2, <3>5
  <2>2. Pending'
    BY <2>1 DEF Pending
  <2>3. Counted'
    <3>1. Same(timer0_overflow_count * TOP + (TOP - 1), now)
      <4>1. timer0_overflow_count + 0 = timer0_overflow_count
        BY DEF ClockInv, ClockTypes
      <4> QED
        BY <1>3, <2>1, <4>1 DEF ClockInv, Counted, Num
    <3>2. /\ timer0_overflow_count * TOP \in Int
          /\ (timer0_overflow_count + 1) * TOP = timer0_overflow_count * TOP + TOP
      BY DEF ClockInv, ClockTypes
    <3>3. (timer0_overflow_count * TOP + (TOP - 1)) + 1 = (timer0_overflow_count + 1) * TOP + 0
      BY <3>2
    <3>4. Same((timer0_overflow_count * TOP + (TOP - 1)) + 1, (now + 1) % U32)
      <4>1. timer0_overflow_count * TOP + (TOP - 1) \in Int /\ now \in Nat
        BY <3>2 DEF ClockInv, ClockTypes
      <4> QED
        BY <3>1, <4>1, SameNext
    <3> QED
      BY <2>1, <3>3, <3>4 DEF Counted, Num, Tick, counters
  <2>4. Stamping'
    BY <1>3, <2>1 DEF ClockInv, ClockTypes, Stamping, Flagged, Num, Tick, Prompt, locals
  <2> QED
    BY <1>1, <1>2, <2>2, <2>3, <2>4 DEF ClockInv
<1>4. CASE tcnt # TOP - 1
  <2>1. tcnt' = tcnt + 1 /\ tov' = tov
    BY <1>4 DEF ClockInv, ClockTypes, Tick
  <2>2. Pending'
    BY <2>1 DEF ClockInv, ClockTypes, Pending, Tick
  <2>3. Counted'
    <3> DEFINE a == (timer0_overflow_count + Num(tov)) * TOP
    <3>1. a \in Int /\ tcnt \in Int /\ now \in Nat
      BY DEF ClockInv, ClockTypes, Num
    <3>2. Same(a + tcnt, now)
      BY DEF ClockInv, Counted
    <3>3. a' = a
      BY <2>1 DEF Tick, counters, Num
    <3> HIDE DEF a
    <3>4. Same((a + tcnt) + 1, (now + 1) % U32)
      BY <3>1, <3>2, SameNext
    <3>5. (a + tcnt) + 1 = a + (tcnt + 1)
      BY <3>1
    <3>6. Same(a' + tcnt', now')
      BY <2>1, <3>3, <3>4, <3>5 DEF Tick
    <3> QED
      BY <3>6 DEF Counted, a
  <2>4. Stamping'
    BY <1>4, <2>1 DEF ClockInv, ClockTypes, Stamping, Flagged, Num, Tick, Prompt, locals
  <2> QED
    BY <1>1, <1>2, <2>2, <2>3, <2>4 DEF ClockInv
<1> QED
  BY <1>3, <1>4

\* The handler counts the overflow that waited.
LEMMA HandlerKeeps == ASSUME ClockInv, TIMER0_OVF PROVE ClockInv'
<1> USE Constants
<1> DEFINE f == timer0_fract + FRACT_INC
           inc == MILLIS_INC + (IF Carries(f) THEN 1 ELSE 0)
<1>1. /\ pc \notin {"low", "high", "tcnt", "flag", "return"} /\ pc' = pc /\ ~tov' /\ tov
  BY DEF ClockInv, Closed, TIMER0_OVF
<1>2. timer0_fract' = (IF Carries(f) THEN f - FRACT_MAX ELSE f)
  BY DEF TIMER0_OVF
<1>3. ClockTypes'
  <2>1. timer0_fract' \in 0 .. FRACT_MAX - 1
    BY <1>2 DEF ClockInv, ClockTypes, Carries
  <2>2. inc \in Nat /\ timer0_millis' = (timer0_millis + inc) % U32
    BY DEF TIMER0_OVF
  <2>3. timer0_millis' \in Nat /\ timer0_overflow_count' \in Nat
    BY <2>2 DEF ClockInv, ClockTypes, TIMER0_OVF
  <2> QED
    BY <2>1, <2>3 DEF ClockInv, ClockTypes, TIMER0_OVF, locals
<1>4. Closed' /\ Pending' /\ Loaded' /\ Stamping' /\ Stamped'
  BY <1>1 DEF Closed, Pending, Loaded, HalfLoaded, WholeLoaded, MillisLoaded, Stamping, Stamped
<1>5. Fractions'
  <2>1. owed' = owed + OVERFLOW_US - inc * MS
    BY DEF TIMER0_OVF
  <2>2. owed = timer0_fract * FRACT_UNIT /\ timer0_fract \in Nat
    BY DEF ClockInv, Fractions, ClockTypes
  <2>3. f * FRACT_UNIT = timer0_fract * FRACT_UNIT + FRACT_INC * FRACT_UNIT /\ f \in Nat
    BY <2>2
  <2>4. /\ timer0_fract * FRACT_UNIT \in Int /\ FRACT_INC * FRACT_UNIT \in Int
        /\ f * FRACT_UNIT \in Int /\ MS * MILLIS_INC \in Int
    BY <2>2, <2>3
  <2>5. CASE Carries(f)
    <3>1. inc * MS = MS * MILLIS_INC + MS
      BY <2>5
    <3>2. owed' = f * FRACT_UNIT - MS
      BY <2>1, <2>2, <2>3, <2>4, <3>1
    <3>3. (f - FRACT_MAX) * FRACT_UNIT = f * FRACT_UNIT - FRACT_MAX * FRACT_UNIT
      BY <2>3
    <3> QED
      BY <1>2, <2>5, <3>2, <3>3 DEF Fractions
  <2>6. CASE ~Carries(f)
    <3>1. inc * MS = MS * MILLIS_INC
      BY <2>6
    <3>2. owed' = f * FRACT_UNIT
      BY <2>1, <2>2, <2>3, <2>4, <3>1
    <3> QED
      BY <1>2, <2>6, <3>2 DEF Fractions
  <2> QED
    BY <2>5, <2>6
<1>6. Counted'
  <2>1. Same((timer0_overflow_count + 1) * TOP + tcnt, now)
    BY <1>1 DEF ClockInv, Counted, Num
  <2>2. Same(((timer0_overflow_count + 1) % U32) * TOP + tcnt, now)
    BY <2>1, SameCarry DEF ClockInv, ClockTypes
  <2>3. (timer0_overflow_count + 1) % U32 \in Nat
    BY DEF ClockInv, ClockTypes
  <2> QED
    BY <1>1, <2>2, <2>3 DEF Counted, Num, TIMER0_OVF
<1> QED
  BY <1>3, <1>4, <1>5, <1>6 DEF ClockInv

\* A step that is no reading, or the beginning of one, reads nothing.
LEMMA OthersKeep ==
    ASSUME ClockInv, ClockTypes', UNCHANGED <<timer, counters, now, owed>>,
           Closed', pc' \notin {"high", "tcnt", "flag", "return"},
           pc' = "low" /\ call' = "millis" => held' = timer0_millis
    PROVE  ClockInv'
<1>1. Pending' /\ Fractions' /\ Counted'
  BY DEF ClockInv, Pending, Fractions, Counted, Num, timer, counters
<1>2. Loaded' /\ Stamping' /\ Stamped'
  BY DEF Loaded, HalfLoaded, WholeLoaded, MillisLoaded, Stamping, Stamped, counters
<1> QED
  BY <1>1, <1>2 DEF ClockInv

\* The loads of a reading, with interrupts off
LEMMA LoadsKeep ==
    ASSUME ClockInv, Prompt, LoadLow \/ LoadHigh \/ LoadTcnt \/ LoadFlag PROVE ClockInv'
<1> USE Constants
<1>1. /\ UNCHANGED <<timer, counters, now, owed, sreg, oldSREG, call, held>> /\ ~sreg /\ lag' = 0
      /\ pc \in {"low", "high", "tcnt", "flag"}
  BY DEF LoadLow, LoadHigh, LoadTcnt, LoadFlag, past, ClockInv, Closed
<1>2. Closed' /\ Pending' /\ Fractions' /\ Counted'
  BY <1>1 DEF ClockInv, Closed, Pending, Fractions, Counted, Num, timer, counters
<1>3. Counter \in Nat /\ Counter' = Counter
  BY <1>1 DEF ClockInv, ClockTypes, Counter, counters
<1>4. CASE LoadLow
  <2>1. ClockTypes'
    BY <1>1, <1>3, <1>4 DEF ClockInv, ClockTypes, LoadLow, timer, counters, past
  <2>2. Loaded' /\ Stamping' /\ Stamped'
    BY <1>1, <1>3, <1>4 DEF ClockInv, LoadLow, counters, Loaded, HalfLoaded, WholeLoaded,
       MillisLoaded, Stamping, Stamped
  <2> QED
    BY <1>2, <2>1, <2>2 DEF ClockInv
<1>5. CASE LoadHigh
  <2>1. m' = Counter
    <3>1. m = Counter % BYTE /\ m' = m + BYTE * (Counter \div BYTE)
      BY <1>5 DEF ClockInv, Loaded, HalfLoaded, LoadHigh
    <3>2. /\ Counter \div BYTE \in Nat /\ Counter % BYTE \in 0 .. BYTE - 1
          /\ Counter = BYTE * (Counter \div BYTE) + (Counter % BYTE)
      BY <1>3, DivMod
    <3> DEFINE c == Counter  r == Counter % BYTE  p == BYTE * (Counter \div BYTE)
    <3>3. p \in Int /\ r \in Int /\ c = p + r /\ m = r /\ m' = m + p
      BY <3>1, <3>2
    <3> HIDE DEF c, r, p
    <3>4. m' = c
      BY <3>3
    <3> QED
      BY <3>4 DEF c
  <2>2. ClockTypes'
    BY <1>1, <1>3, <1>5, <2>1 DEF ClockInv, ClockTypes, LoadHigh, timer, counters, past
  <2>3. Loaded' /\ Stamping' /\ Stamped'
    BY <1>1, <1>5, <2>1 DEF ClockInv, LoadHigh, counters, Counter, Loaded, HalfLoaded,
       WholeLoaded, MillisLoaded, Stamping, Stamped
  <2> QED
    BY <1>2, <2>2, <2>3 DEF ClockInv
<1>6. CASE LoadTcnt
  <2>1. ClockTypes'
    BY <1>1, <1>6 DEF ClockInv, ClockTypes, LoadTcnt, timer, counters
  <2>2. Loaded' /\ Stamped'
    BY <1>1, <1>6 DEF ClockInv, LoadTcnt, Loaded, HalfLoaded, WholeLoaded, MillisLoaded, Stamped
  <2>3. Stamping'
    <3>1. /\ call # "millis" /\ m = timer0_overflow_count /\ m' = m /\ t' = tcnt /\ tcnt' = tcnt
          /\ tov' = tov /\ stamp' = now /\ call' = call
      BY <1>6 DEF ClockInv, Loaded, WholeLoaded, LoadTcnt, timer
    <3>2. Flagged' = tov
      BY <3>1 DEF ClockInv, ClockTypes, Pending, Prompt, Flagged
    <3>3. Same((timer0_overflow_count + Num(tov)) * TOP + tcnt, now)
      BY DEF ClockInv, Counted
    <3> QED
      BY <3>1, <3>2, <3>3 DEF Stamping, Num
  <2> QED
    BY <1>2, <2>1, <2>2, <2>3 DEF ClockInv
<1>7. CASE LoadFlag
  <2>1. ClockTypes'
    BY <1>1, <1>7 DEF ClockInv, ClockTypes, LoadFlag, timer, counters, past
  <2>2. Loaded' /\ Stamping'
    BY <1>1, <1>7 DEF ClockInv, LoadFlag, Loaded, HalfLoaded, WholeLoaded, MillisLoaded, Stamping
  <2>3. Stamped'
    BY <1>7 DEF ClockInv, Stamping, Stamped, LoadFlag, Num, past
  <2> QED
    BY <1>2, <2>1, <2>2, <2>3 DEF ClockInv
<1> QED
  BY <1>4, <1>5, <1>6, <1>7

\* Every step of the sketch
LEMMA SketchKeeps == ASSUME ClockInv, Prompt, ClockSketch PROVE ClockInv'
<1> USE Constants
<1>1. CASE LoadLow \/ LoadHigh \/ LoadTcnt \/ LoadFlag
  BY <1>1, LoadsKeep
<1>2. CASE Return \/ DelayStep \/ DelayReturn \/ millis \/ micros \/ (\E d \in Delays : delay(d))
           \/ \E on \in BOOLEAN : Interrupts(on)
  <2>1. ClockTypes'
    <3>1. UNCHANGED <<timer, counters, now>>
      BY <1>2 DEF Return, DelayStep, DelayReturn, millis, micros, delay, Interrupts, Enter, past
    <3>2. ((m' = m /\ t' = t) \/ (m' = 0 /\ t' = 0)) /\ (lag' = lag \/ lag' = 0)
          /\ (stamp' = stamp \/ stamp' = 0)
      BY <1>2 DEF Return, DelayStep, DelayReturn, millis, micros, delay, Interrupts, Enter,
         locals, past
    <3>3. sreg' \in BOOLEAN /\ oldSREG' \in BOOLEAN
      BY <1>2, Zenon DEF ClockInv, ClockTypes, Return, DelayStep, DelayReturn, millis, micros,
         delay, Interrupts, Enter, locals
    <3> QED
      BY <3>1, <3>2, <3>3 DEF ClockInv, ClockTypes, timer, counters
  <2>2. UNCHANGED <<timer, counters, now, owed>>
    BY <1>2 DEF Return, DelayStep, DelayReturn, millis, micros, delay, Interrupts, Enter, past
  <2>3. Closed' /\ pc' \notin {"high", "tcnt", "flag", "return"}
    BY <1>2 DEF Closed, Return, DelayStep, DelayReturn, millis, micros, delay, Interrupts, Enter
  <2>4. pc' = "low" /\ call' = "millis" => held' = timer0_millis
    BY <1>2 DEF Return, DelayStep, DelayReturn, millis, micros, delay, Interrupts, Enter
  <2> QED
    BY <2>1, <2>2, <2>3, <2>4, OthersKeep
<1> QED
  BY <1>1, <1>2 DEF ClockSketch, InCall

LEMMA ClockKeeps == ASSUME ClockInv, Prompt, [WaitsNext]_waitVars PROVE ClockInv'
<1>1. CASE ClockNext
  BY <1>1, TickKeeps, HandlerKeeps, SketchKeeps DEF ClockNext
<1>2. CASE UNCHANGED clockVars
  BY <1>2 DEF clockVars, timer, counters, locals, past, ClockInv, ClockTypes, Closed, Pending,
     Fractions, Counted, Loaded, HalfLoaded, WholeLoaded, MillisLoaded, Stamping, Stamped,
     Counter, Flagged, Num
<1> QED
  BY <1>1, <1>2 DEF WaitsNext, waitVars

LEMMA InvIsTrue == ClockInv => ClockTrue
<1> SUFFICES ASSUME ClockInv PROVE ClockTrue
  OBVIOUS
<1> USE Constants
<1>1. MicrosExact
  <2> SUFFICES ASSUME pc = "return", call # "millis" PROVE Answer = (stamp * TICK_US) % U32
    BY DEF MicrosExact
  <2>1. Same(m * TOP + t, stamp)
    BY DEF ClockInv, Stamped
  <2>2. m * TOP + t \in Nat /\ stamp \in Nat
    BY DEF ClockInv, ClockTypes
  <2> QED
    BY <2>1, <2>2, SameTimes DEF Answer
<1>2. MillisWhole
  BY DEF ClockInv, Loaded, MillisLoaded, MillisWhole, Answer
<1>3. MillisKeepsUp
  <2>1. owed = timer0_fract * FRACT_UNIT /\ timer0_fract \in 0 .. FRACT_MAX - 1
    BY DEF ClockInv, Fractions, ClockTypes
  <2>2. timer0_fract * FRACT_UNIT \in Nat
    BY <2>1
  <2>3. FRACT_UNIT * timer0_fract + FRACT_UNIT <= FRACT_UNIT * FRACT_MAX
    BY <2>1, Multiples
  <2>4. /\ FRACT_UNIT * timer0_fract = timer0_fract * FRACT_UNIT
        /\ FRACT_UNIT * FRACT_MAX = FRACT_MAX * FRACT_UNIT
    BY <2>1
  <2> DEFINE p == timer0_fract * FRACT_UNIT
  <2>5. p \in Nat /\ p + FRACT_UNIT <= MS
    BY <2>2, <2>3, <2>4
  <2> HIDE DEF p
  <2>6. p \in 0 .. MS - 1
    BY <2>5
  <2> QED
    BY <2>1, <2>6 DEF MillisKeepsUp, p
<1> QED
  BY <1>1, <1>2, <1>3 DEF ClockTrue

\* Whatever the widths of the timer, of its counters and of one load, and wherever the
\* overflow and its handler come between the loads: micros() is the time at which it read
\* TCNT0, millis() a value that the counter had, and no fraction is lost, across every
\* wrap (wiring.c:49, 66, 94).  Not more than one tick may pass between two steps, nor
\* almost an overflow with interrupts off.
THEOREM ClockIsTrue == ASSUME Prompt PROVE WaitsSpec => []ClockTrue
<1>1. WaitsInit => ClockInv
  BY ClockStarts DEF WaitsInit
<1>2. ClockInv /\ [WaitsNext]_waitVars => ClockInv'
  BY ClockKeeps
<1> QED
  BY <1>1, <1>2, InvIsTrue, PTL DEF WaitsSpec

-----------------------------------------------------------------------------
(* delay() *)

\* One side may be reduced.
LEMMA SameReduced ==
    ASSUME NEW a \in Int, NEW s \in Int, NEW c \in Int, Same(a + s, c)
    PROVE  a % U32 \in 0 .. U32 - 1 /\ Same((a % U32) + s, c)
<1>1. PICK k \in Int : a + s = c + k * U32
  BY DEF Same
<1> DEFINE d == a \div U32  r == a % U32
<1>2. a = U32 * d + r /\ d \in Int /\ r \in 0 .. U32 - 1
  BY Constants
<1> HIDE DEF d, r
<1>3. (k - d) * U32 = k * U32 - U32 * d /\ U32 * d \in Int /\ k * U32 \in Int /\ k - d \in Int
  BY <1>2, Constants
<1>4. r + s = c + (k - d) * U32
  <2> DEFINE ku == k * U32  ud == U32 * d  e == (k - d) * U32
  <2>1. a + s = c + ku /\ a = ud + r /\ e = ku - ud /\ ku \in Int /\ ud \in Int /\ r \in Int
    BY <1>1, <1>2, <1>3
  <2> HIDE DEF ku, ud, e
  <2>2. r + s = c + e
    BY <2>1
  <2> QED
    BY <2>2 DEF e
<1> QED
  BY <1>2, <1>3, <1>4 DEF Same, r

\* A tick goes on both sides.
LEMMA SameTick ==
    ASSUME NEW a \in Int, NEW n \in Nat, NEW x \in Int, Same(a, n * TICK_US + x)
    PROVE  Same(a + TICK_US, ((n + 1) % U32) * TICK_US + x)
<1>1. PICK k \in Int : a = n * TICK_US + x + k * U32
  BY DEF Same
<1> DEFINE d == (n + 1) \div U32  r == (n + 1) % U32
<1>2. n + 1 = U32 * d + r /\ d \in Nat /\ r \in Nat
  BY Constants, DivMod
<1> HIDE DEF d, r
<1>3. n * TICK_US + TICK_US = (d * TICK_US) * U32 + r * TICK_US
  <2>1. (n + 1) * TICK_US = (U32 * d) * TICK_US + r * TICK_US
    BY <1>2, Constants
  <2>2. (n + 1) * TICK_US = n * TICK_US + TICK_US /\ (U32 * d) * TICK_US = (d * TICK_US) * U32
    BY <1>2, Constants
  <2> QED
    BY <2>1, <2>2
<1>4. (k + d * TICK_US) * U32 = k * U32 + (d * TICK_US) * U32 /\ k + d * TICK_US \in Int
      /\ k * U32 \in Int /\ (d * TICK_US) * U32 \in Int /\ r * TICK_US \in Int /\ n * TICK_US \in Int
  BY <1>2, Constants
<1>5. a + TICK_US = r * TICK_US + x + (k + d * TICK_US) * U32
  <2> DEFINE nt == n * TICK_US  rt == r * TICK_US  ku == k * U32  du == (d * TICK_US) * U32
  <2>1. a = nt + x + ku /\ nt + TICK_US = du + rt /\ nt \in Int /\ rt \in Int /\ ku \in Int /\ du \in Int
    BY <1>1, <1>3, <1>4
  <2>2. TICK_US \in Int
    BY Constants
  <2> HIDE DEF nt, rt, ku, du
  <2>3. a + TICK_US = rt + x + (ku + du)
    BY <2>1, <2>2
  <2> QED
    BY <2>3, <1>4 DEF rt, ku, du
<1> QED
  BY <1>4, <1>5 DEF Same, r

\* A difference modulo U32 is not more than the difference.
LEMMA SameLess ==
    ASSUME NEW p \in Int, NEW q \in Int, NEW s \in Int, NEW c \in Int, NEW x \in Int, NEW y \in Int, x <= y,
           Same(q + s, c + x), Same(p + s, c + y)
    PROVE  (p - q) % U32 <= y - x
<1>1. PICK j \in Int : q + s = c + x + j * U32
  BY DEF Same
<1>2. PICK k \in Int : p + s = c + y + k * U32
  BY DEF Same
<1> DEFINE d == (p - q) \div U32  r == (p - q) % U32
<1>3. p - q = U32 * d + r /\ d \in Int /\ r \in 0 .. U32 - 1
  BY Constants
<1> HIDE DEF d, r
<1> DEFINE e == d + j - k
<1>4. e \in Int /\ U32 * e = U32 * d + j * U32 - k * U32
  BY <1>3, Constants
<1>5. U32 * d \in Int /\ j * U32 \in Int /\ k * U32 \in Int
  BY <1>3, Constants
<1>6. y - x = U32 * e + r
  <2> DEFINE ud == U32 * d  ju == j * U32  ku == k * U32
  <2> HIDE DEF e, ud, ju, ku
  <2>1. /\ q + s = c + x + ju /\ p + s = c + y + ku /\ p - q = ud + r
        /\ ud \in Int /\ ju \in Int /\ ku \in Int /\ r \in Int
    BY <1>1, <1>2, <1>3, <1>5 DEF ud, ju, ku
  <2>2. y - x = ud + ju - ku + r
    BY <2>1
  <2> QED
    BY <2>1, <2>2, <1>4 DEF ud, ju, ku
<1> HIDE DEF e
<1>7. e >= 0
  <2> SUFFICES ASSUME e < 0 PROVE FALSE
    BY <1>4
  <2>1. U32 * e + U32 <= U32 * 0
    BY <1>4, Constants, Multiples
  <2>2. U32 * e \in Int
    BY <1>4, Constants
  <2> QED
    BY <1>3, <1>6, <2>1, <2>2, Constants
<1>8. U32 * e \in Nat
  BY <1>4, <1>7, Constants
<1> QED
  BY <1>3, <1>6, <1>8 DEF r

\* Since it was called, and since its start was moved on, in microseconds
Passed == spent * TICK_US
Short  == Passed < asked * MS
Told   == IF pc = "delay" THEN ret ELSE stamp * TICK_US

\* Where start stands, and where the last reading of the clock, since the call
Started(x) == x \in 0 .. Passed /\ Same(start + Passed, now * TICK_US + x) /\ (asked - ms) * MS <= x
Read(y)    == y \in 0 .. Passed /\ Same(Told + Passed, now * TICK_US + y)

Telling == pc \in {"flag", "return", "delay"}
Calling == pc \in {"low", "high", "tcnt"}

DelayTypes ==
    /\ ms \in Nat /\ asked \in Nat /\ spent \in Nat /\ start \in Nat /\ ret \in Nat /\ ms <= asked
    /\ pc \in {"idle", "low", "high", "tcnt", "flag", "return", "delay", "delayed"}
    /\ pc = "delay" => call \in {"start", "poll"}
    /\ call = "start" => ms = asked
    /\ IF pc = "delayed" THEN ms = 0 ELSE call = "poll" => ms > 0

\* start is never past a reading of the clock, and what was taken off ms has passed.
Underway ==
    Short =>
        /\ Calling /\ call = "poll" => \E x \in Int : Started(x)
        /\ Telling /\ call = "start" => \E y \in Int : Read(y)
        /\ Telling /\ call = "poll" => \E x, y \in Int : x <= y /\ Started(x) /\ Read(y)

DelayInv == DelayTypes /\ Underway /\ DelayNotEarly

LEMMA DelayStarts == ClockInit => DelayInv
BY Constants DEF ClockInit, DelayInv, DelayTypes, Underway, DelayNotEarly, Calling, Telling

LEMMA NextTimes == ASSUME NEW a \in Int PROVE a * MS \in Int /\ (a + 1) * MS = a * MS + MS
BY Constants

LEMMA TimesMs == ASSUME NEW a \in Nat, NEW b \in Nat, a <= b PROVE a * MS \in Nat /\ b * MS \in Nat /\ a * MS <= b * MS
<1>1. a * MS \in Nat /\ b * MS \in Nat /\ (b - a) * MS \in Nat /\ b * MS = a * MS + (b - a) * MS
  BY Constants
<1> QED
  BY <1>1

\* A tick goes on.
LEMMA DelayTick == ASSUME ClockInv, DelayInv, Tick PROVE DelayInv'
<1>1. /\ UNCHANGED <<pc, call, start, ms, ret, stamp, asked>> /\ now \in Nat /\ now' = (now + 1) % U32
      /\ spent \in Nat /\ spent' = Capped(spent)
  BY DEF Tick, locals, ClockInv, ClockTypes, DelayInv, DelayTypes
<1>2. Passed \in Nat /\ asked * MS \in Nat /\ spent' \in Nat /\ asked \in Nat
  BY <1>1, Constants DEF Passed, DelayInv, DelayTypes, Capped
<1>3. IF Short THEN spent' = spent + 1 ELSE spent' = spent
  <2>1. CASE Short
    <3>1. asked # 0
      BY <2>1, <1>2, Constants DEF Short
    <3> QED
      BY <1>1, <1>2, <2>1, <3>1 DEF Short, Passed, Capped
  <2>2. CASE ~Short
    BY <1>1, <1>2, <2>2 DEF Short, Passed, Capped
  <2> QED
    BY <2>1, <2>2
<1>4. Short' => Short
  BY <1>1, <1>3 DEF Short, Passed
<1>5. DelayTypes'
  BY <1>1, <1>2 DEF DelayInv, DelayTypes
<1>6. DelayNotEarly'
  <2> SUFFICES ASSUME pc' = "delayed" PROVE spent' * TICK_US >= asked' * MS
    BY DEF DelayNotEarly
  <2>1. ~Short
    BY <1>1, <1>2 DEF DelayInv, DelayNotEarly, Short, Passed
  <2> QED
    BY <1>1, <1>2, <1>3, <2>1 DEF Short, Passed
<1>7. ASSUME Short PROVE Passed' = Passed + TICK_US
  <2>1. spent' = spent + 1
    BY <1>3, <1>7
  <2> QED
    BY <1>1, <2>1, Constants DEF Passed
<1>8. ASSUME Short, NEW x \in Int, Started(x) PROVE Started(x)'
  <2>1. start + Passed \in Int /\ start \in Nat
    BY <1>2 DEF DelayInv, DelayTypes
  <2>2. Same(start + Passed + TICK_US, now' * TICK_US + x)
    <3> HIDE DEF Passed
    <3> QED
      BY <1>1, <1>8, <2>1, SameTick DEF Started
  <2>3. start' + Passed' = start + Passed + TICK_US
    BY <1>1, <1>2, <1>7, <1>8, <2>1, Constants
  <2>4. x \in 0 .. Passed'
    BY <1>2, <1>7, <1>8, Constants DEF Started
  <2> QED
    BY <1>1, <1>8, <2>2, <2>3, <2>4 DEF Started
<1>9. ASSUME Short, NEW y \in Int, Read(y) PROVE Read(y)'
  <2>1. Told \in Nat /\ Told' = Told
    BY <1>1, Constants DEF Told, ClockInv, ClockTypes, DelayInv, DelayTypes
  <2>2. Same(Told + Passed + TICK_US, now' * TICK_US + y)
    <3> HIDE DEF Passed, Told
    <3>1. Told + Passed \in Int
      BY <1>2, <2>1
    <3> QED
      BY <1>1, <1>9, <3>1, SameTick DEF Read
  <2>3. Told' + Passed' = Told + Passed + TICK_US
    BY <1>2, <1>7, <1>9, <2>1, Constants
  <2>4. y \in 0 .. Passed'
    BY <1>2, <1>7, <1>9, Constants DEF Read
  <2> QED
    BY <2>2, <2>3, <2>4 DEF Read
<1>10. Underway'
  <2> SUFFICES ASSUME Short' PROVE
          /\ Calling' /\ call' = "poll" => \E x \in Int : Started(x)'
          /\ Telling' /\ call' = "start" => \E y \in Int : Read(y)'
          /\ Telling' /\ call' = "poll" => \E x, y \in Int : x <= y /\ Started(x)' /\ Read(y)'
    BY DEF Underway
  <2>1. Short /\ Underway /\ Calling' = Calling /\ Telling' = Telling /\ call' = call
    BY <1>1, <1>4 DEF DelayInv, Calling, Telling
  <2> HIDE DEF Started, Read, Short, Calling, Telling
  <2>2. Calling /\ call = "poll" => \E x \in Int : Started(x)'
    BY <2>1, <1>8 DEF Underway
  <2>3. Telling /\ call = "start" => \E y \in Int : Read(y)'
    BY <2>1, <1>9 DEF Underway
  <2>4. Telling /\ call = "poll" => \E x, y \in Int : x <= y /\ Started(x)' /\ Read(y)'
    <3> SUFFICES ASSUME Telling, call = "poll" PROVE \E x, y \in Int : x <= y /\ Started(x)' /\ Read(y)'
      OBVIOUS
    <3>1. PICK x \in Int, y \in Int : x <= y /\ Started(x) /\ Read(y)
      BY <2>1 DEF Underway
    <3>2. Started(x)' /\ Read(y)'
      BY <2>1, <3>1, <1>8, <1>9
    <3> QED
      BY <3>1, <3>2
  <2> QED
    BY <2>1, <2>2, <2>3, <2>4
<1> QED
  BY <1>5, <1>6, <1>10 DEF DelayInv

\* The handler, and the loads but that of TCNT0, add nothing.
LEMMA DelayLoads ==
    ASSUME ClockInv, DelayInv, TIMER0_OVF \/ LoadLow \/ LoadHigh \/ LoadFlag \/ (\E on \in BOOLEAN : Interrupts(on))
    PROVE  DelayInv'
<1>1. /\ UNCHANGED <<call, start, ms, ret, stamp, asked, spent, now>>
      /\ \/ pc' = pc
         \/ pc = "low" /\ pc' = "high"
         \/ pc = "high" /\ pc' = "tcnt"
         \/ pc = "flag" /\ pc' = "return"
         \/ pc = "high" /\ pc' = "return" /\ call = "millis"
  BY DEF TIMER0_OVF, LoadLow, LoadHigh, LoadFlag, Interrupts, locals, past
<1>2. Passed' = Passed /\ Short' = Short /\ DelayTypes' /\ DelayNotEarly'
  BY <1>1 DEF DelayInv, DelayTypes, DelayNotEarly, Passed, Short
<1>3. Told' = Told
  BY <1>1 DEF Told
<1>4. \A x \in Int : (Started(x) <=> Started(x)') /\ (Read(x) <=> Read(x)')
  BY <1>1, <1>2, <1>3 DEF Started, Read
<1>5. call' = call /\ (call # "millis" => (Calling' => Calling) /\ (Telling' => Telling))
  BY <1>1 DEF Calling, Telling
<1>6. Underway'
  <2> HIDE DEF Started, Read, Short, Calling, Telling
  <2> QED
    BY <1>2, <1>4, <1>5 DEF DelayInv, Underway
<1> QED
  BY <1>2, <1>6 DEF DelayInv

\* When TCNT0 is read, all that passed is told.
LEMMA DelayReads == ASSUME ClockInv, DelayInv, LoadTcnt PROVE DelayInv'
<1>1. /\ UNCHANGED <<call, start, ms, ret, asked, spent, now>> /\ stamp' = now
      /\ pc = "tcnt" /\ pc' = "flag"
  BY DEF LoadTcnt
<1>2. Passed' = Passed /\ Short' = Short /\ DelayTypes' /\ DelayNotEarly'
  BY <1>1 DEF DelayInv, DelayTypes, DelayNotEarly, Passed, Short
<1>3. Passed \in Nat /\ now * TICK_US \in Nat
  BY Constants DEF Passed, DelayInv, DelayTypes, ClockInv, ClockTypes
<1>4. Read(Passed)'
  <2>1. Told' = now * TICK_US /\ now' * TICK_US = now * TICK_US
    BY <1>1 DEF Told
  <2> HIDE DEF Passed
  <2>2. Same(now * TICK_US + Passed, now * TICK_US + Passed)
    <3>1. now * TICK_US + Passed = now * TICK_US + Passed + 0 * U32
      BY <1>3, Constants
    <3> QED
      BY <3>1 DEF Same
  <2>3. Passed \in 0 .. Passed
    BY <1>3
  <2> QED
    BY <1>1, <1>2, <2>1, <2>2, <2>3 DEF Read
<1>5. \A x \in Int : Started(x) => Started(x)' /\ x <= Passed
  BY <1>1, <1>2, <1>3 DEF Started
<1>6. Underway'
  <2>1. Calling /\ ~Calling'
    BY <1>1 DEF Calling
  <2>2. Passed \in Int /\ Passed' = Passed
    BY <1>2, <1>3
  <2> HIDE DEF Started, Read, Short, Calling, Telling, Passed
  <2>3. Short /\ call = "poll" => \E x, y \in Int : x <= y /\ Started(x)' /\ Read(y)'
    <3> SUFFICES ASSUME Short, call = "poll" PROVE \E x, y \in Int : x <= y /\ Started(x)' /\ Read(y)'
      OBVIOUS
    <3>1. PICK x \in Int : Started(x)
      BY <2>1 DEF DelayInv, Underway
    <3> QED
      BY <1>4, <1>5, <2>2, <3>1
  <2>4. Short' => \E y \in Int : Read(y)'
    BY <1>4, <2>2
  <2> QED
    BY <1>1, <1>2, <2>1, <2>3, <2>4 DEF Underway
<1> QED
  BY <1>2, <1>6 DEF DelayInv

\* delay() is told the time of that reading.
LEMMA DelayTold == ASSUME ClockInv, DelayInv, Return PROVE DelayInv'
<1>1. /\ UNCHANGED <<start, ms, asked, spent, now>> /\ pc = "return"
      /\ \/ call \in {"start", "poll"} /\ pc' = "delay" /\ ret' = Answer /\ call' = call
         \/ call \notin {"start", "poll"} /\ pc' = "idle" /\ ret' = ret /\ call' = "none"
  BY DEF Return
<1>2. Passed' = Passed /\ Short' = Short /\ Passed \in Nat /\ stamp * TICK_US \in Nat
  BY <1>1, Constants DEF Passed, Short, DelayInv, DelayTypes, ClockInv, ClockTypes
<1>3. CASE call \notin {"start", "poll"}
  <2>1. DelayTypes' /\ DelayNotEarly'
    BY <1>1, <1>3 DEF DelayInv, DelayTypes, DelayNotEarly
  <2>2. Underway'
    BY <1>1, <1>3 DEF Underway, Calling, Telling
  <2> QED
    BY <2>1, <2>2 DEF DelayInv
<1>4. CASE call \in {"start", "poll"}
  <2>1. ret' = (stamp * TICK_US) % U32
    BY <1>1, <1>4, InvIsTrue DEF ClockTrue, MicrosExact
  <2>2. ret' \in 0 .. U32 - 1
    <3> DEFINE q == stamp * TICK_US
    <3> HIDE DEF q
    <3>1. q \in Nat /\ ret' = q % U32
      BY <1>2, <2>1 DEF q
    <3> QED
      BY <3>1, Constants, DivMod
  <2>3. DelayTypes' /\ DelayNotEarly'
    BY <1>1, <1>4, <2>2, Constants DEF DelayInv, DelayTypes, DelayNotEarly
  <2>4. \A y \in Int : Read(y) => Read(y)'
    <3> SUFFICES ASSUME NEW y \in Int, Read(y) PROVE Read(y)'
      OBVIOUS
    <3>1. Told = stamp * TICK_US /\ Told' = ret'
      BY <1>1, <1>4 DEF Told
    <3>2. now * TICK_US + y \in Int
      BY Constants DEF ClockInv, ClockTypes
    <3> HIDE DEF Passed
    <3> DEFINE q == stamp * TICK_US
    <3> HIDE DEF q
    <3>3. q \in Int /\ Same(q + Passed, now * TICK_US + y) /\ ret' = q % U32 /\ y \in 0 .. Passed
      BY <1>2, <2>1, <3>1 DEF Read, q
    <3>4. Same(ret' + Passed, now * TICK_US + y)
      BY <1>2, <3>2, <3>3, SameReduced
    <3> QED
      BY <1>1, <1>2, <3>1, <3>3, <3>4 DEF Read
  <2>5. \A x \in Int : Started(x) => Started(x)'
    BY <1>1, <1>2 DEF Started
  <2>6. Telling /\ Telling' /\ ~Calling' /\ call' = call
    BY <1>1, <1>4 DEF Telling, Calling
  <2>7. Underway'
    <3> HIDE DEF Started, Read, Short, Calling, Telling
    <3>1. Short' => Short /\ Underway
      BY <1>2 DEF DelayInv
    <3>2. Short' /\ call = "start" => \E y \in Int : Read(y)'
      BY <2>4, <2>6, <3>1 DEF Underway
    <3>3. Short' /\ call = "poll" => \E x, y \in Int : x <= y /\ Started(x)' /\ Read(y)'
      <4> SUFFICES ASSUME Short', call = "poll" PROVE \E x, y \in Int : x <= y /\ Started(x)' /\ Read(y)'
        OBVIOUS
      <4>1. PICK x \in Int, y \in Int : x <= y /\ Started(x) /\ Read(y)
        BY <2>6, <3>1 DEF Underway
      <4> QED
        BY <4>1, <2>4, <2>5
    <3> QED
      BY <2>6, <3>2, <3>3 DEF Underway
  <2> QED
    BY <2>3, <2>7 DEF DelayInv
<1> QED
  BY <1>3, <1>4

\* delay() counts off a millisecond only when it has passed.
LEMMA DelayCounts == ASSUME ClockInv, DelayInv, DelayStep PROVE DelayInv'
<1>1. /\ pc = "delay" /\ UNCHANGED <<asked, spent, now>> /\ call \in {"start", "poll"}
      /\ start' = (IF call = "start" THEN ret ELSE IF Elapsed THEN start + MS ELSE start) % U32
      /\ ms' = (IF call = "poll" /\ Elapsed THEN ms - 1 ELSE ms) /\ ret' = 0
      /\ \/ ms' = 0 /\ pc' = "delayed" /\ call' = call
         \/ ms' # 0 /\ pc' = "low" /\ call' = "poll"
  BY DEF DelayStep, Enter, DelayInv, DelayTypes
<1>2. /\ Passed' = Passed /\ Short' = Short /\ Passed \in Nat /\ asked * MS \in Nat
      /\ ms \in Nat /\ asked \in Nat /\ ms <= asked /\ start \in Nat /\ ret \in Nat /\ now * TICK_US \in Nat
  BY <1>1, Constants DEF Passed, Short, DelayInv, DelayTypes, ClockInv, ClockTypes
<1>3. (call = "poll" => ms > 0) /\ (call = "start" => ms = asked)
  BY <1>1 DEF DelayInv, DelayTypes
<1>4. ms' \in Nat /\ ms' <= asked' /\ (call = "start" => ms' = asked')
  BY <1>1, <1>2, <1>3
<1>5. start' \in Nat
  <2> DEFINE a == IF call = "start" THEN ret ELSE IF Elapsed THEN start + MS ELSE start
  <2>1. a \in Nat /\ start' = a % U32
    BY <1>1, <1>2, Constants
  <2> HIDE DEF a
  <2>2. a % U32 \in 0 .. U32 - 1
    BY <2>1, Constants, DivMod
  <2> QED
    BY <2>1, <2>2
<1>6. DelayTypes'
  <2>1. /\ ms' \in Nat /\ asked' \in Nat /\ spent' \in Nat /\ start' \in Nat /\ ret' \in Nat /\ ms' <= asked'
        /\ call' = "start" => ms' = asked'
    BY <1>1, <1>2, <1>4, <1>5 DEF DelayInv, DelayTypes
  <2>2. /\ pc' \in {"low", "delayed"} /\ call' \in {"start", "poll"}
        /\ IF pc' = "delayed" THEN ms' = 0 ELSE ms' > 0
    <3>1. call' \in {"start", "poll"} /\ ((ms' = 0 /\ pc' = "delayed") \/ (ms' # 0 /\ pc' = "low"))
      BY <1>1, Zenon
    <3>2. ms' \in Nat
      BY <1>4
    <3> QED
      BY <3>1, <3>2
  <2> QED
    BY <2>1, <2>2 DEF DelayTypes
<1>7. ASSUME NEW a \in Int, NEW x \in 0 .. Passed, Same(a + Passed, now * TICK_US + x), start' = a % U32,
             (asked - ms') * MS <= x
      PROVE  Started(x)'
  <2> DEFINE c == now * TICK_US + x
  <2>1. c \in Int /\ Passed \in Int /\ Same(a + Passed, c)
    BY <1>2, <1>7
  <2> HIDE DEF c, Passed
  <2>2. Same((a % U32) + Passed, c)
    BY <2>1, SameReduced
  <2> QED
    BY <1>1, <1>2, <1>7, <2>2 DEF Started, c
<1>8. ASSUME Short PROVE \E x \in Int : Started(x)'
  <2>1. CASE call = "start"
    <3>1. PICK y \in Int : Read(y)
      BY <1>1, <1>8, <2>1 DEF DelayInv, Underway, Telling
    <3>2. y \in 0 .. Passed /\ Same(ret + Passed, now * TICK_US + y)
      BY <1>1, <3>1 DEF Read, Told
    <3>3. start' = ret % U32 /\ asked - ms' = 0
      BY <1>1, <1>2, <1>3, <2>1
    <3>4. (asked - ms') * MS <= y
      BY <3>2, <3>3, <1>2, Constants
    <3> QED
      BY <1>2, <1>7, <3>2, <3>3, <3>4
  <2>2. CASE call = "poll"
    <3>1. PICK x \in Int, y \in Int : x <= y /\ Started(x) /\ Read(y)
      BY <1>1, <1>8, <2>2 DEF DelayInv, Underway, Telling
    <3>2. /\ x \in 0 .. Passed /\ Same(start + Passed, now * TICK_US + x) /\ (asked - ms) * MS <= x
          /\ y \in 0 .. Passed /\ Same(ret + Passed, now * TICK_US + y)
      BY <1>1, <3>1 DEF Read, Started, Told
    <3>3. CASE ~Elapsed
      <4>1. start' = start % U32 /\ ms' = ms
        BY <1>1, <2>2, <3>3
      <4> QED
        BY <1>2, <1>7, <3>2, <4>1
    <3>4. CASE Elapsed
      <4>1. start' = (start + MS) % U32 /\ ms' = ms - 1
        BY <1>1, <2>2, <3>4
      <4>2. (ret - start) % U32 <= y - x
        <5> DEFINE c == now * TICK_US
        <5>1. c \in Int /\ Same(start + Passed, c + x) /\ Same(ret + Passed, c + y)
          BY <1>2, <3>2
        <5> HIDE DEF c, Passed
        <5> QED
          BY <1>2, <3>1, <5>1, SameLess
      <4>3. (ret - start) % U32 \in Int /\ (ret - start) % U32 >= MS
        <5> DEFINE d == ret - start
        <5> HIDE DEF d
        <5>1. d \in Int
          BY <1>2 DEF d
        <5>2. d % U32 \in Int
          BY <5>1, Constants
        <5> QED
          BY <3>4, <5>2 DEF Elapsed, d
      <4>4. x + MS <= y
        <5> DEFINE r == (ret - start) % U32
        <5> HIDE DEF r
        <5>1. r \in Int /\ r >= MS /\ r <= y - x
          BY <4>2, <4>3 DEF r
        <5> QED
          BY <3>1, <5>1, Constants
      <4>5. x + MS \in 0 .. Passed
        BY <1>2, <3>2, <4>4, Constants
      <4>6. Same((start + MS) + Passed, now * TICK_US + (x + MS))
        <5>1. PICK k \in Int : start + Passed = now * TICK_US + x + k * U32
          BY <3>2 DEF Same
        <5> DEFINE c == now * TICK_US  ku == k * U32
        <5>2. c \in Int /\ ku \in Int /\ start + Passed = c + x + ku
          BY <1>2, <5>1, Constants
        <5> HIDE DEF c, ku, Passed
        <5>3. (start + MS) + Passed = c + (x + MS) + ku
          BY <1>2, <3>1, <5>2, Constants
        <5> QED
          BY <5>3 DEF Same, c, ku
      <4>7. (asked - ms') * MS <= x + MS
        <5>1. asked - ms' = (asked - ms) + 1 /\ asked - ms \in Int
          BY <1>2, <4>1
        <5>2. ((asked - ms) + 1) * MS = (asked - ms) * MS + MS /\ (asked - ms) * MS \in Int
          BY <5>1, NextTimes
        <5> QED
          BY <3>1, <3>2, <5>1, <5>2, Constants
      <4>8. start + MS \in Int /\ x + MS \in Int
        BY <1>2, <3>1, Constants
      <4> QED
        BY <1>7, <4>1, <4>5, <4>6, <4>7, <4>8
    <3> QED
      BY <3>3, <3>4
  <2> QED
    BY <1>1, <2>1, <2>2
<1>9. CASE ms' = 0
  <2>1. ~Short
    <3> SUFFICES ASSUME Short PROVE FALSE
      OBVIOUS
    <3>1. PICK x \in Int : Started(x)'
      BY <1>8
    <3>2. x \in 0 .. Passed /\ (asked - 0) * MS <= x
      BY <1>1, <1>2, <1>9, <3>1 DEF Started
    <3>3. asked - 0 = asked
      BY <1>2
    <3> QED
      BY <1>2, <3>2, <3>3 DEF Short
  <2>2. DelayNotEarly'
    BY <1>1, <1>2, <2>1 DEF DelayNotEarly, Short, Passed
  <2>3. Underway'
    BY <1>2, <2>1 DEF Underway
  <2> QED
    BY <1>6, <2>2, <2>3 DEF DelayInv
<1>10. CASE ms' # 0
  <2>1. pc' = "low" /\ call' = "poll"
    BY <1>1, <1>10
  <2>2. DelayNotEarly' /\ ~Telling'
    BY <2>1 DEF DelayNotEarly, Telling
  <2>3. Underway'
    <3> HIDE DEF Started, Short, Telling
    <3> QED
      BY <1>2, <1>8, <2>2 DEF Underway
  <2> QED
    BY <1>6, <2>2, <2>3 DEF DelayInv
<1> QED
  BY <1>9, <1>10

\* The sketch calls, and goes on after a call.
LEMMA DelayEnters ==
    ASSUME DelayInv, millis \/ micros \/ (\E d \in Delays : delay(d)) \/ DelayReturn
    PROVE  DelayInv'
<1>1. \A d \in Delays : d \in Nat
  BY BoundAssumption
<1>2. DelayTypes' /\ DelayNotEarly'
  <2>1. CASE millis \/ micros
    BY <2>1 DEF millis, micros, Enter, DelayInv, DelayTypes, DelayNotEarly
  <2>2. CASE \E d \in Delays : delay(d)
    <3> PICK d \in Delays : delay(d)
      BY <2>2
    <3>1. d \in Nat /\ pc' = "low" /\ call' = "start" /\ ms' = d /\ asked' = d /\ spent' = 0
          /\ UNCHANGED <<start, ret>>
      BY <1>1 DEF delay, Enter
    <3> QED
      BY <3>1 DEF DelayInv, DelayTypes, DelayNotEarly
  <2>3. CASE DelayReturn
    BY <2>3 DEF DelayReturn, DelayInv, DelayTypes, DelayNotEarly
  <2> QED
    BY <2>1, <2>2, <2>3
<1>3. Underway'
  BY DEF millis, micros, delay, DelayReturn, Enter, Underway, Calling, Telling
<1> QED
  BY <1>2, <1>3 DEF DelayInv

LEMMA DelayKeeps == ASSUME ClockInv, DelayInv, [WaitsNext]_waitVars PROVE DelayInv'
<1>1. CASE UNCHANGED clockVars
  <2>1. UNCHANGED <<pc, call, start, ms, ret, stamp, asked, spent, now>>
    BY <1>1 DEF clockVars, locals, past
  <2>2. Passed' = Passed /\ Short' = Short /\ Told' = Told /\ Calling' = Calling /\ Telling' = Telling
    BY <2>1 DEF Passed, Short, Told, Calling, Telling
  <2>3. \A x \in Int : (Started(x) <=> Started(x)') /\ (Read(x) <=> Read(x)')
    BY <2>1, <2>2 DEF Started, Read
  <2>4. DelayTypes' /\ DelayNotEarly'
    BY <2>1 DEF DelayInv, DelayTypes, DelayNotEarly
  <2>5. Underway'
    <3> HIDE DEF Started, Read, Short, Calling, Telling
    <3> QED
      BY <2>1, <2>2, <2>3 DEF DelayInv, Underway
  <2> QED
    BY <2>4, <2>5 DEF DelayInv
<1>2. CASE ClockNext
  BY <1>2, DelayTick, DelayLoads, DelayReads, DelayTold, DelayCounts, DelayEnters
     DEF ClockNext, ClockSketch, InCall
<1> QED
  BY <1>1, <1>2 DEF WaitsNext, waitVars

\* delay() does not return before its time, however late its readings come and across
\* every wrap of micros(), whose differences never exceed the time that passed
\* (wiring.c:106).  For every width and every delay.
THEOREM DelaysAreWhole == ASSUME Prompt PROVE WaitsSpec => []DelayNotEarly
<1>1. WaitsInit => ClockInv /\ DelayInv
  BY ClockStarts, DelayStarts DEF WaitsInit
<1>2. ClockInv /\ DelayInv /\ [WaitsNext]_waitVars => (ClockInv /\ DelayInv)'
  BY ClockKeeps, DelayKeeps
<1>3. DelayInv => DelayNotEarly
  BY DEF DelayInv
<1> QED
  BY <1>1, <1>2, <1>3, PTL DEF WaitsSpec

-----------------------------------------------------------------------------
(* The pitch of a tone *)

HalfPeriod(f) == F_CPU \div (2 * f)

\* The timer's half period is the largest that it can make, not longer than asked.
Pitched(f, k, c) ==
    HalfPeriod(f) > 0 =>
        /\ Timer2Dividers[k] * (c + 1) <= HalfPeriod(f)
        /\ HalfPeriod(f) < Timer2Dividers[k] * (c + 2)

\* From one prescaler to the next is at most a factor of 8: a count that is too large
\* becomes a count, not zero.
Deep == OCR_MAX >= 6

LEMMA ToneConstants ==
    /\ F_CPU \in Nat /\ OCR_MAX \in Nat /\ HALF \in Nat /\ HALF > 0
    /\ 255 \notin TonePins /\ Durations \subseteq Nat
    /\ \A f \in Frequencies : f \in Nat /\ f > 0
BY ToneAssumption

\* Dividing at once, and in two steps
LEMMA DivTwice ==
    ASSUME NEW a \in Nat, NEW b \in Nat, b > 0, NEW d \in Nat, d > 0
    PROVE  /\ a \div b \in Nat /\ a \div (b * d) \in Nat
           /\ d * (a \div (b * d)) <= a \div b
           /\ a \div b < d * (a \div (b * d)) + d
<1>1. b * d \in Nat /\ b * d > 0
  <2>1. b * 0 + b <= b * d
    BY Multiples
  <2> QED
    BY <2>1
<1> DEFINE h == a \div b  q == a \div (b * d)  s == a % b  r == a % (b * d)
<1>2. h \in Nat /\ s \in 0 .. b - 1 /\ a = b * h + s
  BY DivMod
<1>3. q \in Nat /\ r \in 0 .. b * d - 1 /\ a = (b * d) * q + r
  BY <1>1, DivMod
<1> HIDE DEF h, q, s, r
<1>4. d * q \in Nat /\ (b * d) * q = b * (d * q) /\ b * (d * q + d) = b * (d * q) + b * d
  BY <1>2, <1>3
<1>5. b * h \in Nat /\ b * (d * q) \in Nat
  BY <1>2, <1>4
<1>6. ~(h < d * q)
  <2>1. h < d * q => b * h + b <= b * (d * q)
    BY <1>2, <1>4, Multiples
  <2> DEFINE x == b * h  y == b * (d * q)
  <2>2. x \in Nat /\ y \in Nat /\ a = x + s /\ a = y + r /\ r \in Nat
    BY <1>1, <1>2, <1>3, <1>4, <1>5
  <2> HIDE DEF x, y
  <2>3. ~(x + b <= y)
    BY <2>2, <1>2
  <2> QED
    BY <2>1, <2>3 DEF x, y
<1>7. ~(d * q + d <= h)
  <2>1. d * q + d <= h => b * (d * q + d) <= b * h
    <3>1. CASE d * q + d = h
      BY <3>1, <1>5
    <3>2. CASE d * q + d < h
      <4>1. b * (d * q + d) + b <= b * h
        BY <3>2, <1>2, <1>4, Multiples
      <4> QED
        BY <4>1, <1>4, <1>5
    <3> QED
      BY <3>1, <3>2, <1>2, <1>4
  <2> DEFINE x == b * h  y == b * (d * q)  z == b * d
  <2>2. x \in Nat /\ y \in Nat /\ z \in Nat /\ a = x + s /\ a = y + r /\ r \in 0 .. z - 1
    BY <1>1, <1>2, <1>3, <1>4, <1>5
  <2> HIDE DEF x, y, z
  <2>3. ~(y + z <= x)
    BY <2>2, <1>2
  <2> QED
    BY <2>1, <2>3, <1>4 DEF x, y, z
<1> QED
  BY <1>2, <1>3, <1>4, <1>6, <1>7 DEF h, q

\* What the timer counts, against the half period
LEMMA StepsOf ==
    ASSUME NEW f \in Frequencies, NEW k \in 1 .. 7
    PROVE  /\ HalfPeriod(f) \in Nat /\ Steps(f, Timer2Dividers[k]) \in Nat
           /\ Timer2Dividers[k] \in Nat /\ Timer2Dividers[k] > 0
           /\ Timer2Dividers[k] * Steps(f, Timer2Dividers[k]) <= HalfPeriod(f)
           /\ HalfPeriod(f) < Timer2Dividers[k] * Steps(f, Timer2Dividers[k]) + Timer2Dividers[k]
<1>1. Timer2Dividers[k] \in Nat /\ Timer2Dividers[k] > 0
  BY DEF Timer2Dividers
<1> DEFINE d == Timer2Dividers[k]  b == 2 * f
<1>2. b \in Nat /\ b > 0 /\ d \in Nat /\ d > 0 /\ F_CPU \in Nat
  BY <1>1, ToneConstants
<1> HIDE DEF d, b
<1>3. /\ F_CPU \div b \in Nat /\ F_CPU \div (b * d) \in Nat
      /\ d * (F_CPU \div (b * d)) <= F_CPU \div b
      /\ F_CPU \div b < d * (F_CPU \div (b * d)) + d
  BY <1>2, DivTwice
<1> QED
  BY <1>1, <1>3 DEF HalfPeriod, Steps, d, b

\* If any prescaler fits, the one chosen is the first that does.
LEMMA FitsLeast ==
    ASSUME NEW f \in Frequencies, Fitting(f) # {}
    PROVE  prescalarbits(f) \in Fitting(f) /\ \A l \in Fitting(f) : prescalarbits(f) <= l
<1>1. \E k \in Fitting(f) : \A l \in Fitting(f) : k <= l
  <2>1. Fitting(f) \subseteq 1 .. 7
    BY DEF Fitting
  <2>2. \A k \in 1 .. 7 : k = 1 \/ k = 2 \/ k = 3 \/ k = 4 \/ k = 5 \/ k = 6 \/ k = 7
    OBVIOUS
  <2> HIDE DEF Fitting
  <2>3. CASE 1 \in Fitting(f)
    BY <2>1, <2>3
  <2>4. CASE 1 \notin Fitting(f) /\ 2 \in Fitting(f)
    BY <2>1, <2>2, <2>4
  <2>5. CASE {1, 2} \intersect Fitting(f) = {} /\ 3 \in Fitting(f)
    BY <2>1, <2>2, <2>5
  <2>6. CASE {1, 2, 3} \intersect Fitting(f) = {} /\ 4 \in Fitting(f)
    BY <2>1, <2>2, <2>6
  <2>7. CASE {1, 2, 3, 4} \intersect Fitting(f) = {}
    BY <2>1, <2>2, <2>7
  <2> QED
    BY <2>3, <2>4, <2>5, <2>6, <2>7
<1>2. prescalarbits(f) = CHOOSE k \in Fitting(f) : \A l \in Fitting(f) : k <= l
  BY DEF prescalarbits
<1> QED
  BY <1>1, <1>2

\* The prescaler that fits, fits; and none below it does.
LEMMA Chosen ==
    ASSUME NEW f \in Frequencies, ocr(f) <= OCR_MAX
    PROVE  /\ prescalarbits(f) \in 1 .. 7
           /\ \A k \in 1 .. 7 : k < prescalarbits(f) => Ocr(f, Timer2Dividers[k]) > OCR_MAX
<1>1. Fitting(f) # {}
  <2> SUFFICES ASSUME Fitting(f) = {} PROVE FALSE
    OBVIOUS
  <2>1. prescalarbits(f) = 7
    BY DEF prescalarbits
  <2>2. 7 \in Fitting(f)
    BY <2>1 DEF ocr, Fitting
  <2> QED
    BY <2>2
<1>3. prescalarbits(f) \in Fitting(f) /\ \A l \in Fitting(f) : prescalarbits(f) <= l
  BY <1>1, FitsLeast
<1>4. prescalarbits(f) \in 1 .. 7
  BY <1>3 DEF Fitting
<1>5. \A k \in 1 .. 7 : k < prescalarbits(f) => Ocr(f, Timer2Dividers[k]) > OCR_MAX
  <2> SUFFICES ASSUME NEW k \in 1 .. 7, k < prescalarbits(f) PROVE Ocr(f, Timer2Dividers[k]) > OCR_MAX
    OBVIOUS
  <2>1. k \notin Fitting(f)
    BY <1>3, <1>4
  <2>2. ~(Ocr(f, Timer2Dividers[k]) <= OCR_MAX)
    BY <2>1 DEF Fitting
  <2>3. Ocr(f, Timer2Dividers[k]) \in Int
    BY StepsOf DEF Ocr
  <2> QED
    BY <2>2, <2>3, ToneConstants
<1> QED
  BY <1>4, <1>5

LEMMA Pitch ==
    ASSUME Deep, NEW f \in Frequencies, ocr(f) <= OCR_MAX
    PROVE  ocr(f) \in 0 .. OCR_MAX /\ Pitched(f, prescalarbits(f), ocr(f))
<1> DEFINE k == prescalarbits(f)  d == Timer2Dividers[k]  n == Steps(f, d)  h == HalfPeriod(f)
<1>1. k \in 1 .. 7 /\ \A l \in 1 .. 7 : l < k => Ocr(f, Timer2Dividers[l]) > OCR_MAX
  BY Chosen
<1>2. h \in Nat /\ n \in Nat /\ d \in Nat /\ d > 0 /\ d * n <= h /\ h < d * n + d
  BY <1>1, StepsOf
<1>3. ocr(f) = IF n = 0 THEN 0 ELSE n - 1
  BY DEF ocr, Ocr
<1>4. ocr(f) \in 0 .. OCR_MAX
  BY <1>2, <1>3, ToneConstants
<1>5. h > 0 => n > 0
  <2>1. CASE k = 1
    <3>1. d = 1
      BY <2>1 DEF Timer2Dividers
    <3> QED
      BY <3>1, <1>2
  <2>2. CASE k # 1
    <3> DEFINE l == k - 1  e == Timer2Dividers[l]  o == Steps(f, e)
    <3>1. l \in 1 .. 7 /\ l < k
      BY <1>1, <2>2
    <3>2. o \in Nat /\ e \in Nat /\ e > 0 /\ e * o <= h /\ Ocr(f, e) > OCR_MAX
      BY <1>1, <3>1, StepsOf
    <3>3. o > 7
      BY <3>2, ToneConstants DEF Ocr, Deep
    <3>4. d <= 8 * e
      BY <1>1, <2>2 DEF Timer2Dividers
    <3> HIDE DEF l, e, o
    <3>5. e * 7 + e <= e * o
      BY <3>2, <3>3, Multiples
    <3>6. e * o \in Nat
      BY <3>2
    <3>7. d <= h
      BY <1>2, <3>2, <3>4, <3>5, <3>6
    <3> HIDE DEF d, n, h
    <3>8. n # 0
      BY <1>2, <3>7
    <3> QED
      BY <1>2, <3>8
  <2> QED
    BY <2>1, <2>2
<1> HIDE DEF k, d, n, h
<1>6. h > 0 => d * (ocr(f) + 1) <= h /\ h < d * (ocr(f) + 2)
  <2> SUFFICES ASSUME h > 0 PROVE d * (ocr(f) + 1) <= h /\ h < d * (ocr(f) + 2)
    OBVIOUS
  <2>1. ocr(f) + 1 = n /\ ocr(f) + 2 = n + 1
    BY <1>2, <1>3, <1>5
  <2>2. d * (n + 1) = d * n + d
    BY <1>2
  <2> QED
    BY <1>2, <2>1, <2>2
<1> QED
  BY <1>4, <1>6 DEF Pitched, k, d, h

-----------------------------------------------------------------------------
(* A tone *)

Setting  == {"prescale", "compare", "low", "high", "enable"}
Stopping == {"noTone", "disable", "write"}

ToneTypes ==
    /\ tone_pins \in TonePins \union {255} /\ timer2_pin \in TonePins \union {255}
    /\ OCIE2A \in BOOLEAN /\ toggle_count \in Int /\ toggles \in Nat
    /\ output \in [TonePins -> {0, 1}]
    /\ doing \in {"idle", "begin"} \union Setting \union Stopping
    /\ doing # "idle" => tune.pin \in TonePins
    /\ doing \in {"begin"} \union Setting => tune.f \in Frequencies /\ tune.d \in Durations

\* What a tone that sounds is
Playing ==
    /\ tone_pins = played.pin /\ Pitched(played.f, prescaler, OCR2A)
    /\ toggle_count >= 0 => toggles + toggle_count = played.d

\* A pin has the timer while its interrupt is on, and the timer works for this pin.
Held ==
    /\ tone_pins # 255 => mode = "ctc" /\ timer2_pin = tone_pins
    /\ doing \in {"idle", "begin", "write"} => (tone_pins = 255 <=> ~OCIE2A)
    /\ doing = "noTone" /\ tone_pins # tune.pin => (tone_pins = 255 <=> ~OCIE2A)
    /\ doing = "disable" => tone_pins = 255 /\ timer2_pin = tune.pin

\* Outside of tone() on its own pin, what sounds is the last tone started, ...
Sounding ==
    OCIE2A /\ (doing \in {"idle", "begin", "write"} \/ (doing = "noTone" /\ tone_pins # tune.pin)) => Playing

\* ... and in tone(), what has been set so far is of the tone to come.
Wanted == IF tune.d > 0 THEN tune.d ELSE -1
SetSoFar ==
    /\ doing \in Setting => tone_pins = tune.pin
    /\ doing \in Setting \ {"prescale"} => prescaler = prescalarbits(tune.f) /\ ocr(tune.f) <= OCR_MAX
    /\ doing \in {"low", "high", "enable"} => OCR2A = ocr(tune.f)
    /\ doing \in {"low", "high"} => newCount = Wanted
    /\ doing = "high" => toggle_count % HALF = newCount % HALF
    /\ doing = "enable" => (toggle_count >= 0 => toggles + toggle_count = tune.d)

\* Only the pin of the tone is high, or the one that is being put low.
Lit == \A p \in TonePins : output[p] = 1 => p = tone_pins \/ (doing \in {"disable", "write"} /\ p = tune.pin)

\* Unless the handler met a count that tone() was storing, or a tone that it was changing
ToneInv == raced \/ (ToneTypes /\ Held /\ Sounding /\ SetSoFar /\ Lit)

LEMMA ToneStarts == ToneInit => ToneInv
<1> SUFFICES ASSUME ToneInit PROVE ToneInv
  OBVIOUS
<1>1. ToneTypes
  <2>1. output \in [TonePins -> {0, 1}] /\ OCIE2A \in BOOLEAN
    BY DEF ToneInit
  <2>2. tone_pins = 255 /\ timer2_pin = 255 /\ toggle_count = 0 /\ toggles = 0 /\ doing = "idle"
    BY DEF ToneInit
  <2> QED
    BY <2>1, <2>2 DEF ToneTypes, Setting, Stopping
<1>2. Held /\ Sounding /\ SetSoFar
  BY DEF ToneInit, Held, Sounding, SetSoFar, Setting
<1>3. Lit
  BY DEF ToneInit, Lit
<1> QED
  BY <1>1, <1>2, <1>3 DEF ToneInv

\* The halves of a count
LEMMA HalvesJoin ==
    ASSUME NEW a \in Int, NEW b \in Int
    PROVE  /\ HALF * (a \div HALF) + (b % HALF) \in Int
           /\ (HALF * (a \div HALF) + (b % HALF)) % HALF = b % HALF
           /\ HALF * (b \div HALF) + (b % HALF) = b
<1> DEFINE q == a \div HALF  r == b % HALF  s == b \div HALF
<1>1. q \in Int /\ s \in Int /\ r \in 0 .. HALF - 1 /\ b = HALF * s + r
  BY ToneConstants
<1> HIDE DEF q, r, s
<1> DEFINE x == HALF * q + r
<1>2. x \in Int
  BY <1>1, ToneConstants
<1>3. /\ x \div HALF \in Int /\ x % HALF \in 0 .. HALF - 1
      /\ x = HALF * (x \div HALF) + (x % HALF)
  <2> HIDE DEF x
  <2> QED
    BY <1>2, ToneConstants
<1>4. HALF * (x \div HALF) + (x % HALF) = HALF * q + r
  BY <1>3
<1>5. x % HALF = r
  <2> HIDE DEF x
  <2> QED
    BY <1>1, <1>3, <1>4, ToneConstants, Remainders
<1> QED
  BY <1>1, <1>2, <1>5 DEF q, r, s

ToneWell == ToneTypes /\ Held /\ Sounding /\ SetSoFar /\ Lit

\* tone() asks for the timer, ...
LEMMA ToneBegins ==
    ASSUME ToneWell, \/ toneBegin
                     \/ \E p \in TonePins, f \in Frequencies, d \in Durations : tone(p, f, d)
                     \/ \E p \in TonePins : noTone(p)
    PROVE  ToneWell'
<1> USE ToneConstants
<1>1. CASE \E p \in TonePins, f \in Frequencies, d \in Durations : tone(p, f, d)
  <2> PICK p \in TonePins, f \in Frequencies, d \in Durations : tone(p, f, d)
    BY <1>1
  <2>1. doing = "idle" /\ doing' = "begin" /\ tune'.pin = p /\ tune'.f = f /\ tune'.d = d
        /\ UNCHANGED <<tone_pins, timer2, toneData, output, newCount, played, toggles, raced>>
    BY DEF tone
  <2>2. ToneTypes'
    BY <2>1 DEF ToneWell, ToneTypes, timer2, toneData
  <2>3. Held' /\ Sounding' /\ SetSoFar'
    BY <2>1 DEF ToneWell, Held, Sounding, Playing, SetSoFar, Setting, timer2, toneData
  <2>4. Lit'
    BY <2>1 DEF ToneWell, Lit
  <2> QED
    BY <2>2, <2>3, <2>4 DEF ToneWell
<1>2. CASE \E p \in TonePins : noTone(p)
  <2> PICK p \in TonePins : noTone(p)
    BY <1>2
  <2>1. doing = "idle" /\ doing' = "noTone" /\ tune'.pin = p
        /\ UNCHANGED <<tone_pins, timer2, toneData, output, newCount, played, toggles, raced>>
    BY DEF noTone, None
  <2>2. ToneTypes'
    BY <2>1 DEF ToneWell, ToneTypes, Setting, Stopping, timer2, toneData
  <2>3. Held' /\ Sounding' /\ SetSoFar'
    BY <2>1 DEF ToneWell, Held, Sounding, Playing, SetSoFar, Setting, timer2, toneData
  <2>4. Lit'
    BY <2>1 DEF ToneWell, Lit
  <2> QED
    BY <2>2, <2>3, <2>4 DEF ToneWell
<1>3. CASE toneBegin
  <2>1. ToneTypes'
    BY <1>3 DEF toneBegin, IsFree, ToneWell, ToneTypes, Setting
  <2>2. Held' /\ Sounding' /\ SetSoFar'
    BY <1>3 DEF toneBegin, IsFree, ToneWell, ToneTypes, Held, Sounding, Playing, SetSoFar, Setting
  <2>3. Lit'
    BY <1>3 DEF toneBegin, IsFree, ToneWell, ToneTypes, Lit
  <2> QED
    BY <2>1, <2>2, <2>3 DEF ToneWell
<1> QED
  BY <1>1, <1>2, <1>3

LEMMA WantedNumber == ASSUME ToneTypes, doing \in Setting PROVE tune.d \in Nat /\ Wanted \in Int
<1>1. tune.d \in Durations
  BY DEF ToneTypes
<1>2. tune.d \in Nat
  BY <1>1, ToneConstants
<1> QED
  BY <1>2 DEF Wanted

\* ... sets the timer and the count, ...
LEMMA ToneSets ==
    ASSUME Deep, ToneWell, SetPrescaler \/ SetCompare \/ SetCountLow \/ SetCountHigh \/ EnableTone
    PROVE  ToneWell'
<1> USE ToneConstants
<1>1. CASE SetPrescaler
  <2>1. ToneTypes'
    BY <1>1 DEF SetPrescaler, ToneWell, ToneTypes, Setting, Stopping, toneData
  <2>2. Held' /\ Sounding' /\ Lit'
    BY <1>1 DEF SetPrescaler, ToneWell, ToneTypes, Held, Sounding, SetSoFar, Lit, Setting, toneData
  <2>3. SetSoFar'
    BY <1>1 DEF SetPrescaler, Fits, ToneWell, SetSoFar, Setting
  <2> QED
    BY <2>1, <2>2, <2>3 DEF ToneWell
<1>2. CASE SetCompare
  <2>1. ToneTypes' /\ Held' /\ Sounding' /\ Lit'
    BY <1>2 DEF SetCompare, ToneWell, ToneTypes, Held, Sounding, Lit, Setting, toneData
  <2>2. OCR2A' = ocr(tune.f)
    <3>1. ocr(tune.f) \in 0 .. OCR_MAX
      BY <1>2, Pitch DEF SetCompare, ToneWell, ToneTypes, SetSoFar, Setting
    <3> DEFINE c == ocr(tune.f)
    <3>2. OCR2A' = c % (OCR_MAX + 1)
      BY <1>2 DEF SetCompare
    <3> HIDE DEF c
    <3>3. c \in 0 .. OCR_MAX
      BY <3>1 DEF c
    <3>4. c % (OCR_MAX + 1) = c
      BY <3>3
    <3> QED
      BY <3>2, <3>4 DEF c
  <2>3. SetSoFar'
    BY <1>2, <2>2 DEF SetCompare, ToneWell, SetSoFar, Setting, Wanted
  <2> QED
    BY <2>1, <2>3 DEF ToneWell
<1>3. CASE SetCountLow
  <2>1. newCount \in Int /\ newCount = Wanted
    BY <1>3, WantedNumber DEF SetCountLow, ToneWell, SetSoFar, Setting
  <2>2. toggle_count' \in Int /\ toggle_count' % HALF = newCount % HALF
    BY <1>3, <2>1, HalvesJoin DEF SetCountLow, ToneWell, ToneTypes
  <2>3. ToneTypes' /\ Held' /\ Sounding' /\ Lit'
    BY <1>3, <2>2 DEF SetCountLow, ToneWell, ToneTypes, Held, Sounding, Lit, Setting, timer2
  <2>4. SetSoFar'
    BY <1>3, <2>1, <2>2 DEF SetCountLow, ToneWell, SetSoFar, Setting, Wanted, timer2
  <2> QED
    BY <2>3, <2>4 DEF ToneWell
<1>4. CASE SetCountHigh
  <2>1. newCount \in Int /\ newCount = Wanted /\ tune.d \in Nat
    BY <1>4, WantedNumber DEF SetCountHigh, ToneWell, SetSoFar, Setting
  <2>2. toggle_count' = newCount
    <3>1. toggle_count' = HALF * (newCount \div HALF) + (newCount % HALF)
      BY <1>4 DEF SetCountHigh, HighHalf, ToneWell, SetSoFar
    <3> QED
      BY <2>1, <3>1, HalvesJoin
  <2>3. ToneTypes' /\ Held' /\ Sounding' /\ Lit'
    BY <1>4, <2>1, <2>2 DEF SetCountHigh, ToneWell, ToneTypes, Held, Sounding, Lit, Setting, timer2
  <2>4. toggle_count' >= 0 => toggle_count' = tune.d
    BY <2>1, <2>2 DEF Wanted
  <2>5. SetSoFar'
    BY <1>4, <2>1, <2>4 DEF SetCountHigh, ToneWell, SetSoFar, Setting, timer2
  <2> QED
    BY <2>3, <2>5 DEF ToneWell
<1>5. CASE EnableTone
  <2>1. Pitched(tune.f, prescaler, OCR2A)
    BY <1>5, Pitch DEF EnableTone, ToneWell, ToneTypes, SetSoFar, Setting
  <2>2. Playing'
    BY <1>5, <2>1 DEF EnableTone, ToneWell, SetSoFar, Setting, Playing, Pitched, toneData
  <2>3. ToneTypes' /\ Held' /\ SetSoFar' /\ Lit'
    BY <1>5 DEF EnableTone, ToneWell, ToneTypes, Held, SetSoFar, Lit, Setting, toneData
  <2> QED
    BY <2>2, <2>3 DEF ToneWell, Sounding
<1> QED
  BY <1>1, <1>2, <1>3, <1>4, <1>5

\* ... and noTone() gives the timer back.
LEMMA ToneStops == ASSUME ToneWell, FreeTimer \/ Disable \/ Write PROVE ToneWell'
<1> USE ToneConstants
<1>1. CASE FreeTimer
  <2>1. ToneTypes'
    BY <1>1 DEF FreeTimer, ToneWell, ToneTypes, Setting, Stopping, timer2, toneData
  <2>2. Held' /\ SetSoFar'
    BY <1>1 DEF FreeTimer, ToneWell, ToneTypes, Held, SetSoFar, Setting, timer2, toneData
  <2>3. Sounding'
    BY <1>1 DEF FreeTimer, ToneWell, Sounding, Playing, Pitched, timer2, toneData
  <2>4. Lit'
    BY <1>1 DEF FreeTimer, ToneWell, Lit
  <2> QED
    BY <2>1, <2>2, <2>3, <2>4 DEF ToneWell
<1>2. CASE Disable
  <2>1. ToneTypes' /\ Held' /\ SetSoFar' /\ Sounding'
    BY <1>2 DEF Disable, disableTimer, ToneWell, ToneTypes, Held, SetSoFar, Sounding, Setting, Stopping, toneData
  <2>2. Lit'
    BY <1>2 DEF Disable, ToneWell, Lit
  <2> QED
    BY <2>1, <2>2 DEF ToneWell
<1>3. CASE Write
  <2>1. output' \in [TonePins -> {0, 1}] /\ \A p \in TonePins : output'[p] = 1 => output[p] = 1 /\ p # tune.pin
    BY <1>3 DEF Write, Low, ToneWell, ToneTypes
  <2>2. ToneTypes' /\ Held' /\ SetSoFar'
    BY <1>3, <2>1 DEF Write, ToneWell, ToneTypes, Held, SetSoFar, Setting, timer2, toneData
  <2>3. Sounding'
    BY <1>3 DEF Write, ToneWell, Sounding, Playing, Pitched, timer2, toneData
  <2>4. Lit'
    BY <1>3, <2>1 DEF Write, ToneWell, Lit
  <2> QED
    BY <2>2, <2>3, <2>4 DEF ToneWell
<1> QED
  BY <1>1, <1>2, <1>3

\* The handler toggles the pin that has the timer, ...
LEMMA ToneToggles == ASSUME ToneWell, ToggleOutput, ~raced' PROVE ToneWell'
<1> USE ToneConstants
<1>1. timer2_pin \in TonePins /\ (timer2_pin = tone_pins \/ (doing = "disable" /\ timer2_pin = tune.pin))
  BY DEF ToggleOutput, ToneWell, ToneTypes, Held, SetSoFar, Setting, Stopping
<1>2. /\ output' \in [TonePins -> {0, 1}]
      /\ \A p \in TonePins \ {timer2_pin} : output'[p] = output[p]
  BY <1>1 DEF ToggleOutput, ToneWell, ToneTypes
<1>3. /\ toggle_count' \in Int /\ toggles' \in Nat /\ (toggle_count' >= 0 => toggle_count >= 0)
      /\ toggle_count >= 0 => toggles' + toggle_count' = toggles + toggle_count
      /\ doing = "high" => toggle_count' = toggle_count
  <2>1. toggle_count \in Int /\ toggles \in Nat /\ toggle_count # 0
    BY DEF ToggleOutput, Ends, ToneWell, ToneTypes
  <2>2. /\ toggle_count' = IF toggle_count > 0 THEN toggle_count - 1 ELSE toggle_count
        /\ toggles' = IF toggle_count > 0 THEN toggles + 1 ELSE toggles
    BY DEF ToggleOutput
  <2>3. ~(toggle_count > 0 /\ doing = "high")
    BY Zenon DEF ToggleOutput
  <2> QED
    BY <2>1, <2>2, <2>3
<1>4. ToneTypes' /\ Held'
  BY <1>2, <1>3 DEF ToggleOutput, ToneWell, ToneTypes, Held, timer2
<1>5. Sounding'
  BY <1>3 DEF ToggleOutput, ToneWell, Sounding, Playing, Pitched, timer2
<1>6. SetSoFar'
  BY <1>3 DEF ToggleOutput, ToneWell, SetSoFar, Setting, Wanted, timer2
<1>7. Lit'
  BY <1>1, <1>2 DEF ToggleOutput, ToneWell, Lit
<1> QED
  BY <1>4, <1>5, <1>6, <1>7 DEF ToneWell

\* ... and at the end frees it.
LEMMA ToneEnds == ASSUME ToneWell, EndTone, ~raced' PROVE ToneWell'
<1> USE ToneConstants
<1>1. doing \in {"idle", "begin"} \union Stopping /\ tone_pins' = 255 /\ ~OCIE2A'
  BY DEF EndTone, disableTimer, ToneWell, ToneTypes, Setting, Stopping
<1>2. /\ output' \in [TonePins -> {0, 1}]
      /\ \A p \in TonePins : output'[p] = 1 => output[p] = 1 /\ p # tone_pins
  BY DEF EndTone, ToneWell, ToneTypes
<1>3. UNCHANGED <<toggle_count, timer2_pin, doing, tune, toggles>>
  BY DEF EndTone, toneData
<1>4. ToneTypes'
  <2>1. OCIE2A' \in BOOLEAN /\ tone_pins' \in TonePins \union {255}
    BY <1>1 DEF EndTone, disableTimer
  <2> QED
    BY <1>2, <1>3, <2>1 DEF ToneWell, ToneTypes
<1>5. Held' /\ Sounding' /\ SetSoFar'
  BY <1>1, <1>3 DEF ToneWell, ToneTypes, Held, Sounding, SetSoFar, Setting, Stopping
<1>6. Lit'
  BY <1>2, <1>3 DEF ToneWell, Lit
<1> QED
  BY <1>4, <1>5, <1>6 DEF ToneWell

LEMMA ToneKeeps == ASSUME Deep, ToneInv, [WaitsNext]_waitVars PROVE ToneInv'
<1>1. CASE UNCHANGED toneVars
  BY <1>1 DEF toneVars, timer2, toneData, ToneInv, ToneTypes, Held, Sounding, Playing, Pitched, SetSoFar,
     Wanted, Setting, Stopping, Lit
<1>2. CASE ToneNext
  <2> SUFFICES ASSUME ~raced' PROVE ToneWell'
    BY DEF ToneInv, ToneWell
  <2>1. ~raced
    BY <1>2 DEF ToneNext, tone, noTone, InTone, SetsTone, StopsTone, toneBegin, SetPrescaler, SetCompare,
       SetCountLow, SetCountHigh, EnableTone, FreeTimer, Disable, Write, ToggleOutput, EndTone
  <2>2. ToneWell
    BY <2>1 DEF ToneInv, ToneWell
  <2> QED
    BY <1>2, <2>2, ToneBegins, ToneSets, ToneStops, ToneToggles, ToneEnds
       DEF ToneNext, InTone, SetsTone, StopsTone
<1> QED
  BY <1>1, <1>2 DEF WaitsNext, waitVars

LEMMA ToneInvIsTrue == ToneInv => ToneTrue
<1> SUFFICES ASSUME ToneInv PROVE ToneTrue
  OBVIOUS
<1>1. InTune /\ CountExact
  BY DEF ToneInv, Held, Sounding, Playing, Pitched, HalfPeriod, Sounds, InTune, CountExact
<1>2. Silent /\ OnlyOne
  BY ToneConstants DEF ToneInv, ToneTypes, Held, Lit, Silent, OnlyOne
<1> QED
  BY <1>1, <1>2 DEF ToneTrue

\* A tone that sounds has the longest half period, not longer than asked, that its prescaler
\* can give, and as many toggles as asked, its pin alone is ever high, and after it the
\* timer is free and every pin low, wherever in tone() and noTone() the handler comes
\* (Tone.cpp:243, 489, 547), but where it counted while tone() stored a new count.  For
\* every clock and every set of pins, frequencies and durations.
THEOREM TonesAreTrue == ASSUME Deep PROVE WaitsSpec => []ToneTrue
<1>1. WaitsInit => ToneInv
  BY ToneStarts DEF WaitsInit
<1>2. ToneInv /\ [WaitsNext]_waitVars => ToneInv'
  BY ToneKeeps
<1> QED
  BY <1>1, <1>2, ToneInvIsTrue, PTL DEF WaitsSpec

-----------------------------------------------------------------------------
(* The replies of a transfer *)

Forms == {"none"} \union Buffered \union DOMAIN Inline

FifoTypes ==
    /\ wr \in Seq(Forms) /\ rd \in Seq(Forms) /\ stale \in BOOLEAN
    /\ form \in Forms /\ writecount \in Nat /\ count \in Nat
    /\ form = "none" => writecount = 0 /\ count = 0

AllOf(s, f) == \A k \in 1 .. Len(s) : s[k] = f

\* While no transfer gave up: the bytes in the FIFOs are of this one, and those to come and
\* those that wait are no more than it has still to read.
Accounted ==
    ~stale => AllOf(wr, form) /\ AllOf(rd, form) /\ Len(wr) + Len(rd) + writecount <= count

FifoInv == FifoTypes /\ Accounted

LEMMA FifoConstants == DEPTH \in Nat /\ DEPTH > 0 /\ Lengths \subseteq Nat
BY FifoAssumption

\* What the steps do to a FIFO
LEMMA Pushed ==
    ASSUME NEW s \in Seq(Forms), NEW f \in Forms
    PROVE  /\ Append(s, f) \in Seq(Forms) /\ Len(Append(s, f)) = Len(s) + 1
           /\ AllOf(s, f) => AllOf(Append(s, f), f)
<1>1. /\ Append(s, f) \in Seq(Forms) /\ Len(Append(s, f)) = Len(s) + 1 /\ Len(s) \in Nat
      /\ Append(s, f)[Len(s) + 1] = f
      /\ \A k \in 1 .. Len(s) : Append(s, f)[k] = s[k]
  BY AppendProperties, LenProperties
<1>2. ASSUME AllOf(s, f), NEW k \in 1 .. Len(Append(s, f))
      PROVE  Append(s, f)[k] = f
  <2>1. CASE k = Len(s) + 1
    BY <1>1, <2>1
  <2>2. CASE k # Len(s) + 1
    <3>1. k \in 1 .. Len(s)
      BY <1>1, <1>2, <2>2
    <3> QED
      BY <1>1, <1>2, <3>1 DEF AllOf
  <2> QED
    BY <2>1, <2>2
<1> QED
  BY <1>1, <1>2 DEF AllOf

LEMMA Popped ==
    ASSUME NEW s \in Seq(Forms), s # <<>>, NEW f \in Forms
    PROVE  /\ Tail(s) \in Seq(Forms) /\ Len(Tail(s)) = Len(s) - 1 /\ Len(s) \in Nat /\ Len(s) > 0
           /\ Head(s) \in Forms
           /\ AllOf(s, f) => AllOf(Tail(s), f) /\ Head(s) = f
<1>1. /\ Tail(s) \in Seq(Forms) /\ Len(Tail(s)) = Len(s) - 1 /\ Len(s) \in Nat /\ Len(s) > 0
      /\ \A k \in 1 .. Len(s) - 1 : Tail(s)[k] = s[k + 1]
      /\ Head(s) = s[1] /\ Head(s) \in Forms
  BY HeadTailProperties, LenProperties, EmptySeq
<1>2. ASSUME AllOf(s, f), NEW k \in 1 .. Len(Tail(s))
      PROVE  Tail(s)[k] = f
  <2>1. k \in 1 .. Len(s) - 1 /\ k + 1 \in 1 .. Len(s)
    BY <1>1
  <2> QED
    BY <1>1, <1>2, <2>1 DEF AllOf
<1>3. AllOf(s, f) => Head(s) = f
  <2>1. 1 \in 1 .. Len(s)
    BY <1>1
  <2> QED
    BY <1>1, <2>1 DEF AllOf
<1> QED
  BY <1>1, <1>2, <1>3 DEF AllOf

\* No transfer, and nothing in the FIFOs
LEMMA FifoStarts == FifoInit => FifoInv
<1> SUFFICES ASSUME FifoInit PROVE FifoInv
  OBVIOUS
<1>1. <<>> \in Seq(Forms) /\ Len(<<>>) = 0
  BY EmptySeq
<1>2. FifoTypes
  BY <1>1 DEF FifoInit, FifoTypes, Forms
<1>3. wr = <<>> /\ rd = <<>> /\ AllOf(<<>>, form)
  BY <1>1 DEF FifoInit, AllOf
<1>4. Accounted
  BY <1>1, <1>3 DEF FifoInit, Accounted
<1> QED
  BY <1>2, <1>4 DEF FifoInv

\* A transfer begins with what an earlier one left only if that one gave up.
LEMMA BeginKeeps ==
    ASSUME FifoInv, NEW f \in Forms \ {"none"}, NEW n \in Nat, transfer(f, n) PROVE FifoInv'
<1>1. /\ UNCHANGED <<wr, rd, stale>> /\ form = "none" /\ form' = f /\ writecount' = n /\ count' = n
  BY DEF transfer, fifo
<1>2. FifoTypes'
  BY <1>1 DEF FifoInv, FifoTypes
<1>3. Len(wr) \in Nat /\ Len(rd) \in Nat
  BY LenProperties DEF FifoInv, FifoTypes
<1>4. ASSUME ~stale
      PROVE  Len(wr) = 0 /\ Len(rd) = 0
  BY <1>1, <1>3, <1>4 DEF FifoInv, FifoTypes, Accounted
<1>5. Accounted'
  BY <1>1, <1>4 DEF Accounted, AllOf
<1> QED
  BY <1>2, <1>5 DEF FifoInv

\* A byte is written, or dropped by a full FIFO.
LEMMA WriteByteKeeps == ASSUME FifoInv, WriteByte PROVE FifoInv'
<1>1. /\ UNCHANGED <<rd, form, count, stale>> /\ writecount > 0 /\ writecount' = writecount - 1
      /\ wr' = IF Len(wr) < DEPTH THEN Append(wr, form) ELSE wr
  BY DEF WriteByte, ToWrite
<1>2. form \in Forms /\ wr \in Seq(Forms) /\ writecount \in Nat /\ Len(wr) \in Nat /\ Len(rd) \in Nat
      /\ count \in Nat /\ form # "none"
  BY <1>1, LenProperties DEF FifoInv, FifoTypes
<1>3. /\ wr' \in Seq(Forms) /\ Len(wr') <= Len(wr) + 1 /\ Len(wr') \in Nat
      /\ AllOf(wr, form) => AllOf(wr', form)
  <2>1. CASE Len(wr) < DEPTH
    BY <1>1, <1>2, <2>1, Pushed
  <2>2. CASE ~(Len(wr) < DEPTH)
    BY <1>1, <1>2, <2>2
  <2> QED
    BY <2>1, <2>2
<1>4. FifoTypes'
  BY <1>1, <1>2, <1>3 DEF FifoInv, FifoTypes
<1>5. Accounted'
  BY <1>1, <1>2, <1>3 DEF FifoInv, Accounted, AllOf
<1> QED
  BY <1>4, <1>5 DEF FifoInv

\* A reply is read.
LEMMA ReadByteKeeps == ASSUME FifoInv, ReadByte PROVE FifoInv'
<1>1. /\ UNCHANGED <<wr, form, writecount, stale>> /\ count > 0 /\ count' = count - 1
      /\ rd # <<>> /\ rd' = Tail(rd)
  BY DEF ReadByte
<1>2. form \in Forms /\ rd \in Seq(Forms) /\ writecount \in Nat /\ Len(wr) \in Nat /\ count \in Nat
      /\ form # "none"
  BY <1>1, LenProperties DEF FifoInv, FifoTypes
<1>3. /\ rd' \in Seq(Forms) /\ Len(rd') = Len(rd) - 1 /\ Len(rd') \in Nat /\ Len(rd) \in Nat
      /\ AllOf(rd, form) => AllOf(rd', form)
  BY <1>1, <1>2, Popped
<1>4. FifoTypes'
  BY <1>1, <1>2, <1>3 DEF FifoInv, FifoTypes
<1>5. Accounted'
  BY <1>1, <1>2, <1>3 DEF FifoInv, Accounted, AllOf
<1> QED
  BY <1>4, <1>5 DEF FifoInv

\* A transfer that has read as much as it wrote leaves nothing behind.
LEMMA DoneKeeps == ASSUME FifoInv, TransferDone PROVE FifoInv'
<1>1. /\ writecount = 0 /\ count = 0 /\ form' = "none" /\ writecount' = 0 /\ count' = 0
      /\ stale' = (stale /\ form \in Buffered)
      /\ IF Resets THEN wr' = <<>> /\ rd' = <<>> ELSE UNCHANGED <<wr, rd>>
  BY DEF TransferDone, Finish
<1>2. <<>> \in Seq(Forms) /\ Len(<<>>) = 0
  BY EmptySeq
<1>3. wr \in Seq(Forms) /\ rd \in Seq(Forms) /\ Len(wr) \in Nat /\ Len(rd) \in Nat
  BY LenProperties DEF FifoInv, FifoTypes
<1>4. FifoTypes'
  <2>1. wr' \in Seq(Forms) /\ rd' \in Seq(Forms)
    BY <1>1, <1>2, <1>3
  <2>2. stale' \in BOOLEAN /\ "none" \in Forms
    BY <1>1 DEF Forms
  <2> QED
    BY <1>1, <2>1, <2>2 DEF FifoTypes
<1>5. ASSUME ~stale'
      PROVE  Len(wr') = 0 /\ Len(rd') = 0
  <2>1. CASE Resets
    BY <1>1, <1>2, <2>1
  <2>2. CASE ~Resets
    <3>1. form \in Buffered
      <4>1. form # "none" /\ form \in Forms
        BY DEF TransferDone, FifoInv, FifoTypes
      <4> QED
        BY <2>2, <4>1 DEF Resets, Forms
    <3>2. ~stale
      BY <1>1, <1>5, <3>1
    <3> QED
      BY <1>1, <1>3, <2>2, <3>2 DEF FifoInv, Accounted
  <2> QED
    BY <2>1, <2>2
<1>6. Accounted'
  BY <1>1, <1>5 DEF Accounted, AllOf
<1> QED
  BY <1>4, <1>6 DEF FifoInv

\* A byte goes out and its reply comes in; a full FIFO loses one.
LEMMA ShiftKeeps == ASSUME FifoInv, Shift PROVE FifoInv'
<1>1. /\ UNCHANGED <<form, writecount, count, stale>> /\ wr # <<>> /\ wr' = Tail(wr)
      /\ \/ Len(rd) < DEPTH /\ rd' = Append(rd, Head(wr))
         \/ rd' = rd
         \/ Len(rd) >= DEPTH /\ rd' = Append(Tail(rd), Head(wr))
  <2>1. Len(rd) \in Nat
    BY LenProperties DEF FifoInv, FifoTypes
  <2> QED
    BY <2>1, FifoConstants DEF Shift, xfer
<1>2. /\ form \in Forms /\ wr \in Seq(Forms) /\ rd \in Seq(Forms) /\ writecount \in Nat
      /\ Len(rd) \in Nat /\ count \in Nat
  BY LenProperties DEF FifoInv, FifoTypes
<1>3. /\ wr' \in Seq(Forms) /\ Len(wr') = Len(wr) - 1 /\ Len(wr) \in Nat /\ Len(wr) > 0
      /\ Head(wr) \in Forms
      /\ AllOf(wr, form) => AllOf(wr', form) /\ Head(wr) = form
  BY <1>1, <1>2, Popped
<1>4. /\ rd' \in Seq(Forms) /\ Len(rd') <= Len(rd) + 1 /\ Len(rd') \in Nat
      /\ AllOf(rd, form) /\ Head(wr) = form => AllOf(rd', form)
  <2>1. CASE rd' = Append(rd, Head(wr))
    <3>1. /\ Append(rd, Head(wr)) \in Seq(Forms) /\ Len(Append(rd, Head(wr))) = Len(rd) + 1
          /\ AllOf(rd, Head(wr)) => AllOf(Append(rd, Head(wr)), Head(wr))
      BY <1>2, <1>3, Pushed
    <3> QED
      BY <1>2, <2>1, <3>1
  <2>2. CASE rd' = rd
    BY <1>2, <2>2
  <2>3. CASE Len(rd) >= DEPTH /\ rd' = Append(Tail(rd), Head(wr))
    <3>1. rd # <<>>
      BY <2>3, EmptySeq, FifoConstants
    <3>2. /\ Tail(rd) \in Seq(Forms) /\ Len(Tail(rd)) = Len(rd) - 1
          /\ AllOf(rd, Head(wr)) => AllOf(Tail(rd), Head(wr))
      BY <1>2, <1>3, <3>1, Popped
    <3>3. /\ Append(Tail(rd), Head(wr)) \in Seq(Forms)
          /\ Len(Append(Tail(rd), Head(wr))) = Len(Tail(rd)) + 1
          /\ AllOf(Tail(rd), Head(wr)) => AllOf(Append(Tail(rd), Head(wr)), Head(wr))
      BY <1>3, <3>2, Pushed
    <3> QED
      BY <1>2, <2>3, <3>2, <3>3
  <2> QED
    BY <1>1, <2>1, <2>2, <2>3
<1>5. FifoTypes'
  BY <1>1, <1>2, <1>3, <1>4 DEF FifoInv, FifoTypes
<1>6. Accounted'
  BY <1>1, <1>2, <1>3, <1>4 DEF FifoInv, Accounted, AllOf
<1> QED
  BY <1>5, <1>6 DEF FifoInv

\* Every step of a transfer and of the SPI
LEMMA FifoKeeps == ASSUME FifoInv, [WaitsNext]_waitVars PROVE FifoInv'
<1>1. CASE FifoNext
  <2>1. ASSUME NEW f \in Buffered, NEW n \in Lengths, transfer(f, n)
        PROVE  FifoInv'
    BY <2>1, BeginKeeps, FifoConstants DEF Forms, Buffered
  <2>2. ASSUME NEW f \in DOMAIN Inline, transfer(f, Inline[f])
        PROVE  FifoInv'
    <3>1. Inline[f] \in Nat /\ f \in Forms \ {"none"}
      BY DEF Inline, Forms
    <3> QED
      BY <2>2, <3>1, BeginKeeps
  <2>3. CASE GiveUp
    <3>1. UNCHANGED <<wr, rd>> /\ stale' = TRUE /\ form' = "none" /\ writecount' = 0 /\ count' = 0
      BY <2>3 DEF GiveUp, Finish
    <3> QED
      BY <3>1 DEF FifoInv, FifoTypes, Accounted, Forms
  <2>4. CASE Wedge
    BY <2>4 DEF Wedge, xfer, FifoInv, FifoTypes, Accounted, AllOf
  <2> QED
    BY <1>1, <2>1, <2>2, <2>3, <2>4, WriteByteKeeps, ReadByteKeeps, DoneKeeps, ShiftKeeps
       DEF FifoNext, InTransfer
<1>2. CASE UNCHANGED fifoVars
  BY <1>2 DEF fifoVars, fifo, xfer, FifoInv, FifoTypes, Accounted, AllOf
<1> QED
  BY <1>1, <1>2 DEF WaitsNext, waitVars

\* No transfer reads a reply that belongs to an earlier one, unless one gave up and nothing
\* has reset the FIFOs since: for every depth of the FIFOs and every length, although they
\* overflow and the two loops of a transfer run at different speeds (SPI.cpp:88, SPI.h:208).
THEOREM RepliesAreOwn == WaitsSpec => []OwnReplies
<1>1. WaitsInit => FifoInv
  BY FifoStarts DEF WaitsInit
<1>2. FifoInv /\ [WaitsNext]_waitVars => FifoInv'
  BY FifoKeeps
<1>3. FifoInv => OwnReplies
  BY DEF FifoInv, Accounted, AllOf, OwnReplies
<1> QED
  BY <1>1, <1>2, <1>3, PTL DEF WaitsSpec

-----------------------------------------------------------------------------
(* The length of a pulse *)

PulseTypes ==
    /\ high \in BOOLEAN /\ age \in 0 .. ULONG /\ former \in 0 .. ULONG /\ clock \in 0 .. ULONG - 1
    /\ maxloops \in 0 .. ULONG - 1 /\ width \in 0 .. ULONG - 1 /\ budget \in 0 .. ULONG - 1
    /\ startMicros \in 0 .. ULONG - 1 /\ began \in 0 .. ULONG - 1 /\ since \in 0 .. LAG
    /\ result \in 0 .. ULONG /\ used \in 0 .. ULONG

\* Between calls
AtRest == phase = "idle" => measure = "none" /\ since = 0 /\ result = 0 /\ width = 0 /\ used = 0 /\ budget = 0

Waiting  == {"previous", "start"}
Counting == measure = "pulseIn" /\ phase # "idle"
Timing   == measure = "pulseInLong" /\ phase # "idle"

\* What the loops of pulseIn() have left and what they used are its timeout, and the width
\* that they count is the age of the pulse.
Looped ==
    Counting /\ budget > 0 =>
        /\ phase \in {"previous", "start", "stop", "return"} /\ used <= budget
        /\ phase \in Waiting => maxloops > 0 /\ maxloops + used = budget /\ result = 0 /\ width = 0
        /\ phase = "start" /\ high => age = 0
        /\ phase = "stop" =>
             /\ width < maxloops /\ maxloops + used = budget + width /\ result = 0
             /\ IF high THEN age = width ELSE age = 0 /\ former = width
        /\ phase = "return" =>
             \/ result = 0 /\ used = budget
             \/ ~high /\ age = 0 /\ (result = former + 1 \/ (result = 0 /\ former = 0))

\* How far behind its timeout pulseInLong() may be
Behind ==
    CASE phase = "previous" -> 0
      [] phase \in {"previous?", "start"} -> LAG
      [] phase \in {"start?", "mark"} -> 2 * LAG
      [] phase = "stop" -> 3 * LAG
      [] phase \in {"stop?", "take"} -> 4 * LAG
      [] OTHER -> 5 * LAG

\* micros() has moved by n since it was base.
Moved(base, n) == clock = base + n \/ clock = base + n - ULONG

\* The pin changed at most n ticks ago, and in this call.
Fresh(n) == age <= n /\ age <= used

\* The part of the pulse that passed before its beginning was taken is short, and the rest
\* of it is what micros() moved since.
PulseKnown ==
    \E early \in 0 .. 3 * LAG, rest \in 0 .. ULONG - 1 :
        /\ Moved(began, rest) /\ early + rest <= used
        /\ IF high THEN age = early + rest ELSE former + age = early + rest

\* The three loops of pulseInLong() keep to their timeout and see each edge soon.
Timed ==
    Timing =>
        /\ phase \in {"previous", "start", "stop", "previous?", "start?", "stop?", "mark", "take", "return"}
        /\ budget \in Timeouts /\ used <= budget + Behind + since
        /\ phase # "return" => result = 0 /\ Moved(startMicros, used)
        /\ phase = "start" /\ high => Fresh(LAG + since)
        /\ phase = "start?" /\ high => Fresh(since)
        /\ phase = "mark" => high /\ Fresh(2 * LAG + since)
        /\ phase \in {"stop", "stop?", "take"} => PulseKnown
        /\ phase = "stop" /\ ~high => age <= LAG + since
        /\ phase = "stop?" /\ ~high => age <= since
        /\ phase = "take" => ~high /\ age <= 2 * LAG + since
        /\ phase = "return" =>
             \/ result = 0 /\ used > budget
             \/ ~high /\ age <= 3 * LAG /\ former - result \in -(3 * LAG) .. 3 * LAG

PulseInv ==
    /\ PulseTypes /\ AtRest /\ Looped /\ Timed
    /\ phase # "idle" => measure \in {"pulseIn", "pulseInLong"}

\* A timeout within six loops of the wrap of micros() may be missed: it is asked for after it.
Roomy == \A limit \in Timeouts : limit + 6 * LAG < ULONG

LEMMA PulseConstants == ULONG \in Nat /\ ULONG > 0 /\ LAG \in Nat /\ LAG > 0 /\ Timeouts \subseteq 0 .. ULONG - 1
BY PulseAssumption

\* The clock counts on, past its wrap, ...
LEMMA ClockMoves ==
    ASSUME NEW base \in 0 .. ULONG - 1, NEW n \in Nat, n + 1 < ULONG, clock \in 0 .. ULONG - 1,
           Moved(base, n)
    PROVE  /\ (clock + 1) % ULONG \in 0 .. ULONG - 1
           /\ \/ (clock + 1) % ULONG = base + (n + 1)
              \/ (clock + 1) % ULONG = base + (n + 1) - ULONG
<1>1. CASE clock + 1 < ULONG
  <2>1. (clock + 1) % ULONG = clock + 1
    BY <1>1, PulseConstants
  <2> QED
    BY <1>1, <2>1, PulseConstants DEF Moved
<1>2. CASE clock + 1 = ULONG
  <2>1. (clock + 1) % ULONG = 0
    BY <1>2, PulseConstants
  <2> QED
    BY <1>2, <2>1, PulseConstants DEF Moved
<1> QED
  BY <1>1, <1>2, PulseConstants

\* ... and a difference of its readings is what passed between them.
LEMMA Difference ==
    ASSUME NEW base \in 0 .. ULONG - 1, NEW n \in 0 .. ULONG - 1, clock \in 0 .. ULONG - 1,
           Moved(base, n)
    PROVE  (clock - base) % ULONG = n
<1>1. clock - base = n \/ clock - base = n - ULONG
  BY PulseConstants DEF Moved
<1>2. n % ULONG = n
  BY PulseConstants
<1>3. (n - ULONG) % ULONG = n
  BY PulseConstants
<1> QED
  BY <1>1, <1>2, <1>3

\* One tick more, below the cap
LEMMA NotCapped == ASSUME NEW n \in 0 .. ULONG PROVE OneMore(n) \in 0 .. ULONG /\ (n < ULONG => OneMore(n) = n + 1)
BY PulseConstants DEF OneMore

LEMMA PulseStarts == PulseInit => PulseInv
<1> SUFFICES ASSUME PulseInit PROVE PulseInv
  OBVIOUS
<1>1. PulseTypes
  <2>1. 0 \in 0 .. ULONG - 1 /\ 0 \in 0 .. ULONG /\ ULONG \in 0 .. ULONG /\ 0 \in 0 .. LAG
    BY PulseConstants
  <2> QED
    BY <2>1 DEF PulseInit, PulseTypes
<1> QED
  BY <1>1 DEF PulseInit, PulseInv, AtRest, Looped, Counting, Timed, Timing

\* A call begins.
LEMMA AskKeeps ==
    ASSUME PulseInv, NEW f \in {"pulseIn", "pulseInLong"}, NEW timeout \in Timeouts, Ask(f, timeout)
    PROVE  PulseInv'
<1>1. PulseTypes'
  BY PulseConstants DEF PulseInv, PulseTypes, Ask, pinState
<1>2. phase' = "previous" /\ measure' = f /\ used' = 0 /\ result = 0 /\ width = 0 /\ since = 0
  BY DEF PulseInv, AtRest, Ask
<1>3. Looped'
  BY <1>2, PulseConstants DEF PulseInv, PulseTypes, Ask, Looped, Counting, Waiting
<1>4. Timed'
  BY <1>2, PulseConstants DEF PulseInv, PulseTypes, Ask, pinState, Timed, Timing, Behind, Moved
<1> QED
  BY <1>1, <1>2, <1>3, <1>4 DEF PulseInv, AtRest

\* The pin changes.
LEMMA EdgeKeeps == ASSUME PulseInv, Edge PROVE PulseInv'
<1>1. PulseTypes'
  BY PulseConstants DEF PulseInv, PulseTypes, Edge
<1>2. Looped'
  <2>1. CASE Counting
    <3>1. age >= 1 /\ high' = ~high /\ age' = 0 /\ former' = age
          /\ UNCHANGED <<measure, phase, maxloops, width, result, budget, used>>
      BY <2>1 DEF Edge, Counting
    <3>2. CASE budget > 0 /\ phase = "stop"
      <4>1. high
        BY <2>1, <3>1, <3>2, PulseConstants DEF PulseInv, PulseTypes, Looped
      <4> QED
        BY <2>1, <3>1, <3>2, <4>1 DEF PulseInv, Looped, Counting, Waiting
    <3>3. CASE budget > 0 /\ phase = "return"
      <4>1. result = 0 /\ used = budget
        BY <2>1, <3>1, <3>3, PulseConstants DEF PulseInv, PulseTypes, Looped
      <4> QED
        BY <2>1, <3>1, <3>3, <4>1 DEF PulseInv, Looped, Counting, Waiting
    <3> QED
      BY <2>1, <3>1, <3>2, <3>3 DEF PulseInv, Looped, Counting, Waiting
  <2> QED
    BY <2>1 DEF Edge, Looped, Counting
<1>3. ASSUME Timing
      PROVE  Timed'
  <2>1. age >= 4 * LAG /\ high' = ~high /\ age' = 0 /\ former' = age
        /\ UNCHANGED <<clock, measure, phase, startMicros, began, since, result, budget, used>>
    BY <1>3 DEF Edge, Timing
  <2>2. phase # "mark" /\ phase # "take" /\ (phase \in {"start", "start?"} => ~high)
        /\ (phase \in {"stop", "stop?"} => high)
    BY <1>3, <2>1, PulseConstants DEF PulseInv, PulseTypes, Timed, Fresh
  <2>3. phase \in {"stop", "stop?"} => PulseKnown'
    <3> SUFFICES ASSUME phase \in {"stop", "stop?"} PROVE PulseKnown'
      OBVIOUS
    <3>1. high /\ PulseKnown
      BY <1>3, <2>2 DEF PulseInv, Timed
    <3>2. PICK early \in 0 .. 3 * LAG, rest \in 0 .. ULONG - 1 :
                  Moved(began, rest) /\ early + rest <= used /\ age = early + rest
      BY <3>1 DEF PulseKnown
    <3>3. former' + age' = early + rest
      <4>1. age + 0 = age /\ former' = age /\ age' = 0
        BY <2>1 DEF PulseInv, PulseTypes
      <4> QED
        BY <3>2, <4>1
    <3>4. ~high' /\ early + rest <= used' /\ Moved(began, rest)'
      BY <2>1, <3>1, <3>2 DEF Moved
    <3> QED
      BY <3>3, <3>4 DEF PulseKnown, Moved
  <2> QED
    BY <1>3, <2>1, <2>2, <2>3, PulseConstants
       DEF PulseInv, PulseTypes, Timed, Timing, Behind, Moved, Fresh
<1> QED
  BY <1>1, <1>2, <1>3 DEF PulseInv, AtRest, Edge, Timed, Timing

\* A loop of pulseIn() while it waits
LEMMA WaitLoopKeeps == ASSUME PulseInv, WaitLoop PROVE PulseInv'
<1>1. PulseTypes'
  <2>1. Less \in 0 .. ULONG - 1 /\ (clock + 1) % ULONG \in 0 .. ULONG - 1
    BY PulseConstants DEF PulseInv, PulseTypes, Less
  <2> QED
    BY <2>1, NotCapped, PulseConstants DEF PulseInv, PulseTypes, WaitLoop, Passes
<1>2. ASSUME budget > 0
      PROVE  Looped'
  <2>1. Less = maxloops - 1
    BY <1>2, PulseConstants DEF PulseInv, PulseTypes, Looped, Counting, Waiting, WaitLoop, Less
  <2>2. used' = used + 1 /\ age' = OneMore(age)
    BY <1>2, NotCapped, PulseConstants DEF PulseInv, PulseTypes, Looped, Counting, Waiting, WaitLoop, Passes
  <2> QED
    BY <1>2, <2>1, <2>2, PulseConstants
       DEF PulseInv, PulseTypes, WaitLoop, Passes, Looped, Counting, Waiting, Seen
<1> QED
  BY <1>1, <1>2, PulseConstants DEF PulseInv, PulseTypes, AtRest, WaitLoop, Looped, Counting, Timed, Timing

\* pulseIn() sees the level it waits for.
LEMMA FoundKeeps == ASSUME PulseInv, Found PROVE PulseInv'
<1>1. PulseTypes'
  BY DEF PulseInv, PulseTypes, Found, pinState
<1>2. Looped'
  BY PulseConstants DEF PulseInv, PulseTypes, Found, pinState, Looped, Counting, Waiting, Seen
<1> QED
  BY <1>1, <1>2 DEF PulseInv, AtRest, Found, Timed, Timing

\* A loop of pulseIn() while the pulse lasts
LEMMA CountLoopKeeps == ASSUME PulseInv, CountLoop PROVE PulseInv'
<1>1. PulseTypes'
  <2>1. More \in 0 .. ULONG - 1 /\ (clock + 1) % ULONG \in 0 .. ULONG - 1
    BY PulseConstants DEF PulseInv, PulseTypes, More
  <2> QED
    BY <2>1, NotCapped, PulseConstants DEF PulseInv, PulseTypes, CountLoop, Passes
<1>2. ASSUME budget > 0
      PROVE  Looped'
  <2>1. More = width + 1
    BY <1>2, PulseConstants DEF PulseInv, PulseTypes, Looped, Counting, CountLoop, More
  <2>2. used' = used + 1 /\ age' = age + 1
    BY <1>2, NotCapped, PulseConstants DEF PulseInv, PulseTypes, Looped, Counting, CountLoop, Passes
  <2> QED
    BY <1>2, <2>1, <2>2, PulseConstants
       DEF PulseInv, PulseTypes, CountLoop, Passes, RestOver, Looped, Counting, Waiting
<1> QED
  BY <1>1, <1>2, PulseConstants DEF PulseInv, PulseTypes, AtRest, CountLoop, Looped, Counting, Timed, Timing

LEMMA EndOfPulseKeeps == ASSUME PulseInv, EndOfPulse PROVE PulseInv'
<1>1. PulseTypes'
  BY PulseConstants DEF PulseInv, PulseTypes, EndOfPulse, pinState
<1>2. Looped'
  BY PulseConstants DEF PulseInv, PulseTypes, EndOfPulse, pinState, Looped, Counting, Waiting
<1> QED
  BY <1>1, <1>2 DEF PulseInv, AtRest, EndOfPulse, Timed, Timing

\* pulseInLong() looks at the pin, ...
LEMMA LookKeeps == ASSUME PulseInv, Look PROVE PulseInv'
<1>1. /\ measure = "pulseInLong" /\ since' = 0
      /\ UNCHANGED <<high, age, former, clock, measure, maxloops, width, startMicros, began, result, budget, used>>
      /\ \/ phase = "previous" /\ phase' = (IF ~high THEN "start" ELSE "previous?")
         \/ phase = "start" /\ phase' = (IF high THEN "mark" ELSE "start?")
         \/ phase = "stop" /\ phase' = (IF ~high THEN "take" ELSE "stop?")
  BY DEF Look, pinState, Seen, After, LookAtClock
<1>2. PulseTypes'
  BY <1>1, PulseConstants DEF PulseInv, PulseTypes
<1>3. Timed'
  <2>1. PulseKnown => PulseKnown'
    BY <1>1 DEF PulseKnown, Moved
  <2>2. budget' + Behind' + since' >= budget + Behind + since
    BY <1>1, PulseConstants DEF PulseInv, PulseTypes, Behind
  <2>3. used' <= budget' + Behind' + since'
    BY <1>1, <1>2, <2>2, PulseConstants DEF PulseInv, Timed, Timing, Behind, PulseTypes
  <2> QED
    BY <1>1, <2>1, <2>3, PulseConstants DEF PulseInv, PulseTypes, Timed, Timing, Moved, Fresh
<1> QED
  BY <1>1, <1>2, <1>3 DEF PulseInv, AtRest, Looped, Counting

\* ... then at the clock, ...
LEMMA LookAgainKeeps == ASSUME Roomy, PulseInv, LookAgain PROVE PulseInv'
<1>1. CASE measure = "pulseIn"
  <2>1. budget = 0
    BY <1>1, PulseConstants DEF PulseInv, PulseTypes, Looped, Counting, LookAgain
  <2>2. PulseTypes' /\ phase' # "idle" /\ measure' = "pulseIn" /\ budget' = 0
    BY <1>1, <2>1, PulseConstants DEF PulseInv, PulseTypes, LookAgain, pinState, LookAtPin
  <2> QED
    BY <2>2 DEF PulseInv, AtRest, Looped, Timed, Timing
<1>2. CASE measure = "pulseInLong"
  <2>1. /\ since' = 0
        /\ UNCHANGED <<high, age, former, clock, measure, maxloops, width, startMicros, began, result, budget, used>>
        /\ phase \in {"previous?", "start?", "stop?"}
        /\ phase' = (IF Over THEN "return" ELSE CASE phase = "previous?" -> "previous"
                                                  [] phase = "start?" -> "start" [] phase = "stop?" -> "stop")
    BY DEF LookAgain, pinState, LookAtPin
  <2>2. PulseTypes'
    BY <2>1, PulseConstants DEF PulseInv, PulseTypes
  <2>3. Over <=> used > budget
    <3>1. used < ULONG /\ Moved(startMicros, used)
      BY <1>2, <2>1, PulseConstants DEF PulseInv, PulseTypes, Timed, Timing, Behind, Roomy
    <3>2. used \in 0 .. ULONG - 1 /\ startMicros \in 0 .. ULONG - 1 /\ clock \in 0 .. ULONG - 1
      BY <3>1, PulseConstants DEF PulseInv, PulseTypes
    <3> QED
      BY <3>1, <3>2, Difference DEF Over
  <2>4. Timed'
    <3>1. PulseKnown => PulseKnown'
      BY <2>1 DEF PulseKnown, Moved
    <3>2. used' <= budget' + Behind' + since'
      BY <1>2, <2>1, <2>3, PulseConstants DEF PulseInv, PulseTypes, Timed, Timing, Behind
    <3> QED
      BY <1>2, <2>1, <2>3, <3>1, <3>2, PulseConstants DEF PulseInv, PulseTypes, Timed, Timing, Moved, Fresh
  <2> QED
    BY <1>2, <2>1, <2>2, <2>4 DEF PulseInv, AtRest, Looped, Counting
<1> QED
  BY <1>1, <1>2 DEF PulseInv, LookAgain

\* ... and takes the time when the pulse begins ...
LEMMA MarkKeeps == ASSUME PulseInv, Mark PROVE PulseInv'
<1>1. /\ phase = "mark" /\ began' = clock /\ phase' = "stop" /\ since' = 0
      /\ UNCHANGED <<high, age, former, clock, measure, maxloops, width, startMicros, result, budget, used>>
  BY DEF Mark, pinState
<1>2. PulseTypes'
  BY <1>1, PulseConstants DEF PulseInv, PulseTypes
<1>3. ASSUME Timing
      PROVE  Timed'
  <2>1. PulseKnown'
    <3>1. high /\ age \in 0 .. 3 * LAG /\ age <= used
      BY <1>1, <1>3, PulseConstants DEF PulseInv, PulseTypes, Timed, Fresh
    <3>2. 0 \in 0 .. ULONG - 1 /\ age + 0 = age /\ clock + 0 = clock
      BY PulseConstants, <3>1 DEF PulseInv, PulseTypes
    <3> QED
      BY <1>1, <3>1, <3>2 DEF PulseKnown, Moved
  <2>2. used' <= budget' + Behind' + since'
    BY <1>1, <1>3, PulseConstants DEF PulseInv, PulseTypes, Timed, Timing, Behind
  <2> QED
    BY <1>1, <1>3, <2>1, <2>2, PulseConstants DEF PulseInv, PulseTypes, Timed, Timing, Moved
<1>4. Looped'
  BY <1>1, PulseConstants DEF PulseInv, PulseTypes, Looped, Counting
<1> QED
  BY <1>1, <1>2, <1>3, <1>4 DEF PulseInv, AtRest, Timed, Timing

\* ... and when it ends.
LEMMA TakeKeeps == ASSUME Roomy, PulseInv, TakeLength PROVE PulseInv'
<1>1. /\ phase = "take" /\ phase' = "return" /\ since' = 0 /\ result' = SinceMark
      /\ UNCHANGED <<high, age, former, clock, measure, maxloops, width, startMicros, began, budget, used>>
  BY DEF TakeLength, pinState
<1>2. SinceMark \in 0 .. ULONG - 1
  BY PulseConstants DEF PulseInv, PulseTypes, SinceMark
<1>3. PulseTypes'
  BY <1>1, <1>2, PulseConstants DEF PulseInv, PulseTypes
<1>4. ASSUME Timing
      PROVE  Timed'
  <2>1. ~high /\ age <= 3 * LAG /\ PulseKnown
    BY <1>1, <1>4, PulseConstants DEF PulseInv, PulseTypes, Timed
  <2>2. PICK early \in 0 .. 3 * LAG, rest \in 0 .. ULONG - 1 : Moved(began, rest) /\ former + age = early + rest
    BY <2>1 DEF PulseKnown
  <2>3. SinceMark = rest
    BY <2>2, Difference DEF PulseInv, PulseTypes, SinceMark
  <2>4. former - SinceMark \in -(3 * LAG) .. 3 * LAG
    BY <2>1, <2>2, <2>3, PulseConstants DEF PulseInv, PulseTypes
  <2>5. used' <= budget' + Behind' + since'
    BY <1>1, <1>4, PulseConstants DEF PulseInv, PulseTypes, Timed, Timing, Behind
  <2> QED
    BY <1>1, <1>4, <2>1, <2>4, <2>5 DEF PulseInv, Timed, Timing
<1>5. Looped'
  BY <1>1, PulseConstants DEF PulseInv, PulseTypes, Looped, Counting
<1> QED
  BY <1>1, <1>3, <1>4, <1>5 DEF PulseInv, AtRest, Timed, Timing

\* Time passes between the steps of pulseInLong().
LEMMA TickPinKeeps == ASSUME Roomy, PulseInv, TickPin PROVE PulseInv'
<1>1. /\ measure = "pulseInLong" /\ phase # "return" /\ since' = since + 1 /\ since < LAG
      /\ UNCHANGED <<high, former, measure, phase, maxloops, width, startMicros, began, result, budget>>
      /\ age' = OneMore(age) /\ clock' = (clock + 1) % ULONG /\ used' = OneMore(used)
  BY DEF TickPin, Passes
<1>2. Timing
  BY <1>1 DEF PulseInv, AtRest, Timing
<1>3. used + 1 < ULONG /\ used' = used + 1 /\ used' <= budget + Behind + since'
  <2>1. used <= budget + Behind + since /\ budget + 6 * LAG < ULONG /\ Behind + since < 6 * LAG
    BY <1>1, <1>2, PulseConstants DEF PulseInv, PulseTypes, Timed, Timing, Behind, Roomy
  <2> QED
    BY <1>1, <2>1, NotCapped, PulseConstants DEF PulseInv, PulseTypes, Behind
<1>4. clock' \in 0 .. ULONG - 1
  BY <1>1, PulseConstants DEF PulseInv, PulseTypes
<1>5. age' \in 0 .. ULONG /\ age' <= age + 1 /\ (age < ULONG => age' = age + 1)
  BY <1>1, NotCapped, PulseConstants DEF PulseInv, PulseTypes, OneMore
<1>6. PulseTypes'
  BY <1>1, <1>3, <1>4, <1>5, PulseConstants DEF PulseInv, PulseTypes
<1>7. Moved(startMicros, used)'
  BY <1>1, <1>2, <1>3, ClockMoves, PulseConstants DEF PulseInv, PulseTypes, Timed, Moved
<1>8. ASSUME PulseKnown
      PROVE  PulseKnown'
  <2>1. PICK early \in 0 .. 3 * LAG, rest \in 0 .. ULONG - 1 :
                /\ Moved(began, rest) /\ early + rest <= used
                /\ IF high THEN age = early + rest ELSE former + age = early + rest
    BY <1>8 DEF PulseKnown
  <2>2. rest + 1 \in 0 .. ULONG - 1 /\ rest + 1 < ULONG /\ early + (rest + 1) <= used'
    BY <1>3, <2>1, PulseConstants DEF PulseInv, PulseTypes
  <2>3. Moved(began, rest + 1)'
    BY <1>1, <2>1, <2>2, ClockMoves, PulseConstants DEF PulseInv, PulseTypes, Moved
  <2>4. age' = age + 1
    BY <1>3, <1>5, <2>1, PulseConstants DEF PulseInv, PulseTypes
  <2>5. IF high' THEN age' = early + (rest + 1) ELSE former' + age' = early + (rest + 1)
    BY <1>1, <2>1, <2>4, PulseConstants DEF PulseInv, PulseTypes
  <2> QED
    BY <2>2, <2>3, <2>5 DEF PulseKnown, Moved
<1>9. \A n \in Nat : Fresh(n) => age' <= n + 1 /\ age' <= used'
  BY <1>3, <1>5, PulseConstants DEF Fresh, PulseInv, PulseTypes
<1>10. Timed'
  BY <1>1, <1>2, <1>3, <1>5, <1>7, <1>8, <1>9, PulseConstants
     DEF PulseInv, PulseTypes, Timed, Timing, Behind, Fresh
<1> QED
  BY <1>1, <1>2, <1>6, <1>10 DEF PulseInv, AtRest, Looped, Counting, Timing

\* The sketch gets the length.
LEMMA GivePulseKeeps == ASSUME PulseInv, GivePulse PROVE PulseInv'
<1>1. PulseTypes'
  BY PulseConstants DEF PulseInv, PulseTypes, GivePulse
<1> QED
  BY <1>1 DEF PulseInv, GivePulse, AtRest, Looped, Counting, Timed, Timing

\* Every step of a measurement, of the pin and of the time
LEMMA PulseKeeps == ASSUME Roomy, PulseInv, [WaitsNext]_waitVars PROVE PulseInv'
<1>1. CASE PulseNext
  BY <1>1, AskKeeps, EdgeKeeps, WaitLoopKeeps, FoundKeeps, CountLoopKeeps, EndOfPulseKeeps, LookKeeps,
     LookAgainKeeps, MarkKeeps, TakeKeeps, TickPinKeeps, GivePulseKeeps
     DEF PulseNext, InPulse, pulseIn, pulseInLong
<1>2. CASE UNCHANGED pulseVars
  <2>1. PulseTypes'
    BY <1>2 DEF pulseVars, pinState, PulseInv, PulseTypes
  <2>2. Looped' /\ AtRest'
    BY <1>2 DEF pulseVars, pinState, PulseInv, Looped, Counting, AtRest
  <2>3. Timed'
    BY <1>2 DEF pulseVars, pinState, PulseInv, Timed, Timing, Behind, Moved, Fresh, PulseKnown
  <2> QED
    BY <1>2, <2>1, <2>2, <2>3 DEF pulseVars, pinState, PulseInv
<1> QED
  BY <1>1, <1>2 DEF WaitsNext, waitVars

LEMMA PulseInvIsTrue == ASSUME Roomy, PulseInv PROVE PulseTrue
<1>1. CASE Counting /\ budget > 0
  <2>1. TimesOut
    BY <1>1, PulseConstants DEF PulseInv, PulseTypes, Looped, Counting, TimesOut
  <2>2. Measured
    BY <1>1, PulseConstants DEF PulseInv, PulseTypes, Looped, Counting, Measured, Pulse, Resolution
  <2> QED
    BY <2>1, <2>2 DEF PulseTrue
<1>2. CASE Timing
  <2>1. TimesOut
    BY <1>2, PulseConstants DEF PulseInv, PulseTypes, Timed, Timing, TimesOut, Behind
  <2>2. Measured
    BY <1>2, PulseConstants DEF PulseInv, PulseTypes, Timed, Timing, Measured, Pulse, Resolution
  <2> QED
    BY <2>1, <2>2 DEF PulseTrue
<1>3. CASE phase = "idle"
  BY <1>3, PulseConstants DEF PulseInv, PulseTypes, AtRest, PulseTrue, TimesOut, Measured
<1>4. CASE measure = "pulseIn" /\ budget = 0
  BY <1>4 DEF PulseTrue, TimesOut, Measured, Unbounded
<1> QED
  BY <1>1, <1>2, <1>3, <1>4, PulseConstants DEF PulseInv, PulseTypes, Counting, Timing

\* A pulse is measured to the resolution of the loop, and no call outstays its timeout: for
\* every width of the clock, timeout, length of pulse and time between two looks at the pin,
\* across the wrap of micros() (wiring_pulse.c:84, "micros() - startMicros > timeout").
THEOREM PulsesAreTrue == ASSUME Roomy PROVE WaitsSpec => []PulseTrue
<1>1. WaitsInit => PulseInv
  BY PulseStarts DEF WaitsInit
<1>2. PulseInv /\ [WaitsNext]_waitVars => PulseInv'
  BY PulseKeeps
<1>3. PulseInv => PulseTrue
  BY PulseInvIsTrue
<1> QED
  BY <1>1, <1>2, <1>3, PTL DEF WaitsSpec

-----------------------------------------------------------------------------
(* The types of the variables, whatever the constants are *)

\* Unlike the invariants above, these need nothing of the constants.
ClockKinds ==
    tcnt \in 0 .. TOP - 1 /\ timer0_millis \in 0 .. U32 - 1 /\ timer0_overflow_count \in 0 .. U32 - 1

ToneKinds ==
    /\ tone_pins \in TonePins \union {255} /\ prescaler \in 1 .. 7 /\ OCR2A \in 0 .. OCR_MAX
    /\ toggle_count \in Int /\ newCount \in Int /\ output \in [TonePins -> {0, 1}]
    /\ timer2_pin \in TonePins \union {255}
    /\ doing \in {"idle", "begin"} \union Setting \union Stopping
    /\ doing # "idle" => tune.pin \in TonePins
    /\ doing \in {"begin"} \union Setting => tune.f \in Frequencies /\ tune.d \in Durations

FifoKinds == FifoInv /\ Len(wr) <= DEPTH /\ Len(rd) <= DEPTH

Kinds == ClockKinds /\ ToneKinds /\ FifoKinds /\ PulseTypes

LEMMA KindsStart == ClockInit /\ ToneInit /\ FifoInit /\ PulseInit => Kinds
<1> SUFFICES ASSUME ClockInit, ToneInit, FifoInit, PulseInit PROVE Kinds
  OBVIOUS
<1>1. ClockKinds
  BY Constants DEF ClockInit, ClockKinds
<1>2. ToneKinds
  <2>1. output \in [TonePins -> {0, 1}]
    BY DEF ToneInit
  <2>2. /\ tone_pins = 255 /\ timer2_pin = 255 /\ toggle_count = 0 /\ newCount = 0 /\ doing = "idle"
        /\ prescaler = 4 /\ OCR2A = 0
    BY DEF ToneInit
  <2> QED
    BY <2>1, <2>2, ToneConstants DEF ToneKinds, Setting, Stopping
<1>3. FifoKinds
  <2>1. wr = <<>> /\ rd = <<>> /\ Len(<<>>) = 0
    BY DEF FifoInit
  <2>2. FifoInv
    BY FifoStarts
  <2> QED
    BY <2>1, <2>2, FifoConstants DEF FifoKinds
<1>4. PulseTypes
  BY PulseStarts DEF PulseInv
<1> QED
  BY <1>1, <1>2, <1>3, <1>4 DEF Kinds

\* The steps of each part keep its types, in turn.
LEMMA ClockKindsKeep == ASSUME ClockKinds, [WaitsNext]_waitVars PROVE ClockKinds'
<1>1. TOP \in Nat /\ TOP > 0 /\ U32 \in Nat /\ U32 > 0 /\ MILLIS_INC \in Nat
  BY Constants
<1>2. CASE Tick
  <2>1. (tcnt + 1) % TOP \in 0 .. TOP - 1
    BY <1>1 DEF ClockKinds
  <2> QED
    BY <1>2, <2>1 DEF Tick, counters, ClockKinds
<1>3. CASE TIMER0_OVF
  <2> DEFINE inc == MILLIS_INC + (IF Carries(timer0_fract + FRACT_INC) THEN 1 ELSE 0)
  <2>1. inc \in Nat
    BY <1>1
  <2> HIDE DEF inc
  <2>2. (timer0_millis + inc) % U32 \in 0 .. U32 - 1
    BY <1>1, <2>1 DEF ClockKinds
  <2>3. (timer0_overflow_count + 1) % U32 \in 0 .. U32 - 1
    BY <1>1 DEF ClockKinds
  <2> QED
    BY <1>3, <2>2, <2>3 DEF TIMER0_OVF, ClockKinds, inc
<1>4. CASE ClockSketch
  BY <1>4 DEF ClockSketch, InCall, LoadLow, LoadHigh, LoadTcnt, LoadFlag, Return, DelayStep, DelayReturn,
     millis, micros, delay, Interrupts, timer, counters, ClockKinds
<1>5. CASE UNCHANGED clockVars
  BY <1>5 DEF clockVars, timer, counters, ClockKinds
<1> QED
  BY <1>2, <1>3, <1>4, <1>5 DEF WaitsNext, ClockNext, waitVars

\* What tone() stores in the compare register
LEMMA OcrInRange ==
    ASSUME NEW f \in Frequencies PROVE prescalarbits(f) \in 1 .. 7 /\ ocr(f) % (OCR_MAX + 1) \in 0 .. OCR_MAX
<1>1. prescalarbits(f) \in 1 .. 7
  <2>1. CASE Fitting(f) = {}
    BY <2>1 DEF prescalarbits
  <2>2. CASE Fitting(f) # {}
    BY <2>2, FitsLeast DEF Fitting
  <2> QED
    BY <2>1, <2>2
<1>2. Steps(f, Timer2Dividers[prescalarbits(f)]) \in Nat
  BY <1>1, StepsOf
<1>3. ocr(f) \in Nat
  BY <1>2 DEF ocr, Ocr
<1> HIDE DEF ocr
<1>4. OCR_MAX \in Nat
  BY ToneConstants
<1> QED
  BY <1>1, <1>3, <1>4

LEMMA ToneKindsKeep == ASSUME ToneKinds, [WaitsNext]_waitVars PROVE ToneKinds'
<1> USE DEF Setting, Stopping
<1>1. CASE \E p \in TonePins : noTone(p) \/ \E f \in Frequencies, d \in Durations : tone(p, f, d)
  BY <1>1 DEF tone, noTone, None, timer2, toneData, ToneKinds
<1>2. CASE toneBegin
  BY <1>2 DEF toneBegin, ToneKinds
<1>3. CASE SetPrescaler
  BY <1>3, OcrInRange DEF SetPrescaler, toneData, ToneKinds
<1>4. CASE SetCompare
  <2>1. tune.f \in Frequencies /\ tune.d \in Nat
    <3>1. tune.f \in Frequencies /\ tune.d \in Durations
      BY <1>4 DEF SetCompare, ToneKinds
    <3> QED
      BY <3>1, ToneConstants
  <2>2. newCount' \in Int
    BY <1>4, <2>1 DEF SetCompare
  <2>3. OCR2A' \in 0 .. OCR_MAX
    BY <1>4, <2>1, OcrInRange DEF SetCompare
  <2> QED
    BY <1>4, <2>2, <2>3 DEF SetCompare, toneData, ToneKinds
<1>5. CASE SetCountLow \/ SetCountHigh
  <2>1. toggle_count' \in Int
    <3>1. toggle_count \in Int /\ newCount \in Int
      BY DEF ToneKinds
    <3> QED
      BY <1>5, <3>1, HalvesJoin DEF SetCountLow, SetCountHigh, HighHalf
  <2>2. newCount' \in Int
    BY <1>5 DEF SetCountLow, SetCountHigh, ToneKinds
  <2> QED
    BY <1>5, <2>1, <2>2 DEF SetCountLow, SetCountHigh, timer2, ToneKinds
<1>6. CASE EnableTone \/ FreeTimer \/ Disable
  BY <1>6, ToneConstants DEF EnableTone, FreeTimer, Disable, disableTimer, timer2, toneData, ToneKinds
<1>7. CASE Write
  <2>1. output' \in [TonePins -> {0, 1}]
    BY <1>7 DEF Write, Low, ToneKinds
  <2> QED
    BY <1>7, <2>1 DEF Write, timer2, toneData, ToneKinds
<1>8. CASE ToggleOutput
  <2>1. output' \in [TonePins -> {0, 1}]
    <3>1. output' = [output EXCEPT ![timer2_pin] = 1 - @]
      BY <1>8 DEF ToggleOutput
    <3>2. output \in [TonePins -> {0, 1}] /\ (timer2_pin \in TonePins \/ timer2_pin = 255)
      BY DEF ToneKinds
    <3>3. CASE timer2_pin \in TonePins
      <4>1. output[timer2_pin] \in {0, 1} /\ 1 - output[timer2_pin] \in {0, 1}
        BY <3>2, <3>3
      <4> QED
        BY <3>1, <3>2, <4>1
    <3>4. CASE timer2_pin = 255
      <4>1. 255 \notin TonePins
        BY ToneConstants
      <4>2. output' = [p \in TonePins |-> output'[p]]
        BY <3>1, <3>2
      <4>3. ASSUME NEW p \in TonePins PROVE output'[p] \in {0, 1}
        <5>1. p # timer2_pin
          BY <3>4, <4>1
        <5>2. output'[p] = output[p]
          BY <3>1, <3>2, <5>1
        <5> QED
          BY <3>2, <5>2
      <4> QED
        BY <4>2, <4>3
    <3> QED
      BY <3>2, <3>3, <3>4
  <2>2. toggle_count' \in Int
    BY <1>8 DEF ToggleOutput, ToneKinds
  <2> QED
    BY <1>8, <2>1, <2>2 DEF ToggleOutput, timer2, ToneKinds
<1>9. CASE EndTone
  <2>1. output' \in [TonePins -> {0, 1}]
    BY <1>9 DEF EndTone, ToneKinds
  <2>2. prescaler' = 4 /\ OCR2A' = 0 /\ tone_pins' = 255
    BY <1>9 DEF EndTone, disableTimer
  <2> QED
    BY <1>9, <2>1, <2>2, ToneConstants DEF EndTone, toneData, ToneKinds
<1>10. CASE UNCHANGED toneVars
  BY <1>10 DEF toneVars, timer2, toneData, ToneKinds
<1> QED
  BY <1>1, <1>2, <1>3, <1>4, <1>5, <1>6, <1>7, <1>8, <1>9, <1>10
     DEF WaitsNext, ToneNext, InTone, SetsTone, StopsTone, waitVars

LEMMA FifoKindsKeep == ASSUME FifoKinds, [WaitsNext]_waitVars PROVE FifoKinds'
<1>1. FifoInv /\ FifoInv' /\ wr \in Seq(Forms) /\ rd \in Seq(Forms) /\ form \in Forms
  BY FifoKeeps DEF FifoKinds, FifoInv, FifoTypes
<1>2. Len(wr) <= DEPTH /\ Len(rd) <= DEPTH /\ DEPTH \in Nat /\ Len(wr) \in Nat /\ Len(rd) \in Nat
  BY <1>1, FifoConstants, LenProperties DEF FifoKinds
<1>3. CASE WriteByte
  <2>1. rd' = rd /\ wr' = IF Len(wr) < DEPTH THEN Append(wr, form) ELSE wr
    BY <1>3 DEF WriteByte
  <2>2. Len(wr') <= DEPTH
    BY <1>1, <1>2, <2>1, Pushed
  <2> QED
    BY <1>1, <1>2, <2>1, <2>2 DEF FifoKinds
<1>4. CASE ReadByte
  <2>1. wr' = wr /\ rd' = Tail(rd) /\ rd # <<>>
    BY <1>4 DEF ReadByte
  <2>2. Len(rd') <= DEPTH
    BY <1>1, <1>2, <2>1, Popped
  <2> QED
    BY <1>1, <1>2, <2>1, <2>2 DEF FifoKinds
<1>5. CASE Shift
  <2>1. /\ wr # <<>> /\ wr' = Tail(wr)
        /\ IF Len(rd) < DEPTH THEN rd' = Append(rd, Head(wr)) ELSE rd' \in {rd, Append(Tail(rd), Head(wr))}
    BY <1>5 DEF Shift
  <2>2. Len(wr') <= DEPTH /\ Head(wr) \in Forms
    BY <1>1, <1>2, <2>1, Popped
  <2>3. Len(rd') <= DEPTH
    <3>1. CASE Len(rd) < DEPTH
      BY <1>1, <1>2, <2>1, <2>2, <3>1, Pushed
    <3>2. CASE ~(Len(rd) < DEPTH) /\ rd' = rd
      BY <1>2, <3>2
    <3>3. CASE ~(Len(rd) < DEPTH) /\ rd' = Append(Tail(rd), Head(wr))
      <4>1. rd # <<>>
        <5>1. Len(<<>>) = 0 /\ DEPTH > 0
          BY FifoConstants
        <5> QED
          BY <1>2, <3>3, <5>1
      <4>2. Tail(rd) \in Seq(Forms) /\ Len(Tail(rd)) = Len(rd) - 1
        BY <1>1, <4>1, Popped
      <4>3. Len(rd') = Len(rd)
        BY <1>2, <2>2, <3>3, <4>2, Pushed
      <4> QED
        BY <1>2, <4>3
    <3> QED
      BY <2>1, <3>1, <3>2, <3>3
  <2> QED
    BY <1>1, <2>2, <2>3 DEF FifoKinds
<1>6. CASE TransferDone
  <2>1. (wr' = wr /\ rd' = rd) \/ (wr' = <<>> /\ rd' = <<>>)
    BY <1>6 DEF TransferDone
  <2>2. Len(<<>>) = 0
    OBVIOUS
  <2> QED
    BY <1>1, <1>2, <2>1, <2>2 DEF FifoKinds
<1>7. CASE GiveUp \/ Wedge \/ (\E f \in Buffered, n \in Lengths : transfer(f, n))
          \/ \E f \in DOMAIN Inline : transfer(f, Inline[f])
  <2>1. wr' = wr /\ rd' = rd
    BY <1>7 DEF GiveUp, Wedge, transfer, fifo
  <2> QED
    BY <1>1, <1>2, <2>1 DEF FifoKinds
<1>8. CASE UNCHANGED fifoVars
  BY <1>1, <1>2, <1>8 DEF fifoVars, fifo, FifoKinds
<1> QED
  BY <1>3, <1>4, <1>5, <1>6, <1>7, <1>8 DEF WaitsNext, FifoNext, InTransfer, waitVars

LEMMA PulseTypesKeep == ASSUME PulseTypes, [WaitsNext]_waitVars PROVE PulseTypes'
<1> USE PulseConstants
<1>1. /\ OneMore(age) \in 0 .. ULONG /\ OneMore(used) \in 0 .. ULONG
      /\ (clock + 1) % ULONG \in 0 .. ULONG - 1 /\ Less \in 0 .. ULONG - 1 /\ More \in 0 .. ULONG - 1
  BY NotCapped DEF PulseTypes, Less, More
<1>2. SinceMark \in 0 .. ULONG - 1
  BY DEF PulseTypes, SinceMark
<1>3. CASE \E timeout \in Timeouts : pulseIn(timeout) \/ pulseInLong(timeout)
  BY <1>3 DEF PulseTypes, pulseIn, pulseInLong, Ask, pinState
<1>4. CASE Edge
  BY <1>4 DEF PulseTypes, Edge
<1>5. CASE TickPin
  BY <1>1, <1>5 DEF PulseTypes, TickPin, Passes
<1>6. CASE WaitLoop \/ CountLoop
  BY <1>1, <1>6 DEF PulseTypes, WaitLoop, CountLoop, Passes
<1>7. CASE Found \/ EndOfPulse \/ Look \/ LookAgain
  BY <1>7 DEF PulseTypes, Found, EndOfPulse, Look, LookAgain, pinState
<1>8. CASE Mark \/ TakeLength \/ GivePulse
  BY <1>2, <1>8 DEF PulseTypes, Mark, TakeLength, GivePulse, pinState
<1>9. CASE UNCHANGED pulseVars
  BY <1>9 DEF pulseVars, pinState, PulseTypes
<1> QED
  BY <1>3, <1>4, <1>5, <1>6, <1>7, <1>8, <1>9 DEF WaitsNext, PulseNext, InPulse, waitVars

\* Every step keeps all of them.
LEMMA KindsKeep == ASSUME Kinds, [WaitsNext]_waitVars PROVE Kinds'
BY ClockKindsKeep, ToneKindsKeep, FifoKindsKeep, PulseTypesKeep DEF Kinds
=============================================================================
