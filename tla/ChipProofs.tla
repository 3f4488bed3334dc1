----------------------------- MODULE ChipProofs -----------------------------
(***************************************************************************)
(* What the chip promises whatever its constants: proofs of SleepSafe,     *)
(* UploadKept and RegionKept.  A step of the flash leaves the variables of *)
(* LowPower alone, and one of LowPower those of the flash, so that each    *)
(* invariant speaks of its own.                                            *)
(***************************************************************************)
EXTENDS ChipProps, TLAPS

Forms == {"none", "idle", "adcNoiseReduction", "powerDown", "powerStandby", "powerExtStandby"}
Steps == {"awake", "off", "arm", "sleep", "asleep", "stop", "restore"}

SleepTypes ==
    /\ running \in [Registers -> BOOLEAN] /\ o_reg \in [Registers -> BOOLEAN]
    /\ wanted \in [Registers -> BOOLEAN] /\ overridden \subseteq Registers
    /\ nap \in [form : Forms, timed : BOOLEAN, offs : SUBSET Registers]
    /\ step \in Steps
    /\ ldo \in BOOLEAN /\ wdt \in BOOLEAN /\ elapsed \in BOOLEAN /\ enabled \in BOOLEAN

\* Interrupts are off while the chip sleeps and until the watchdog is stopped.
MaskedAsleep ==
    /\ step \in {"asleep", "stop"} => ~enabled
    /\ ~enabled => step \in {"asleep", "stop", "restore"}

\* The watchdog runs from its arming to its stop, and elapses with interrupts off.
WatchdogInside ==
    /\ wdt => step \in {"sleep", "asleep", "stop"}
    /\ elapsed => step \in {"asleep", "stop"}

\* The supply is off at most in the sleep itself, and what is put back after it is on.
Powered ==
    /\ step # "asleep" => ldo
    /\ running["VDTCR"] \/ (step = "asleep" /\ "VDTCR" \in nap.offs)
    /\ o_reg["VDTCR"] /\ wanted["VDTCR"]

\* In a call, a register that will be put back was saved as the program wants it, and
\* the others are as the program wants them.
Remembered ==
    IF step = "awake"
    THEN \A r \in Registers \ overridden : running[r] = wanted[r]
    ELSE /\ \A r \in Stored \ overridden : wanted[r] = Before(r)
         /\ \A r \in Registers \ (Stored \union {"VDTCR"}) : running[r] = wanted[r]

SleepInv == SleepTypes /\ MaskedAsleep /\ WatchdogInside /\ Powered /\ Remembered

\* The chip's registers are apart from the modules of PRR.
LEMMA Apart ==
    /\ "VDTCR" \in Registers /\ "ADCSRA" \in Registers
    /\ "VDTCR" \notin MODULES /\ "VDTCR" \notin Stored
    /\ MODULES \subseteq Registers
BY LowPowerAssumption, Zenon DEF Registers, Stored

\* What is put back is among the registers.
LEMMA StoredThere == SleepTypes => Stored \subseteq Registers
BY Apart DEF SleepTypes, Stored

\* At first everything is on and the chip is awake.
LEMMA SleepStarts == SleepInit => SleepInv
<1> SUFFICES ASSUME SleepInit PROVE SleepInv
  OBVIOUS
<1>1. SleepTypes
  BY DEF SleepInit, SleepTypes, AllOn, Awake, Forms, Steps
<1>2. MaskedAsleep /\ WatchdogInside
  BY DEF SleepInit, MaskedAsleep, WatchdogInside
<1>3. \A r \in Registers : running[r] /\ o_reg[r] /\ wanted[r] /\ running[r] = wanted[r]
  BY DEF SleepInit, AllOn
<1>4. Powered /\ Remembered
  BY <1>3, Apart DEF SleepInit, Powered, Remembered
<1>5. QED
  BY <1>1, <1>2, <1>4 DEF SleepInv

\* The beginning of a call saves what the program wants.
LEMMA SaveKeeps ==
    ASSUME SleepInv, NEW form \in Forms, NEW timed \in BOOLEAN, NEW offs \in SUBSET Registers,
           Save(form, timed, offs)
    PROVE  SleepInv'
<1>1. SleepTypes'
  BY Apart DEF Save, SleepInv, SleepTypes, Steps, power, watchdog
<1>2. MaskedAsleep' /\ WatchdogInside'
  BY DEF Save, SleepInv, MaskedAsleep, WatchdogInside, watchdog
<1>3. Powered'
  BY Apart DEF Save, SleepInv, Powered, SleepTypes, power, watchdog
<1>4. Remembered'
  <2>1. step' # "awake" /\ overridden' = {} /\ nap' = [form |-> form, timed |-> timed, offs |-> offs]
        /\ running' = running /\ o_reg' = running
    BY DEF Save, power
  <2>2. ASSUME NEW r \in Stored' PROVE wanted'[r] = Before(r)'
    <3>1. r \in Registers
      BY Apart, <2>1 DEF Stored
    <3>2. CASE r = "ADCSRA" /\ form = "adcNoiseReduction"
      <4>1. "ADCSRA" \in offs
        BY <3>2, <2>1, <2>2 DEF Stored
      <4>2. QED
        BY <4>1, <3>2, <2>1, Apart DEF Before, Save, SleepInv, SleepTypes
    <3>3. CASE ~(r = "ADCSRA" /\ form = "adcNoiseReduction")
      BY <3>1, <3>3, <2>1 DEF Before, Save, SleepInv, SleepTypes
    <3>4. QED
      BY <3>2, <3>3
  <2>3. ASSUME NEW r \in Registers, r \notin Stored', r # "VDTCR" PROVE running'[r] = wanted'[r]
    <3>1. r \notin offs
      BY <2>1, <2>3 DEF Stored
    <3>2. QED
      BY <3>1, <2>1 DEF Save, SleepInv, SleepTypes
  <2>4. QED
    BY <2>1, <2>2, <2>3 DEF Remembered
<1>5. QED
  BY <1>1, <1>2, <1>3, <1>4 DEF SleepInv

\* Every step of a call keeps the invariant.
LEMMA NapKeeps == SleepInv /\ InNap => SleepInv'
<1> SUFFICES ASSUME SleepInv, InNap PROVE SleepInv'
  OBVIOUS
<1> USE DEF power, watchdog
<1>1. CASE SwitchOff
  <2>1. SleepTypes' /\ MaskedAsleep' /\ WatchdogInside'
    BY <1>1 DEF SwitchOff, SleepInv, SleepTypes, MaskedAsleep, WatchdogInside, Steps
  <2>2. \A r \in Registers \ Stored : running'[r] = running[r]
    BY <1>1 DEF SwitchOff, Stored, SleepInv, SleepTypes
  <2>3. Stored' = Stored /\ \A r \in Registers : Before(r)' = Before(r)
    BY <1>1 DEF SwitchOff, Stored, Before
  <2>4. Powered'
    BY <1>1, <2>2, Apart DEF SwitchOff, SleepInv, Powered
  <2>5. /\ \A r \in Stored \ overridden : wanted[r] = Before(r)
        /\ \A r \in Registers \ (Stored \union {"VDTCR"}) : running[r] = wanted[r]
    BY <1>1, Zenon DEF SwitchOff, SleepInv, Remembered
  <2>6. Remembered'
    <3>1. step' # "awake" /\ wanted' = wanted /\ overridden' = overridden
      BY <1>1 DEF SwitchOff
    <3>2. \A r \in Stored' \ overridden' : wanted'[r] = Before(r)'
      <4> SUFFICES ASSUME NEW r \in Stored \ overridden PROVE wanted[r] = Before(r)'
        BY <2>3, <3>1
      <4>1. r \in Registers
        BY StoredThere DEF SleepInv
      <4>2. QED
        BY <4>1, <2>3, <2>5
    <3>3. \A r \in Registers \ (Stored' \union {"VDTCR"}) : running'[r] = wanted'[r]
      BY <2>2, <2>3, <2>5, <3>1
    <3>4. QED
      BY <3>1, <3>2, <3>3 DEF Remembered
  <2>7. QED
    BY <2>1, <2>4, <2>6 DEF SleepInv
<1>2. CASE Arm
  <2>1. SleepTypes' /\ MaskedAsleep' /\ WatchdogInside' /\ Powered'
    BY <1>2 DEF Arm, SleepInv, SleepTypes, MaskedAsleep, WatchdogInside, Powered, Steps
  <2>2. Remembered'
    BY <1>2 DEF Arm, SleepInv, Remembered, Stored, Before
  <2>3. QED
    BY <2>1, <2>2 DEF SleepInv
<1>3. CASE Sleep
  <2>1. SleepTypes' /\ MaskedAsleep' /\ WatchdogInside' /\ Powered'
    BY <1>3, Apart DEF Sleep, SleepInv, SleepTypes, MaskedAsleep, WatchdogInside, Powered, Steps
  <2>2. \A r \in Registers \ {"VDTCR"} : running'[r] = running[r]
    BY <1>3 DEF Sleep, SleepInv, SleepTypes
  <2>3. Remembered'
    BY <1>3, <2>2 DEF Sleep, SleepInv, Remembered, Stored, Before
  <2>4. QED
    BY <2>1, <2>3 DEF SleepInv
<1>4. CASE Wake
  <2>1. SleepTypes' /\ MaskedAsleep' /\ WatchdogInside'
    BY <1>4, Apart DEF Wake, Detected, StaysEnabled, SleepInv, SleepTypes, MaskedAsleep, WatchdogInside, Steps
  <2>2. \A r \in Registers \ {"VDTCR"} : running'[r] = running[r]
    BY <1>4 DEF Wake, SleepInv, SleepTypes
  <2>3. Remembered'
    BY <1>4, <2>2 DEF Wake, SleepInv, Remembered, Stored, Before
  <2>4. Powered'
    BY <1>4, Apart DEF Wake, SleepInv, SleepTypes, Powered, Detected
  <2>5. QED
    BY <2>1, <2>3, <2>4 DEF SleepInv
<1>5. CASE StopWatchdog
  <2>1. SleepTypes' /\ MaskedAsleep' /\ WatchdogInside' /\ Powered'
    BY <1>5 DEF StopWatchdog, SleepInv, SleepTypes, MaskedAsleep, WatchdogInside, Powered, Steps
  <2>2. Remembered'
    BY <1>5 DEF StopWatchdog, SleepInv, Remembered, Stored, Before
  <2>3. QED
    BY <2>1, <2>2 DEF SleepInv
<1>6. CASE sei
  <2>1. SleepTypes' /\ MaskedAsleep' /\ WatchdogInside' /\ Powered'
    BY <1>6 DEF sei, SleepInv, SleepTypes, MaskedAsleep, WatchdogInside, Powered
  <2>2. Remembered'
    BY <1>6 DEF sei, SleepInv, Remembered, Stored, Before
  <2>3. QED
    BY <2>1, <2>2 DEF SleepInv
<1>7. CASE Restore
  <2>1. SleepTypes' /\ MaskedAsleep' /\ WatchdogInside'
    BY <1>7 DEF Restore, Before, Awake, SleepInv, SleepTypes, MaskedAsleep, WatchdogInside, Steps, Forms
  <2>2. \A r \in Registers : running'[r] = IF r \in Stored THEN Before(r) ELSE running[r]
    BY <1>7 DEF Restore
  <2>3. Powered'
    BY <1>7, <2>2, Apart DEF Restore, SleepInv, Powered
  <2>4. Remembered'
    BY <1>7, <2>2, <2>3, Apart DEF Restore, SleepInv, Remembered, Powered
  <2>5. QED
    BY <2>1, <2>3, <2>4 DEF SleepInv
<1>8. QED
  BY <1>1, <1>2, <1>3, <1>4, <1>5, <1>6, <1>7 DEF InNap

\* The chip, and whatever a handler or the sketch switches, keep the invariant.
LEMMA SwitchKeeps ==
    ASSUME SleepInv, NEW r \in Registers \ {"VDTCR"}, Switch(r)
    PROVE  SleepInv'
<1> USE DEF power, watchdog
<1>1. SleepTypes' /\ MaskedAsleep' /\ WatchdogInside' /\ Powered'
  BY Apart DEF Switch, SleepInv, SleepTypes, MaskedAsleep, WatchdogInside, Powered
<1>2. \A s \in Registers \ {r} : running'[s] = running[s] /\ wanted'[s] = wanted[s]
  BY DEF Switch, SleepInv, SleepTypes
<1>3. running'[r] = wanted'[r]
  BY DEF Switch, SleepInv, SleepTypes
<1>4. Stored' = Stored /\ \A s \in Registers : Before(s)' = Before(s)
  BY DEF Switch, Stored, Before
<1>5. Remembered'
  <2>1. CASE step = "awake"
    BY <1>2, <1>3, <2>1 DEF Switch, SleepInv, Remembered
  <2>2. CASE step # "awake"
    <3>1. \A s \in Stored' \ overridden' : wanted'[s] = Before(s)'
      BY <1>2, <1>4, <2>2, StoredThere DEF Switch, SleepInv, Remembered
    <3>2. \A s \in Registers \ (Stored' \union {"VDTCR"}) : running'[s] = wanted'[s]
      BY <1>2, <1>3, <1>4, <2>2 DEF Switch, SleepInv, Remembered
    <3>3. QED
      BY <2>2, <3>1, <3>2 DEF Switch, Remembered
  <2>3. QED
    BY <2>1, <2>2
<1>6. QED
  BY <1>1, <1>5 DEF SleepInv

\* A step of the sleep, or of anything else, keeps the invariant.
LEMMA SleepKeeps == SleepInv /\ (SleepNext \/ UNCHANGED sleepVars) => SleepInv'
<1> SUFFICES ASSUME SleepInv, SleepNext \/ UNCHANGED sleepVars PROVE SleepInv'
  OBVIOUS
<1>1. CASE Naps
  <2>1. PICK timed \in BOOLEAN, offs \in SUBSET Registers :
           \/ idle(timed, offs) \/ adcNoiseReduction(timed, offs) \/ powerDown(timed, offs)
           \/ powerStandby(timed, offs) \/ powerExtStandby(timed, offs)
    BY <1>1 DEF Naps
  <2>2. \E form \in Forms : Save(form, timed, offs)
    BY <2>1, Zenon DEF Forms, idle, adcNoiseReduction, powerDown, powerStandby, powerExtStandby
  <2>3. QED
    BY <2>2, SaveKeeps
<1>2. CASE InNap
  BY <1>2, NapKeeps
<1>3. CASE UNCHANGED <<step, nap, running, o_reg, wanted, overridden, ldo, enabled, wdt>>
           /\ elapsed' \in BOOLEAN /\ (elapsed' => elapsed \/ (wdt /\ ~enabled))
  <2>1. SleepTypes' /\ MaskedAsleep' /\ WatchdogInside' /\ Powered'
    BY <1>3 DEF SleepInv, SleepTypes, MaskedAsleep, WatchdogInside, Powered
  <2>2. Remembered'
    BY <1>3 DEF SleepInv, Remembered, Stored, Before
  <2>3. QED
    BY <2>1, <2>2 DEF SleepInv
<1>4. CASE Timeout
  BY <1>3, <1>4 DEF Timeout, power
<1>5. CASE Occurs \/ UNCHANGED sleepVars
  BY <1>3, <1>5 DEF Occurs, power, watchdog, sleepVars, SleepInv, SleepTypes
<1>6. CASE Handler
  <2>1. CASE \E r \in Registers \ {"VDTCR"} : Switch(r)
    BY <2>1, SwitchKeeps
  <2>2. CASE UNCHANGED <<power, o_reg, watchdog, enabled, nap, step, wanted, overridden>>
    BY <1>3, <2>2 DEF power, watchdog, SleepInv, SleepTypes
  <2>3. QED
    BY <1>6, <2>1, <2>2 DEF Handler
<1>7. CASE Sketch
  BY <1>7, SwitchKeeps DEF Sketch
<1>8. QED
  BY <1>1, <1>2, <1>4, <1>5, <1>6, <1>7 DEF SleepNext

\* The invariant is what SleepSafe needs: registers, watchdog and supply.
LEMMA InvIsSafe == SleepInv => SleepSafe
<1> SUFFICES ASSUME SleepInv PROVE Restored /\ NoVector /\ Supplied
  BY DEF SleepSafe
<1>1. Restored
  BY DEF SleepInv, Remembered, Restored
<1>2. NoVector
  BY DEF SleepInv, WatchdogInside, MaskedAsleep, NoVector
<1>3. Supplied
  BY DEF SleepInv, MaskedAsleep, Powered, Supplied
<1>4. QED
  BY <1>1, <1>2, <1>3

\* Whatever is switched off and whenever interrupts come, a sleep puts back what the
\* program set, its watchdog never runs into a vector that is not there, and no handler
\* runs without the supply (lgt_LowPower.cpp: idle() to powerExtStandby()).
THEOREM SleepsAreSafe == ChipSpec => []SleepSafe
<1>1. ChipInit => SleepInv
  BY SleepStarts DEF ChipInit
<1>2. SleepInv /\ [ChipNext]_chipVars => SleepInv'
  <2> SUFFICES ASSUME SleepInv, [ChipNext]_chipVars PROVE SleepInv'
    OBVIOUS
  <2>1. SleepNext \/ UNCHANGED sleepVars
    BY DEF ChipNext, chipVars
  <2>2. QED
    BY <2>1, SleepKeeps
<1>3. QED
  BY <1>1, <1>2, InvIsSafe, PTL DEF ChipSpec

-----------------------------------------------------------------------------
(* The flash: numbers first *)

\* Division with remainder.
LEMMA DivMod ==
    ASSUME NEW a \in Nat, NEW d \in Nat, d > 0
    PROVE  /\ a \div d \in Nat /\ a % d \in 0 .. d - 1
           /\ a = d * (a \div d) + (a % d)
OBVIOUS

\* Products keep an order.
LEMMA Monotone ==
    ASSUME NEW d \in Nat, NEW x \in Nat, NEW y \in Nat, x < y
    PROVE  d * x + d <= d * y
<1>1. PICK k \in Nat : y = x + 1 + k
  <2>1. y - x - 1 \in Nat /\ y = x + 1 + (y - x - 1)
    OBVIOUS
  <2> QED
    BY <2>1
<1>2. d * y = d * x + d + d * k
  BY <1>1
<1>3. d * k \in Nat /\ d * x \in Nat
  BY <1>1
<1> QED
  BY <1>2, <1>3

\* The quotient is the number of whole ds.
LEMMA Quotient ==
    ASSUME NEW a \in Nat, NEW d \in Nat, d > 0, NEW q \in Nat
    PROVE  a \div d = q <=> d * q <= a /\ a < d * q + d
<1> DEFINE e == a \div d  r == a % d
<1>1. e \in Nat /\ r \in 0 .. d - 1 /\ a = d * e + r
  BY DivMod
<1> HIDE DEF e, r
<1>2. d * e \in Nat /\ d * q \in Nat
  BY <1>1
<1>3. e < q => d * e + d <= d * q
  BY <1>1, Monotone
<1>4. q < e => d * q + d <= d * e
  BY <1>1, Monotone
<1>5. e = q <=> d * q <= a /\ a < d * q + d
  <2>1. CASE e = q
    BY <2>1, <1>1, <1>2
  <2>2. CASE e < q
    BY <2>2, <1>1, <1>2, <1>3
  <2>3. CASE q < e
    BY <2>3, <1>1, <1>2, <1>4
  <2> QED
    BY <2>1, <2>2, <2>3, <1>1
<1> QED
  BY <1>5 DEF e

\* What is assumed of the constants.
LEMMA FlashConstants ==
    /\ PAGES \in Nat /\ BLOCKS \in Nat /\ BLOCKS > 0 /\ WORDS \in Nat /\ WORDS > 1
    /\ BOOT \in Nat /\ BOOT > 0 /\ BOOT < PAGES /\ WDT \in 1 .. WORDS - 1
    /\ \A size \in Sizes : size \in Nat /\ size > 0 /\ size <= BOOT * BLOCKS
    /\ Largest \in Sizes /\ \A size \in Sizes : size <= Largest
    /\ pageWords \in Nat /\ pageWords > 0 /\ pageWords = BLOCKS * WORDS
    /\ SIZE_ \in Nat /\ SIZE = SIZE_ /\ PAGE = pageWords
    /\ BOOT * pageWords \in Nat /\ BOOT * pageWords < SIZE
    /\ WRAP \in Nat /\ SIZE <= WRAP /\ Limits \subseteq 0 .. SIZE /\ Addresses \subseteq 0 .. SIZE
<1>1. /\ PAGES \in Nat /\ BLOCKS \in Nat /\ BLOCKS > 0 /\ WORDS \in Nat /\ WORDS > 1
      /\ BOOT \in Nat /\ BOOT > 0 /\ BOOT < PAGES /\ WDT \in 1 .. WORDS - 1
  BY BootAssumption
<1>2. \A size \in Sizes : size \in Nat /\ size > 0 /\ size <= BOOT * BLOCKS
  <2>1. Sizes \subseteq 1 .. BOOT * BLOCKS
    BY BootAssumption, Zenon
  <2>2. BOOT * BLOCKS \in Nat
    BY <1>1
  <2> DEFINE top == BOOT * BLOCKS
  <2> HIDE DEF top
  <2>3. \A size \in Sizes : size \in Nat /\ size > 0 /\ size <= top
    BY <2>1, <2>2 DEF top
  <2> QED
    BY <2>3 DEF top
<1>3. Largest \in Sizes /\ \A size \in Sizes : size <= Largest
  BY BootAssumption DEF Largest
<1>4. pageWords \in Nat /\ pageWords = BLOCKS * WORDS /\ pageWords >= WORDS
  <2>1. BLOCKS * WORDS \in Nat /\ WORDS * 1 + WORDS <= WORDS * (BLOCKS + 1)
    BY <1>1, Monotone
  <2>2. WORDS * (BLOCKS + 1) = BLOCKS * WORDS + WORDS
    BY <1>1
  <2> QED
    BY <1>1, <2>1, <2>2 DEF pageWords
<1>5. /\ SIZE_ \in Nat /\ BOOT * pageWords \in Nat /\ BOOT * pageWords < SIZE_
  <2>1. pageWords * BOOT + pageWords <= pageWords * PAGES
    BY <1>1, <1>4, Monotone
  <2>2. pageWords * BOOT = BOOT * pageWords /\ pageWords * PAGES = PAGES * pageWords
    BY <1>1, <1>4
  <2>3. BOOT * pageWords \in Nat /\ PAGES * pageWords \in Nat
    BY <1>1, <1>4
  <2> QED
    BY <1>1, <1>4, <2>1, <2>2, <2>3 DEF SIZE_
<1>6. SIZE = SIZE_ /\ PAGE = pageWords
  BY FlashAssumption
<1>7. WRAP \in Nat /\ SIZE <= WRAP /\ Limits \subseteq 0 .. SIZE /\ Addresses \subseteq 0 .. SIZE
  BY IapAssumption
<1> QED
  BY <1>1, <1>2, <1>3, <1>4, <1>5, <1>6, <1>7

\* A word of a block is in the page of the block.
LEMMA PageOfBlock ==
    ASSUME NEW block \in Nat, NEW x \in 0 .. WORDS - 1
    PROVE  (block * WORDS + x) \div pageWords = block \div BLOCKS
<1> DEFINE q == block \div BLOCKS  r == block % BLOCKS
<1>1. q \in Nat /\ r \in 0 .. BLOCKS - 1 /\ block = BLOCKS * q + r
  BY FlashConstants, DivMod
<1> HIDE DEF q, r
<1>2. block * WORDS = pageWords * q + r * WORDS
  <2>1. block * WORDS = (BLOCKS * q) * WORDS + r * WORDS
    BY <1>1, FlashConstants
  <2>2. (BLOCKS * q) * WORDS = (BLOCKS * WORDS) * q
    BY <1>1, FlashConstants
  <2> QED
    BY <2>1, <2>2, FlashConstants
<1>3. WORDS * r + WORDS <= WORDS * BLOCKS /\ WORDS * r = r * WORDS /\ WORDS * BLOCKS = pageWords
  BY <1>1, FlashConstants, Monotone
<1>4. r * WORDS \in Nat /\ pageWords * q \in Nat /\ block * WORDS \in Nat
  BY <1>1, FlashConstants
<1>5. block * WORDS + x \in Nat
  BY <1>4, FlashConstants
<1>6. pageWords * q <= block * WORDS + x /\ block * WORDS + x < pageWords * q + pageWords
  BY <1>2, <1>3, <1>4, FlashConstants
<1>7. (block * WORDS + x) \div pageWords = q
  BY <1>1, <1>5, <1>6, FlashConstants, Quotient
<1> QED
  BY <1>7 DEF q

\* The words of a block come before those of a later block.
LEMMA WordsBefore ==
    ASSUME NEW block \in Nat, NEW size \in Nat, block < size
    PROVE  /\ block * WORDS \in Nat /\ size * WORDS \in Nat
           /\ (block + 1) * WORDS = block * WORDS + WORDS
           /\ block * WORDS + WORDS <= size * WORDS
<1>1. WORDS * block + WORDS <= WORDS * size
  BY FlashConstants, Monotone
<1> QED
  BY <1>1, FlashConstants

\* An image ends before the bootloader begins.
LEMMA ImageEnds ==
    ASSUME NEW size \in Sizes
    PROVE  /\ size * WORDS \in Nat /\ WORDS <= size * WORDS /\ size * WORDS <= BOOT * pageWords
           /\ size * WORDS <= Largest * WORDS /\ Largest * WORDS \in Nat
<1>1. size \in Nat /\ size > 0 /\ size <= BOOT * BLOCKS /\ size <= Largest /\ Largest \in Nat
  BY FlashConstants
<1>2. BOOT * BLOCKS \in Nat
  BY FlashConstants
<1>3. size * WORDS <= (BOOT * BLOCKS) * WORDS
  BY <1>1, <1>2, FlashConstants, WordsBefore
<1>4. size * WORDS <= Largest * WORDS
  BY <1>1, FlashConstants, WordsBefore
<1>5. (BOOT * BLOCKS) * WORDS = BOOT * pageWords
  BY FlashConstants
<1>6. WORDS <= size * WORDS
  BY <1>1, FlashConstants, WordsBefore
<1> QED
  BY <1>1, <1>3, <1>4, <1>5, <1>6, FlashConstants

\* There is a block.
LEMMA FirstBlock == 0 \in 0 .. PAGES * BLOCKS - 1
<1>1. BLOCKS * 0 + BLOCKS <= BLOCKS * PAGES /\ BLOCKS * PAGES = PAGES * BLOCKS
  BY FlashConstants, Monotone
<1>2. PAGES * BLOCKS \in Nat
  BY FlashConstants
<1> DEFINE n == PAGES * BLOCKS
<1> HIDE DEF n
<1>3. n \in Nat /\ n > 0
  BY <1>1, <1>2, FlashConstants DEF n
<1>4. 0 \in 0 .. n - 1
  BY <1>3
<1> QED
  BY <1>4 DEF n

\* A block of an image is one of the flash, and its words are before the bootloader.
LEMMA BlockFits ==
    ASSUME NEW size \in Sizes, NEW block \in Nat, block < size
    PROVE  /\ block \in 0 .. PAGES * BLOCKS - 1
           /\ block * WORDS \in Nat /\ block * WORDS + WORDS <= size * WORDS
           /\ block * WORDS + WORDS <= BOOT * pageWords
<1>1. size <= BOOT * BLOCKS /\ size \in Nat
  BY FlashConstants
<1>2. BLOCKS * BOOT + BLOCKS <= BLOCKS * PAGES
  BY FlashConstants, Monotone
<1>3. BLOCKS * BOOT = BOOT * BLOCKS /\ BLOCKS * PAGES = PAGES * BLOCKS /\ BOOT * BLOCKS \in Nat
      /\ PAGES * BLOCKS \in Nat
  BY FlashConstants
<1> DEFINE n == PAGES * BLOCKS
<1> HIDE DEF n
<1>4. block < n /\ n \in Nat
  BY <1>1, <1>2, <1>3, FlashConstants DEF n
<1>5. block \in 0 .. n - 1
  BY <1>4
<1>6. block * WORDS \in Nat /\ block * WORDS + WORDS <= size * WORDS
  BY <1>1, WordsBefore
<1>7. size * WORDS <= BOOT * pageWords /\ size * WORDS \in Nat
  BY ImageEnds
<1> QED
  BY <1>5, <1>6, <1>7, FlashConstants DEF n

\* What was sent lies before the bootloader.
LEMMA DoneFits ==
    ASSUME NEW size \in Sizes, NEW block \in Nat, block < size, NEW k \in 0 .. block * WORDS - 1
    PROVE  k \in 0 .. SIZE - 1
BY BlockFits, FlashConstants

-----------------------------------------------------------------------------
(* An upload *)

Working == {"erase", "space", "write"}

FlashTypes ==
    /\ flash = [k \in 0 .. SIZE - 1 |-> flash[k]]
    /\ pc \in {"start", "getch", "app", "lost"} \union Working
    /\ address \in 0 .. PAGES * BLOCKS - 1 /\ w \in 0 .. WORDS - 1
    /\ pmask \subseteq 0 .. PAGES - 1 /\ astray \in BOOLEAN
    /\ host \in [does : {"nothing", "write", "read", "leave"}, image : Images \union {"none"},
                 size : Nat, next : Nat]

\* The block at work is the next of the programmer, who is silent outside of a session.
Session ==
    /\ pc \in Working => host.does = "write" /\ address = host.next
    /\ pc \in {"start", "app", "lost"} => host = Silent
    /\ host.does # "nothing" => host.size \in Sizes /\ host.next < host.size
    /\ pc # "write" => w = 0

\* Words of the image that are in flash
Done == host.next * WORDS + w

\* The pages erased are those of the blocks sent so far, and of the one at work.
Erased ==
    host.does = "write" =>
        \A p \in Nat :
            p \in pmask <=> BLOCKS * p < host.next \/ (BLOCKS * p = host.next /\ pc \in {"space", "write"})

\* What was sent is there, and the rest of its pages is free to be written.
Sent == host.does = "write" => \A k \in 0 .. Done - 1 : flash[k] = Word(host.image, k)
Free ==
    host.does = "write" =>
        \A k \in 0 .. SIZE - 1 : k >= Done /\ k \div pageWords \in pmask => flash[k] = Blank

\* The image before is given up with the first page, and the vector of this one kept in RAM.
GivenUp == host.does = "write" /\ pmask # {} => installed = NoImage
VectorInRam == host.does = "write" /\ (host.next > 0 \/ pc = "write") => rstVect = host.image

\* What is read back is there.
ToBeRead ==
    host.does \in {"read", "leave"} => rstVect = host.image /\ Holds(flash, host.image, host.size)

Uploading == Session /\ Erased /\ Sent /\ Free /\ GivenUp /\ VectorInRam /\ ToBeRead
Installed == ImageKept /\ (installed # NoImage => installed.size \in Sizes)
UploadInv == FlashTypes /\ Uploading /\ Installed /\ VectorKept /\ BootKept /\ ~mismatch

\* In the flash of a new chip
LEMMA UploadStarts == FlashInit => UploadInv
<1> SUFFICES ASSUME FlashInit PROVE UploadInv
  OBVIOUS
<1> USE FlashConstants
<1>1. PICK v \in Images, size \in Sizes :
        /\ flash = [k \in 0..SIZE_ - 1 |-> IF k < size * WORDS THEN Word(v, k)
                                           ELSE IF k < BOOT * pageWords THEN Blank ELSE Boot]
        /\ pc = "start" /\ address = 0 /\ w = 0 /\ pmask = {} /\ host = Silent
        /\ installed = [image |-> v, size |-> size] /\ mismatch = FALSE
  BY DEF FlashInit, BootInit
<1>2. /\ size * WORDS \in Nat /\ WORDS <= size * WORDS /\ size * WORDS <= BOOT * pageWords
  BY ImageEnds
<1>3. FlashTypes
  <2>1. address \in 0 .. PAGES * BLOCKS - 1 /\ w \in 0 .. WORDS - 1
    BY <1>1, FirstBlock
  <2>2. flash = [k \in 0 .. SIZE - 1 |-> flash[k]]
    BY <1>1
  <2>3. host \in [does : {"nothing", "write", "read", "leave"}, image : Images \union {"none"},
                  size : Nat, next : Nat]
    BY <1>1 DEF Silent
  <2> QED
    BY <1>1, <2>1, <2>2, <2>3 DEF FlashTypes, FlashInit
<1>4. Uploading
  BY <1>1 DEF Uploading, Session, Erased, Sent, Free, GivenUp, VectorInRam, ToBeRead, Silent,
     Working
<1>5. Installed
  BY <1>1, <1>2 DEF Installed, ImageKept, Holds
<1>6. VectorKept
  BY <1>1, <1>2 DEF VectorKept, Word
<1>7. BootKept
  BY <1>1, <1>2 DEF BootKept
<1> QED
  BY <1>1, <1>3, <1>4, <1>5, <1>6, <1>7 DEF UploadInv

\* A reset ends the session; the flash is as it was.
LEMMA ResetKeeps ==
    ASSUME UploadInv, NEW cause, ResetBy(cause), astray' = astray PROVE UploadInv'
<1> USE FlashConstants
<1>1. /\ flash' = flash /\ installed' = installed /\ mismatch' = mismatch /\ host' = Silent
      /\ address' = 0 /\ w' = 0 /\ pmask' = {}
      /\ pc' \in {"start", "lost"} /\ (pc' = "start" => flash[0] = Boot)
  BY DEF ResetBy
<1>2. FlashTypes'
  <2>1. host' \in [does : {"nothing", "write", "read", "leave"}, image : Images \union {"none"},
                   size : Nat, next : Nat]
    BY <1>1 DEF Silent
  <2>2. address' \in 0 .. PAGES * BLOCKS - 1 /\ w' \in 0 .. WORDS - 1
    BY <1>1, FirstBlock
  <2> QED
    BY <1>1, <2>1, <2>2 DEF FlashTypes, UploadInv
<1>3. Uploading'
  BY <1>1 DEF Uploading, Session, Erased, Sent, Free, GivenUp, VectorInRam, ToBeRead, Silent,
     Working
<1>4. Installed' /\ BootKept'
  BY <1>1 DEF UploadInv, Installed, ImageKept, Holds, Word, BootKept
<1>5. VectorKept'
  BY <1>1 DEF VectorKept
<1> QED
  BY <1>1, <1>2, <1>3, <1>4, <1>5 DEF UploadInv

\* The bootloader opens a session or starts the application.
LEMMA StartKeeps == ASSUME UploadInv, Start, astray' = astray PROVE UploadInv'
<1> USE FlashConstants
<1>1. /\ flash' = flash /\ installed' = installed /\ mismatch' = mismatch /\ address' = address
      /\ w' = w /\ pc = "start" /\ pc' \in {"getch", "app"} /\ host = Silent
  BY DEF Start, UploadInv, Uploading, Session
<1>2. \/ pmask' = {} /\ host' = Silent
      \/ pc' = "app" /\ pmask' = pmask /\ host' = host
      \/ /\ pmask' = {} /\ pc' = "getch"
         /\ \E v \in Images, size \in Sizes :
                host' = [does |-> "write", image |-> v, size |-> size, next |-> 0]
  BY DEF Start
<1>3. FlashTypes'
  <2>1. host' \in [does : {"nothing", "write", "read", "leave"}, image : Images \union {"none"},
                   size : Nat, next : Nat]
    BY <1>1, <1>2 DEF Silent
  <2> QED
    BY <1>1, <1>2, <2>1 DEF FlashTypes, UploadInv
<1>4. Uploading'
  <2>1. CASE host' = Silent
    BY <1>1, <2>1 DEF Uploading, Session, Erased, Sent, Free, GivenUp, VectorInRam, ToBeRead,
       Silent, Working, UploadInv
  <2>2. CASE /\ pmask' = {} /\ pc' = "getch"
             /\ \E v \in Images, size \in Sizes :
                    host' = [does |-> "write", image |-> v, size |-> size, next |-> 0]
    <3>1. /\ host'.does = "write" /\ host'.next = 0 /\ host'.size \in Sizes
      BY <2>2
    <3>2. w' = 0
      BY <1>1 DEF UploadInv, Uploading, Session
    <3>3. Done' = 0
      BY <3>1, <3>2 DEF Done
    <3>4. Session'
      BY <2>2, <3>1, <3>2 DEF Session, Working
    <3>5. Erased'
      BY <2>2, <3>1 DEF Erased
    <3>6. Sent' /\ Free' /\ GivenUp' /\ VectorInRam' /\ ToBeRead'
      BY <2>2, <3>1, <3>3 DEF Sent, Free, GivenUp, VectorInRam, ToBeRead
    <3> QED
      BY <3>4, <3>5, <3>6 DEF Uploading
  <2> QED
    BY <1>1, <1>2, <2>1, <2>2
<1>5. Installed' /\ BootKept'
  BY <1>1 DEF UploadInv, Installed, ImageKept, Holds, Word, BootKept
<1>6. VectorKept'
  BY <1>1 DEF VectorKept, UploadInv, Opening
<1> QED
  BY <1>1, <1>3, <1>4, <1>5, <1>6 DEF UploadInv

\* A block comes, and the one before it may be anywhere in its page.
LEMMA ReceiveKeeps == ASSUME UploadInv, Receive, astray' = astray PROVE UploadInv'
<1> USE FlashConstants
<1>1. /\ UNCHANGED <<flash, w, pmask, host, installed, mismatch, rstVect>> /\ pc = "getch"
      /\ pc' = "erase" /\ host.does = "write" /\ address' = host.next
  BY DEF Receive
<1>2. host.size \in Sizes /\ host.next < host.size /\ host.next \in Nat /\ w = 0
  BY <1>1 DEF UploadInv, Uploading, Session, FlashTypes
<1>3. FlashTypes'
  <2>1. host.next \in 0 .. PAGES * BLOCKS - 1
    BY <1>2, BlockFits
  <2> QED
    BY <1>1, <2>1 DEF UploadInv, FlashTypes, Working
<1>4. Session' /\ Erased'
  BY <1>1, <1>2 DEF UploadInv, Uploading, Session, Erased, Working
<1>5. Done' = Done /\ Sent' /\ Free'
  BY <1>1 DEF UploadInv, Uploading, Done, Sent, Free, Word
<1>6. GivenUp' /\ VectorInRam' /\ ToBeRead'
  BY <1>1 DEF UploadInv, Uploading, GivenUp, VectorInRam, ToBeRead
<1>7. Installed' /\ BootKept' /\ VectorKept'
  BY <1>1 DEF UploadInv, Installed, ImageKept, Holds, Word, BootKept, VectorKept, Opening
<1> QED
  BY <1>1, <1>3, <1>4, <1>5, <1>6, <1>7 DEF UploadInv, Uploading

\* The first block of a page erases it: what was sent lies before.
LEMMA EraseKeeps == ASSUME UploadInv, Erase, astray' = astray PROVE UploadInv'
<1> USE FlashConstants
<1> DEFINE page == address \div BLOCKS
<1>1. /\ UNCHANGED <<w, host, address, mismatch, rstVect>> /\ pc = "erase" /\ pc' = "space"
  BY DEF Erase
<1>2. /\ host.does = "write" /\ host.size \in Sizes /\ host.next < host.size /\ host.next \in Nat
      /\ w = 0 /\ address = host.next
  BY <1>1 DEF UploadInv, Uploading, Session, FlashTypes, Working
<1>3. /\ page \in Nat /\ BLOCKS * page \in Nat /\ BLOCKS * page <= address
      /\ address < BLOCKS * page + BLOCKS
  BY <1>2, DivMod
<1>0. page = address \div BLOCKS
  OBVIOUS
<1> HIDE DEF page
<1>4. page < BOOT
  <2>1. host.size <= BOOT * BLOCKS /\ host.size \in Nat
    BY <1>2
  <2>2. CASE BOOT = page
    BY <1>2, <1>3, <2>1, <2>2
  <2>3. CASE BOOT < page
    <3>1. BLOCKS * BOOT + BLOCKS <= BLOCKS * page /\ BLOCKS * BOOT = BOOT * BLOCKS
      BY <1>3, <2>3, Monotone
    <3> QED
      BY <1>2, <1>3, <2>1, <3>1
  <2> QED
    BY <1>3, <2>2, <2>3
<1>5. Done = address * WORDS /\ Done' = Done /\ Done \in Nat
  BY <1>1, <1>2 DEF Done
<1>6. \A p \in Nat : BLOCKS * p = address <=> p = page /\ BLOCKS * page = address
  <2> SUFFICES ASSUME NEW p \in Nat, BLOCKS * p = address PROVE p = page
    OBVIOUS
  <2>1. address \div BLOCKS = p
    BY <1>2, Quotient
  <2> QED
    BY <1>0, <2>1
<1>7. CASE page \notin pmask
  <2>1. /\ flash' = [k \in DOMAIN flash |-> IF k \div pageWords = page THEN Blank ELSE flash[k]]
        /\ pmask' = pmask \union {page} /\ installed' = NoImage
    BY <1>7, <1>0 DEF Erase, Erases
  <2>2. BLOCKS * page = address
    BY <1>2, <1>3, <1>7 DEF UploadInv, Uploading, Erased
  <2>3. Done = pageWords * page
    BY <1>2, <1>3, <1>5, <2>2
  <2>4. \A k \in 0 .. SIZE - 1 : flash'[k] = IF k \div pageWords = page THEN Blank ELSE flash[k]
    BY <2>1 DEF UploadInv, FlashTypes
  <2>5. DOMAIN flash = 0 .. SIZE - 1
    BY DEF UploadInv, FlashTypes
  <2>6. FlashTypes'
    <3>1. flash' = [k \in 0 .. SIZE - 1 |-> flash'[k]]
      BY <2>1, <2>5
    <3>2. page \in 0 .. PAGES - 1
      BY <1>3, <1>4
    <3>3. pmask' \subseteq 0 .. PAGES - 1
      BY <2>1, <3>2 DEF UploadInv, FlashTypes
    <3> QED
      BY <1>1, <3>1, <3>3 DEF UploadInv, FlashTypes, Working
  <2>7. Session' /\ ToBeRead' /\ VectorInRam' /\ GivenUp'
    BY <1>1, <1>2, <2>1 DEF UploadInv, Uploading, Session, ToBeRead, VectorInRam, GivenUp, Working
  <2>8. Erased'
    <3> SUFFICES ASSUME NEW p \in Nat
                 PROVE  p \in pmask' <=> BLOCKS * p < host.next \/ BLOCKS * p = host.next
      BY <1>1 DEF Erased
    <3>1. p \in pmask <=> BLOCKS * p < host.next
      BY <1>1, <1>2 DEF UploadInv, Uploading, Erased
    <3>2. BLOCKS * p = host.next <=> p = page
      BY <1>2, <1>6, <2>2
    <3> QED
      BY <2>1, <3>1, <3>2
  <2>9. Sent'
    <3> SUFFICES ASSUME NEW k \in 0 .. Done - 1 PROVE flash'[k] = Word(host.image, k)
      BY <1>1, <1>5 DEF Sent, Word
    <3>1. k \div pageWords # page
      <4>1. k \in Nat /\ k < pageWords * page
        BY <1>5, <2>3
      <4> QED
        BY <1>3, <4>1, Quotient
    <3>2. k \in 0 .. SIZE - 1
      BY <1>2, <1>5, DoneFits
    <3>3. flash[k] = Word(host.image, k)
      BY <1>2 DEF UploadInv, Uploading, Sent
    <3> QED
      BY <2>4, <3>1, <3>2, <3>3
  <2>10. Free'
    BY <1>1, <1>5, <2>1, <2>4 DEF UploadInv, Uploading, Free, Blank
  <2>11. Installed'
    BY <2>1 DEF Installed, ImageKept
  <2>12. BootKept'
    <3> SUFFICES ASSUME ~astray, NEW k \in BOOT * pageWords .. SIZE_ - 1 PROVE flash'[k] = Boot
      BY DEF BootKept, Boot
    <3>1. k \in 0 .. SIZE - 1 /\ flash[k] = Boot
      BY DEF UploadInv, BootKept
    <3>2. pageWords * page + pageWords <= pageWords * BOOT /\ pageWords * BOOT = BOOT * pageWords
      BY <1>3, <1>4, Monotone
    <3>3. k \div pageWords # page
      <4>1. pageWords * page \in Nat
        BY <1>3
      <4> QED
        BY <1>3, <3>1, <3>2, <4>1, Quotient
    <3> QED
      BY <2>4, <3>1, <3>3
  <2>13. VectorKept'
    <3>1. CASE page = 0
      BY <1>1, <1>2, <2>2, <3>1 DEF VectorKept, Opening
    <3>2. CASE page # 0
      <4>1. 0 \div pageWords = 0
        BY Quotient
      <4>2. flash'[0] = flash[0]
        BY <2>4, <3>2, <4>1
      <4> QED
        BY <1>1, <4>2 DEF UploadInv, VectorKept, Opening, Boot
    <3> QED
      BY <3>1, <3>2
  <2> QED
    BY <1>1, <2>6, <2>7, <2>8, <2>9, <2>10, <2>11, <2>12, <2>13 DEF UploadInv, Uploading
<1>8. CASE page \in pmask
  <2>1. UNCHANGED <<flash, pmask, installed>>
    BY <1>8, <1>0 DEF Erase, Erases
  <2>2. BLOCKS * page # address
    BY <1>1, <1>2, <1>3, <1>8 DEF UploadInv, Uploading, Erased
  <2>3. FlashTypes' /\ Session' /\ ToBeRead' /\ VectorInRam' /\ GivenUp'
    BY <1>1, <1>2, <2>1 DEF UploadInv, FlashTypes, Uploading, Session, ToBeRead, VectorInRam,
       GivenUp, Working
  <2>4. Erased'
    <3> SUFFICES ASSUME NEW p \in Nat
                 PROVE  p \in pmask <=> BLOCKS * p < host.next \/ BLOCKS * p = host.next
      BY <1>1, <2>1 DEF Erased
    <3> QED
      BY <1>1, <1>2, <1>6, <2>2 DEF UploadInv, Uploading, Erased
  <2>5. Sent' /\ Free'
    BY <1>1, <1>5, <2>1 DEF UploadInv, Uploading, Sent, Free, Word
  <2>6. Installed' /\ BootKept' /\ VectorKept'
    BY <1>1, <2>1 DEF UploadInv, Installed, ImageKept, Holds, Word, BootKept, VectorKept, Opening
  <2> QED
    BY <1>1, <2>1, <2>3, <2>4, <2>5, <2>6 DEF UploadInv, Uploading
<1> QED
  BY <1>7, <1>8

\* The command is complete: the vector of the application goes to RAM.
LEMMA VerifyKeeps == ASSUME UploadInv, VerifySpace, astray' = astray PROVE UploadInv'
<1> USE FlashConstants
<1>1. /\ UNCHANGED <<flash, pmask, host, address, installed, mismatch>> /\ pc = "space"
      /\ pc' = "write" /\ w' = 0 /\ rstVect' = IF address = 0 THEN host.image ELSE rstVect
  BY DEF VerifySpace
<1>2. host.does = "write" /\ address = host.next /\ host.next \in Nat /\ w = 0
  BY <1>1 DEF UploadInv, Uploading, Session, FlashTypes, Working
<1>3. FlashTypes' /\ Session'
  BY <1>1, <1>2 DEF UploadInv, FlashTypes, Uploading, Session, Working
<1>4. Erased' /\ GivenUp' /\ ToBeRead' /\ VectorInRam'
  BY <1>1, <1>2 DEF UploadInv, Uploading, Erased, GivenUp, ToBeRead, VectorInRam
<1>5. Done' = Done /\ Sent' /\ Free'
  BY <1>1, <1>2 DEF UploadInv, Uploading, Done, Sent, Free, Word
<1>6. Installed' /\ BootKept' /\ VectorKept'
  BY <1>1, <1>2 DEF UploadInv, Installed, ImageKept, Holds, Word, BootKept, VectorKept, Opening
<1> QED
  BY <1>1, <1>3, <1>4, <1>5, <1>6 DEF UploadInv, Uploading

\* A word is programmed: it was blank, and with the last one the image is complete.
LEMMA WriteKeeps == ASSUME UploadInv, WriteWord, astray' = astray PROVE UploadInv'
<1> USE FlashConstants
<1> DEFINE page == host.next \div BLOCKS
<1>1. /\ pc = "write" /\ UNCHANGED <<rstVect, address, pmask, mismatch>>
      /\ flash' = [flash EXCEPT ![address * WORDS + w] =
                      Program(flash[address * WORDS + w], Buffered(address * WORDS + w))]
  BY DEF WriteWord
<1>2. /\ host.does = "write" /\ host.size \in Sizes /\ host.next < host.size /\ host.next \in Nat
      /\ address = host.next /\ w \in 0 .. WORDS - 1
  BY <1>1 DEF UploadInv, Uploading, Session, FlashTypes, Working
<1>3. /\ Done = host.next * WORDS + w /\ host.next * WORDS \in Nat /\ Done \in Nat
      /\ host.next * WORDS + WORDS <= host.size * WORDS
      /\ host.next * WORDS + WORDS <= BOOT * pageWords
      /\ Done < BOOT * pageWords /\ Done \in 0 .. SIZE - 1
  BY <1>2, BlockFits DEF Done
<1>4. Done \div pageWords = page
  BY <1>2, PageOfBlock DEF Done
<1>5. page \in Nat /\ page \in pmask
  <2>1. page \in Nat /\ BLOCKS * page \in Nat /\ BLOCKS * page <= host.next
    BY <1>2, DivMod
  <2> QED
    BY <1>1, <1>2, <2>1 DEF UploadInv, Uploading, Erased
<1> HIDE DEF page
<1>6. flash[Done] = Blank /\ installed = NoImage /\ rstVect = host.image
  BY <1>1, <1>2, <1>3, <1>4, <1>5 DEF UploadInv, Uploading, Free, GivenUp, VectorInRam
<1>7. /\ flash'[Done] = Word(host.image, Done)
      /\ \A k \in 0 .. SIZE - 1 : k # Done => flash'[k] = flash[k]
      /\ FlashTypes => flash' = [k \in 0 .. SIZE - 1 |-> flash'[k]]
  <2>1. Program(flash[Done], Buffered(Done)) = Word(host.image, Done)
    BY <1>6 DEF Program, Buffered
  <2>2. flash' = [flash EXCEPT ![Done] = Word(host.image, Done)]
    BY <1>1, <1>2, <1>3, <2>1
  <2>3. flash = [k \in 0 .. SIZE - 1 |-> flash[k]]
    BY DEF UploadInv, FlashTypes
  <2>4. DOMAIN flash = 0 .. SIZE - 1
    BY <2>3
  <2> QED
    BY <1>3, <2>2, <2>3, <2>4
<1>8. \A k \in 0 .. Done : flash'[k] = Word(host.image, k)
  <2> SUFFICES ASSUME NEW k \in 0 .. Done PROVE flash'[k] = Word(host.image, k)
    OBVIOUS
  <2>1. CASE k = Done
    BY <1>7, <2>1
  <2>2. CASE k # Done
    <3>1. k \in 0 .. SIZE - 1 /\ k \in 0 .. Done - 1
      BY <1>3, <2>2
    <3>2. flash[k] = Word(host.image, k)
      BY <1>2, <3>1 DEF UploadInv, Uploading, Sent
    <3> QED
      BY <1>7, <2>2, <3>1, <3>2
  <2> QED
    BY <2>1, <2>2
<1>9. \A k \in 0 .. SIZE - 1 : k >= Done + 1 /\ k \div pageWords \in pmask => flash'[k] = Blank
  <2> SUFFICES ASSUME NEW k \in 0 .. SIZE - 1, k >= Done + 1, k \div pageWords \in pmask
               PROVE  flash'[k] = Blank
    OBVIOUS
  <2>1. k >= Done /\ k # Done
    BY <1>3
  <2>2. flash[k] = Blank
    BY <1>2, <2>1 DEF UploadInv, Uploading, Free
  <2> QED
    BY <1>7, <2>1, <2>2
<1>10. BootKept'
  <2> SUFFICES ASSUME ~astray, NEW k \in BOOT * pageWords .. SIZE_ - 1 PROVE flash'[k] = Boot
    BY DEF BootKept, Boot
  <2>1. k \in 0 .. SIZE - 1 /\ k # Done
    BY <1>3
  <2> QED
    BY <1>7, <2>1 DEF UploadInv, BootKept
<1>11. VectorKept'
  <2>1. CASE Done = 0
    BY <1>7, <2>1 DEF VectorKept, Word, Boot
  <2>2. CASE Done # 0
    <3>1. ~Opening
      BY <1>2, <2>2, <1>3 DEF Opening
    <3>2. 0 \in 0 .. SIZE - 1
      BY <1>3
    <3>3. flash'[0] = flash[0]
      BY <1>7, <2>2, <3>2
    <3> QED
      BY <1>1, <3>1, <3>3 DEF UploadInv, VectorKept, Boot
  <2> QED
    BY <2>1, <2>2
<1>12. host \in [does : {"nothing", "write", "read", "leave"}, image : Images \union {"none"},
                 size : Nat, next : Nat]
  BY DEF UploadInv, FlashTypes
<1>13. CASE ~LastWord
  <2>1. w' = w + 1 /\ UNCHANGED <<pc, host, installed>> /\ w' \in 0 .. WORDS - 1
    BY <1>2, <1>13 DEF WriteWord, LastWord
  <2>2. Done' = Done + 1
    BY <1>2, <1>3, <2>1 DEF Done
  <2>3. FlashTypes' /\ Session'
    BY <1>1, <1>2, <1>7, <2>1 DEF UploadInv, FlashTypes, Uploading, Session, Working
  <2>4. Erased' /\ GivenUp' /\ ToBeRead' /\ VectorInRam'
    BY <1>1, <1>2, <2>1 DEF UploadInv, Uploading, Erased, GivenUp, ToBeRead, VectorInRam
  <2>5. Sent' /\ Free'
    BY <1>1, <1>3, <1>8, <1>9, <2>1, <2>2 DEF Sent, Free, Word, Blank
  <2>6. Installed'
    BY <1>6, <2>1 DEF Installed, ImageKept, NoImage
  <2> QED
    BY <1>1, <1>10, <1>11, <2>3, <2>4, <2>5, <2>6 DEF UploadInv, Uploading
<1>14. CASE LastWord
  <2>1. /\ w + 1 = WORDS /\ w' = 0 /\ pc' = "getch" /\ host' = Written(host)
        /\ installed' = IF host'.does = "read" THEN [image |-> host.image, size |-> host.size]
                        ELSE installed
    BY <1>14 DEF WriteWord, LastWord
  <2>2. Done + 1 = (host.next + 1) * WORDS
    BY <1>2, <1>3, <2>1, WordsBefore
  <2>3. CASE host.next + 1 < host.size
    <3>1. /\ host' = [host EXCEPT !.next = host.next + 1] /\ host'.does = "write"
          /\ host'.next = host.next + 1 /\ host'.size = host.size /\ host'.image = host.image
          /\ installed' = NoImage
      BY <1>2, <1>6, <1>12, <2>1, <2>3 DEF Written
    <3>2. Done' = Done + 1
      BY <1>2, <2>1, <2>2, <3>1 DEF Done
    <3>3. FlashTypes'
      <4>1. host' \in [does : {"nothing", "write", "read", "leave"}, image : Images \union {"none"},
                       size : Nat, next : Nat]
        BY <1>2, <1>12, <3>1
      <4>2. 0 \in 0 .. WORDS - 1
        OBVIOUS
      <4> QED
        BY <1>1, <1>7, <2>1, <4>1, <4>2 DEF UploadInv, FlashTypes
    <3>4. Session' /\ GivenUp' /\ ToBeRead' /\ VectorInRam'
      BY <1>1, <1>2, <1>6, <2>1, <2>3, <3>1 DEF Session, GivenUp, ToBeRead, VectorInRam,
         Working
    <3>5. Erased'
      <4> SUFFICES ASSUME NEW p \in Nat PROVE p \in pmask <=> BLOCKS * p < host.next + 1
        BY <1>1, <2>1, <3>1 DEF Erased
      <4>1. BLOCKS * p \in Nat
        OBVIOUS
      <4> QED
        BY <1>1, <1>2, <4>1 DEF UploadInv, Uploading, Erased
    <3>6. Sent' /\ Free'
      BY <1>1, <1>3, <1>8, <1>9, <3>1, <3>2 DEF Sent, Free, Word, Blank
    <3>7. Installed'
      BY <3>1 DEF Installed, ImageKept, NoImage
    <3> QED
      BY <1>1, <1>10, <1>11, <3>3, <3>4, <3>5, <3>6, <3>7 DEF UploadInv, Uploading
  <2>4. CASE ~(host.next + 1 < host.size)
    <3>1. host.next + 1 = host.size /\ host.size \in Nat
      BY <1>2, <2>4
    <3>2. /\ host' = [host EXCEPT !.does = "read", !.next = 0] /\ host'.does = "read"
          /\ host'.next = 0 /\ host'.size = host.size /\ host'.image = host.image
          /\ installed' = [image |-> host.image, size |-> host.size]
      BY <1>2, <1>12, <2>1, <2>4 DEF Written
    <3>3. Holds(flash', host.image, host.size)
      <4> SUFFICES ASSUME NEW k \in 0 .. host.size * WORDS - 1 PROVE flash'[k] = Word(host.image, k)
        BY DEF Holds
      <4>1. k \in 0 .. Done
        BY <1>3, <2>2, <3>1
      <4> QED
        BY <1>8, <4>1
    <3>4. FlashTypes'
      <4>1. host' \in [does : {"nothing", "write", "read", "leave"}, image : Images \union {"none"},
                       size : Nat, next : Nat]
        BY <1>2, <1>12, <3>2
      <4>2. 0 \in 0 .. WORDS - 1
        OBVIOUS
      <4> QED
        BY <1>1, <1>7, <2>1, <4>1, <4>2 DEF UploadInv, FlashTypes
    <3>5. Session'
      BY <1>2, <2>1, <3>2 DEF Session, Working
    <3>6. Erased' /\ Sent' /\ Free' /\ GivenUp' /\ VectorInRam'
      BY <3>2 DEF Erased, Sent, Free, GivenUp, VectorInRam
    <3>7. ToBeRead' /\ Installed'
      BY <1>1, <1>2, <1>6, <3>2, <3>3 DEF ToBeRead, Installed, ImageKept, Holds, Word
    <3> QED
      BY <1>1, <1>10, <1>11, <3>4, <3>5, <3>6, <3>7 DEF UploadInv, Uploading
  <2> QED
    BY <2>3, <2>4
<1> QED
  BY <1>13, <1>14

\* What is read back is what was sent, the vectors included.
LEMMA ReadKeeps == ASSUME UploadInv, ReadBlock, astray' = astray PROVE UploadInv'
<1> USE FlashConstants
<1>1. /\ UNCHANGED <<flash, rstVect, pc, w, pmask, installed>> /\ pc = "getch"
      /\ host.does = "read" /\ address' = host.next
      /\ mismatch' = (mismatch \/ \E k \in host.next * WORDS..(host.next + 1) * WORDS - 1 :
                                     ReadBack(k) # <<host.image, k>>)
      /\ host' = IF host.next + 1 < host.size THEN [host EXCEPT !.next = @ + 1]
                 ELSE [host EXCEPT !.does = "leave"]
  BY DEF ReadBlock
<1>2. /\ host.size \in Sizes /\ host.next < host.size /\ host.next \in Nat /\ w = 0
      /\ rstVect = host.image /\ Holds(flash, host.image, host.size)
  BY <1>1 DEF UploadInv, Uploading, Session, FlashTypes, ToBeRead
<1>3. host \in [does : {"nothing", "write", "read", "leave"}, image : Images \union {"none"},
                size : Nat, next : Nat]
  BY DEF UploadInv, FlashTypes
<1>4. ~mismatch'
  <2> SUFFICES ASSUME NEW k \in host.next * WORDS..(host.next + 1) * WORDS - 1
               PROVE  ReadBack(k) = <<host.image, k>>
    BY <1>1 DEF UploadInv
  <2>1. k \in 0 .. host.size * WORDS - 1
    BY <1>2, WordsBefore
  <2>2. flash[k] = Word(host.image, k)
    BY <1>2, <2>1 DEF Holds
  <2> QED
    BY <1>2, <2>2 DEF ReadBack, Word
<1>5. /\ host'.does \in {"read", "leave"} /\ host'.image = host.image /\ host'.size = host.size
      /\ host'.next \in Nat /\ host'.next < host'.size
      /\ host' \in [does : {"nothing", "write", "read", "leave"}, image : Images \union {"none"},
                    size : Nat, next : Nat]
  <2>1. CASE host.next + 1 < host.size
    BY <1>1, <1>2, <1>3, <2>1
  <2>2. CASE ~(host.next + 1 < host.size)
    BY <1>1, <1>2, <1>3, <2>2
  <2> QED
    BY <2>1, <2>2
<1>6. FlashTypes'
  <2>1. host.next \in 0 .. PAGES * BLOCKS - 1
    BY <1>2, BlockFits
  <2> QED
    BY <1>1, <1>5, <2>1 DEF UploadInv, FlashTypes
<1>7. Session'
  BY <1>1, <1>2, <1>5 DEF Session, Working
<1>8. Erased' /\ Sent' /\ Free' /\ GivenUp' /\ VectorInRam'
  BY <1>5 DEF Erased, Sent, Free, GivenUp, VectorInRam
<1>9. ToBeRead' /\ Installed' /\ BootKept' /\ VectorKept'
  BY <1>1, <1>2, <1>5 DEF UploadInv, ToBeRead, Installed, ImageKept, Holds, Word, BootKept,
     VectorKept, Opening
<1> QED
  BY <1>4, <1>6, <1>7, <1>8, <1>9 DEF UploadInv, Uploading

\* The programmer has read everything and is silent.
LEMMA LeaveKeeps == ASSUME UploadInv, Leave, astray' = astray PROVE UploadInv'
<1>1. UNCHANGED <<flash, rstVect, pc, address, w, pmask, installed, mismatch>> /\ host' = Silent
      /\ pc = "getch"
  BY DEF Leave
<1>2. FlashTypes'
  <2>1. host' \in [does : {"nothing", "write", "read", "leave"}, image : Images \union {"none"},
                   size : Nat, next : Nat]
    BY <1>1 DEF Silent
  <2> QED
    BY <1>1, <2>1 DEF FlashTypes, UploadInv
<1>3. Uploading'
  BY <1>1 DEF Uploading, Session, Erased, Sent, Free, GivenUp, VectorInRam, ToBeRead, Silent,
     Working, UploadInv
<1>4. Installed' /\ BootKept' /\ VectorKept'
  BY <1>1 DEF UploadInv, Installed, ImageKept, Holds, Word, BootKept, VectorKept, Opening
<1> QED
  BY <1>1, <1>2, <1>3, <1>4 DEF UploadInv

-----------------------------------------------------------------------------
(* The region that an application writes *)

RegionTypes ==
    /\ start_ \in 0 .. SIZE /\ end_ \in 0 .. SIZE /\ armed_ \in BOOLEAN
    /\ programLimit \in 0 .. SIZE /\ EEAR \in 0 .. SIZE - 1 /\ diverted \in BOOLEAN
    /\ iap \in {"idle", "allowed", "set"}

\* What is armed is above every image and below the bootloader.
Armed == armed_ => start_ >= Largest * WORDS /\ end_ <= BOOT * pageWords

\* An operation that was allowed is within the region and the limit: both stay as they are
\* until it is carried out.
Allowed ==
    iap # "idle" =>
        /\ armed_ /\ target.op \in {"erase", "write"} /\ target.at \in Nat
        /\ target.op = "erase" => target.at % PAGE = 0
        /\ start_ <= target.at /\ target.at + Size(target.op) <= end_
        /\ programLimit < target.at \/ target.at + Size(target.op) <= programLimit
AtTarget == iap = "set" /\ ~diverted => EEAR = target.at

RegionInv == RegionTypes /\ Armed /\ Allowed /\ AtTarget

\* At first, and after a reset, nothing is armed.
LEMMA RegionStarts ==
    ASSUME start_ = 0, end_ = 0, armed_ = FALSE, programLimit \in Limits, EEAR = 0, iap = "idle",
           diverted = FALSE
    PROVE  RegionInv
<1>1. 0 \in 0 .. SIZE - 1 /\ 0 \in 0 .. SIZE /\ programLimit \in 0 .. SIZE
  BY FlashConstants
<1>2. RegionTypes
  BY <1>1 DEF RegionTypes
<1> QED
  BY <1>2 DEF RegionInv, Armed, Allowed, AtTarget
\* The same of the next state.
LEMMA RegionRestarts ==
    ASSUME start_' = 0, end_' = 0, armed_' = FALSE, programLimit' \in Limits, EEAR' = 0,
           iap' = "idle", diverted' = FALSE
    PROVE  RegionInv'
<1>1. 0 \in 0 .. SIZE - 1 /\ 0 \in 0 .. SIZE /\ programLimit' \in 0 .. SIZE
  BY FlashConstants
<1>2. RegionTypes'
  BY <1>1 DEF RegionTypes
<1> QED
  BY <1>2 DEF RegionInv, Armed, Allowed, AtTarget

\* A difference of 16 bits is not larger than the difference.
LEMMA NotLarger == ASSUME NEW n \in Nat PROVE n % WRAP \in Nat /\ n % WRAP <= n
<1>1. WRAP \in Nat /\ WRAP > 0
  BY FlashConstants
<1> DEFINE q == n \div WRAP  r == n % WRAP
<1>2. q \in Nat /\ r \in Nat /\ n = WRAP * q + r
  BY <1>1, DivMod
<1> HIDE DEF q, r
<1>3. WRAP * q \in Nat
  BY <1>1, <1>2
<1>4. r \in Nat /\ r <= n
  BY <1>2, <1>3
<1> QED
  BY <1>4 DEF r

\* What allowed() lets through
LEMMA AllowedFits ==
    ASSUME RegionTypes, NEW at \in 0 .. SIZE, NEW words \in Nat, words > 0, allowed(at, words)
    PROVE  /\ armed_ /\ start_ <= at /\ at + words <= end_
           /\ programLimit < at \/ at + words <= programLimit
<1>1. /\ at \in Nat /\ start_ \in Nat /\ end_ \in Nat /\ programLimit \in Nat
      /\ armed_ /\ at >= start_ /\ at < end_
      /\ words <= (end_ - at) % WRAP /\ words <= (programLimit - at) % WRAP
  BY FlashConstants DEF RegionTypes, allowed
<1>2. words <= end_ - at
  <2>1. end_ - at \in Nat
    BY <1>1
  <2>2. (end_ - at) % WRAP <= end_ - at /\ (end_ - at) % WRAP \in Nat
    BY <2>1, NotLarger
  <2> DEFINE r == (end_ - at) % WRAP
  <2> HIDE DEF r
  <2>3. words <= r /\ r <= end_ - at /\ r \in Nat
    BY <1>1, <2>2 DEF r
  <2> QED
    BY <1>1, <2>1, <2>3
<1>3. CASE programLimit < at
  BY <1>1, <1>2, <1>3
<1>4. CASE at <= programLimit
  <2>1. programLimit - at \in Nat
    BY <1>1, <1>4
  <2>2. (programLimit - at) % WRAP <= programLimit - at /\ (programLimit - at) % WRAP \in Nat
    BY <2>1, NotLarger
  <2> DEFINE r == (programLimit - at) % WRAP
  <2> HIDE DEF r
  <2>3. words <= r /\ r <= programLimit - at /\ r \in Nat
    BY <1>1, <2>2 DEF r
  <2>4. at + words <= programLimit
    BY <1>1, <2>1, <2>3
  <2> QED
    BY <1>1, <1>2, <2>4
<1> QED
  BY <1>1, <1>3, <1>4

\* The calls of the application, and handlers that set EEAR
LEMMA CallsKeep == ASSUME RegionInv, Calls PROVE RegionInv'
<1> USE FlashConstants
<1>1. ASSUME NEW s \in Addresses, NEW e \in Addresses, Gate(s, e)
      PROVE  RegionInv'
  <2>1. s \in 0 .. SIZE /\ e \in 0 .. SIZE
    OBVIOUS
  <2>2. RegionTypes'
    BY <1>1, <2>1 DEF Gate, writableRegion, RegionInv, RegionTypes
  <2>3. Armed'
    BY <1>1 DEF Gate, writableRegion, RegionInv, Armed
  <2>4. Allowed' /\ AtTarget'
    BY <1>1 DEF Gate, writableRegion, Allowed, AtTarget
  <2> QED
    BY <2>2, <2>3, <2>4 DEF RegionInv
<1>2. CASE lock
  BY <1>2 DEF lock, RegionInv, RegionTypes, Armed, Allowed, AtTarget
<1>3. ASSUME NEW limit \in Limits, ResizeEEPROM(limit)
      PROVE  RegionInv'
  BY <1>3 DEF ResizeEEPROM, RegionInv, RegionTypes, Armed, Allowed, AtTarget
<1>4. ASSUME NEW at \in Addresses \ {SIZE}, NEW op \in {"erase", "write"}, Operate(op, at)
      PROVE  RegionInv'
  <2>1. UNCHANGED <<start_, end_, armed_, programLimit, EEAR>> /\ iap = "idle"
        /\ (op = "erase" => at % PAGE = 0)
    BY <1>4 DEF Operate, region
  <2>2. CASE ~allowed(at, Size(op))
    BY <1>4, <2>1, <2>2 DEF Operate, RegionInv, RegionTypes, Armed, Allowed, AtTarget
  <2>3. CASE allowed(at, Size(op))
    <3>1. iap' = "allowed" /\ target' = [op |-> op, at |-> at] /\ diverted' = FALSE
      BY <1>4, <2>3 DEF Operate
    <3>2. Size(op) \in Nat /\ Size(op) > 0 /\ at \in 0 .. SIZE
      BY DEF Size
    <3>3. /\ armed_ /\ start_ <= at /\ at + Size(op) <= end_
          /\ programLimit < at \/ at + Size(op) <= programLimit
      BY <2>3, <3>2, AllowedFits DEF RegionInv
    <3>4. RegionTypes' /\ Armed' /\ AtTarget'
      BY <2>1, <3>1 DEF RegionInv, RegionTypes, Armed, AtTarget
    <3>5. Allowed'
      BY <2>1, <3>1, <3>2, <3>3 DEF Allowed, Size
    <3> QED
      BY <3>4, <3>5 DEF RegionInv
  <2> QED
    BY <2>2, <2>3
<1>5. CASE SetAddress
  <2>1. target.at \in 0 .. SIZE - 1
    <3>1. Size(target.op) \in Nat /\ Size(target.op) > 0
      BY DEF Size
    <3> QED
      BY <1>5, <3>1 DEF SetAddress, RegionInv, RegionTypes, Allowed
  <2> QED
    BY <1>5, <2>1 DEF SetAddress, region, RegionInv, RegionTypes, Armed, Allowed, AtTarget, Size
<1>6. CASE HandlerSetsEEAR(0)
  <2>1. 0 \in 0 .. SIZE - 1
    OBVIOUS
  <2> QED
    BY <1>6, <2>1 DEF HandlerSetsEEAR, region, RegionInv, RegionTypes, Armed, Allowed, AtTarget, Size
<1> QED
  BY <1>1, <1>2, <1>3, <1>4, <1>5, <1>6 DEF Calls

\* An operation that was not diverted reaches words of the region, within the limit.
LEMMA ReachesInside ==
    ASSUME RegionInv, iap = "set", ~diverted
    PROVE  /\ Reached \subseteq start_ .. end_ - 1
           /\ Reached \subseteq Own \/ programLimit < target.at
<1> USE FlashConstants
<1>1. /\ target.op \in {"erase", "write"} /\ target.at \in Nat /\ EEAR = target.at
      /\ start_ <= target.at /\ target.at + Size(target.op) <= end_
      /\ programLimit < target.at \/ target.at + Size(target.op) <= programLimit
      /\ start_ \in Nat /\ end_ \in Nat /\ end_ <= SIZE /\ programLimit \in Nat
  BY DEF RegionInv, Allowed, AtTarget, RegionTypes
<1>2. \A a \in Reached : a \in Nat /\ target.at <= a /\ a < target.at + Size(target.op)
  <2>1. CASE target.op = "write"
    BY <1>1, <2>1 DEF Reached, Size
  <2>2. CASE target.op = "erase"
    <3> SUFFICES ASSUME NEW a \in 0 .. SIZE - 1, a \div PAGE = target.at \div PAGE
                 PROVE  target.at <= a /\ a < target.at + PAGE
      BY <1>1, <2>2 DEF Reached, Size
    <3> DEFINE q == target.at \div PAGE
    <3>1. q \in Nat /\ target.at = PAGE * q
      <4>1. target.at % PAGE = 0
        BY <2>2 DEF RegionInv, Allowed
      <4>2. q \in Nat /\ target.at = PAGE * q + (target.at % PAGE)
        BY <1>1, DivMod
      <4> QED
        BY <4>1, <4>2, <1>1
    <3>2. a \div PAGE = q
      OBVIOUS
    <3> HIDE DEF q
    <3>3. PAGE * q <= a /\ a < PAGE * q + PAGE
      BY <3>1, <3>2, Quotient
    <3> QED
      BY <3>1, <3>3
  <2> QED
    BY <1>1, <2>1, <2>2
<1>3. Size(target.op) \in Nat
  BY DEF Size
<1>4. Reached \subseteq start_ .. end_ - 1
  BY <1>1, <1>2, <1>3
<1>5. ASSUME target.at + Size(target.op) <= programLimit
      PROVE  Reached \subseteq Own
  BY <1>1, <1>2, <1>3, <1>4, <1>5 DEF Own
<1> QED
  BY <1>1, <1>4, <1>5

\* What the application writes is no image, no vector and not the bootloader.
LEMMA IssueKeeps == ASSUME UploadInv, RegionInv, pc = "app", IssueOnFlash PROVE UploadInv' /\ RegionInv'
<1> USE FlashConstants
<1>1. /\ UNCHANGED <<rstVect, MCUSR, pc, address, w, pmask, host, resets, installed, mismatch>>
      /\ UNCHANGED <<start_, end_, armed_, programLimit, EEAR, diverted>>
      /\ iap = "set" /\ iap' = "idle"
      /\ \/ flash' = [k \in DOMAIN flash |-> Changed(k)] /\ astray' = (astray \/ diverted)
         \/ UNCHANGED <<flash, astray>>
  BY DEF IssueOnFlash, Issue, region
<1>2. RegionInv'
  BY <1>1 DEF RegionInv, RegionTypes, Armed, Allowed, AtTarget
<1>3. host = Silent
  BY DEF UploadInv, Uploading, Session
<1>4. CASE UNCHANGED <<flash, astray>>
  <2>1. FlashTypes'
    BY <1>1, <1>4 DEF UploadInv, FlashTypes
  <2>2. Uploading'
    BY <1>1, <1>3, <1>4 DEF UploadInv, Uploading, Session, Erased, Sent, Free, GivenUp,
       VectorInRam, ToBeRead, Silent
  <2>3. Installed' /\ BootKept' /\ VectorKept'
    BY <1>1, <1>4 DEF UploadInv, Installed, ImageKept, Holds, Word, BootKept, VectorKept, Opening
  <2> QED
    BY <1>1, <1>2, <2>1, <2>2, <2>3 DEF UploadInv
<1>5. CASE flash' = [k \in DOMAIN flash |-> Changed(k)] /\ astray' = (astray \/ diverted)
  <2>1. DOMAIN flash = 0 .. SIZE - 1
    BY DEF UploadInv, FlashTypes
  <2>2. FlashTypes'
    <3>1. flash' = [k \in 0 .. SIZE - 1 |-> flash'[k]]
      BY <1>5, <2>1
    <3>2. astray' \in BOOLEAN
      BY <1>5 DEF UploadInv, FlashTypes, RegionInv, RegionTypes
    <3> QED
      BY <1>1, <3>1, <3>2 DEF UploadInv, FlashTypes
  <2>3. Uploading'
    BY <1>1, <1>3 DEF UploadInv, Uploading, Session, Erased, Sent, Free, GivenUp,
       VectorInRam, ToBeRead, Silent, Working
  <2>4. ASSUME ~astray'
        PROVE  /\ ~astray
               /\ \A k \in 0 .. SIZE - 1 :
                      k < Largest * WORDS \/ k >= BOOT * pageWords => flash'[k] = flash[k]
    <3>1. ~astray /\ ~diverted
      BY <1>5, <2>4
    <3>2. Reached \subseteq start_ .. end_ - 1
      BY <1>1, <3>1, ReachesInside
    <3>3. /\ start_ >= Largest * WORDS /\ end_ <= BOOT * pageWords
          /\ start_ \in Nat /\ end_ \in Nat /\ Largest * WORDS \in Nat
      BY <1>1, ImageEnds DEF RegionInv, Armed, Allowed, RegionTypes
    <3> SUFFICES ASSUME NEW k \in 0 .. SIZE - 1, k < Largest * WORDS \/ k >= BOOT * pageWords
                 PROVE  flash'[k] = flash[k]
      BY <3>1
    <3>4. k \notin Reached
      BY <3>2, <3>3
    <3> QED
      BY <1>5, <2>1, <3>4 DEF Changed
  <2>5. Installed'
    <3>1. ASSUME ~astray', installed # NoImage
          PROVE  Holds(flash', installed.image, installed.size)
      <4>1. Holds(flash, installed.image, installed.size) /\ installed.size \in Sizes
        BY <2>4, <3>1 DEF UploadInv, Installed, ImageKept
      <4>2. /\ installed.size * WORDS \in Nat /\ installed.size * WORDS <= BOOT * pageWords
            /\ installed.size * WORDS <= Largest * WORDS /\ Largest * WORDS \in Nat
        BY <4>1, ImageEnds
      <4> SUFFICES ASSUME NEW k \in 0 .. installed.size * WORDS - 1
                   PROVE  flash'[k] = Word(installed.image, k)
        BY DEF Holds
      <4>3. k \in 0 .. SIZE - 1 /\ k < Largest * WORDS
        BY <4>2
      <4>4. flash'[k] = flash[k]
        BY <2>4, <3>1, <4>3
      <4> QED
        BY <4>1, <4>4 DEF Holds
    <3>2. installed # NoImage => installed.size \in Sizes
      BY DEF UploadInv, Installed
    <3> QED
      BY <1>1, <3>1, <3>2 DEF Installed, ImageKept, Holds, Word, NoImage
  <2>6. BootKept'
    <3> SUFFICES ASSUME ~astray', NEW k \in BOOT * pageWords .. SIZE_ - 1 PROVE flash'[k] = Boot
      BY DEF BootKept, Boot
    <3>1. k \in 0 .. SIZE - 1 /\ k >= BOOT * pageWords
      OBVIOUS
    <3>2. flash'[k] = flash[k] /\ ~astray
      BY <2>4, <3>1
    <3> QED
      BY <3>1, <3>2 DEF UploadInv, BootKept
  <2>7. VectorKept'
    <3> SUFFICES ASSUME ~astray' PROVE flash'[0] = Boot
      BY DEF VectorKept, Boot
    <3>1. 0 < Largest * WORDS /\ 0 \in 0 .. SIZE - 1
      BY ImageEnds
    <3>2. flash'[0] = flash[0] /\ ~astray
      BY <2>4, <3>1
    <3> QED
      BY <3>2 DEF UploadInv, VectorKept, Opening
  <2> QED
    BY <1>1, <1>2, <2>2, <2>3, <2>5, <2>6, <2>7 DEF UploadInv
<1> QED
  BY <1>1, <1>4, <1>5

-----------------------------------------------------------------------------
(* The flash and its users *)

FlashInv == UploadInv /\ RegionInv

\* Steps that leave the flash and the bootloader alone
LEMMA BootUntouched == ASSUME UploadInv, UNCHANGED <<bootVars, astray>> PROVE UploadInv'
<1>1. FlashTypes'
  BY DEF UploadInv, FlashTypes, bootVars
<1>2. Uploading'
  BY DEF UploadInv, Uploading, Session, Done, Erased, Sent, Free, GivenUp, VectorInRam, ToBeRead,
     Holds, Word, bootVars
<1>3. Installed' /\ BootKept' /\ VectorKept'
  BY DEF UploadInv, Installed, ImageKept, Holds, Word, BootKept, VectorKept, Opening, bootVars
<1> QED
  BY <1>1, <1>2, <1>3 DEF UploadInv, bootVars

\* Steps that leave FlashIAP alone
LEMMA IapUntouched == ASSUME RegionInv, UNCHANGED iapVars PROVE RegionInv'
BY DEF RegionInv, RegionTypes, Armed, Allowed, AtTarget, iapVars, region, Size

\* Every step of the bootloader, of an application and of who resets the chip keeps both.
LEMMA FlashKeeps == ASSUME FlashInv, FlashNext \/ UNCHANGED flashVars PROVE FlashInv'
<1>1. CASE Restart
  <2>1. UploadInv'
    BY <1>1, ResetKeeps DEF FlashInv, Restart, Reset
  <2>2. RegionInv'
    BY <1>1, RegionRestarts DEF Restart
  <2> QED
    BY <2>1, <2>2 DEF FlashInv
<1>2. CASE Booting
  <2>1. RegionInv'
    BY <1>2, IapUntouched DEF FlashInv, Booting
  <2>2. UploadInv'
    BY <1>2, ResetKeeps, StartKeeps, ReceiveKeeps, EraseKeeps, VerifyKeeps, WriteKeeps, ReadKeeps,
       LeaveKeeps
       DEF FlashInv, Booting, Watchdog, InBootloader
  <2> QED
    BY <2>1, <2>2 DEF FlashInv
<1>3. CASE Application
  <2>1. CASE IssueOnFlash
    BY <1>3, <2>1, IssueKeeps DEF FlashInv, Application
  <2>2. CASE Calls /\ UNCHANGED <<bootVars, astray>>
    BY <2>2, CallsKeep, BootUntouched DEF FlashInv
  <2> QED
    BY <1>3, <2>1, <2>2 DEF Application
<1>4. CASE UNCHANGED flashVars
  BY <1>4, BootUntouched, IapUntouched DEF FlashInv, flashVars
<1> QED
  BY <1>1, <1>2, <1>3, <1>4 DEF FlashNext

\* A new chip
LEMMA FlashStarts == FlashInit => FlashInv
BY UploadStarts, RegionStarts DEF FlashInit, IapInit, FlashInv

\* A step of a sleep leaves the flash alone.
LEMMA FlashInvKept == FlashInv /\ [ChipNext]_chipVars => FlashInv'
<1> SUFFICES ASSUME FlashInv, [ChipNext]_chipVars PROVE FlashInv'
  OBVIOUS
<1>1. FlashNext \/ UNCHANGED flashVars
  BY DEF ChipNext, chipVars
<1> QED
  BY <1>1, FlashKeeps

\* An upload that was completed holds, is read back as it was sent, and the reset vector
\* leads to the bootloader but for the moments after page 0 is erased: for every number of
\* pages, blocks and words, every image, and a reset, a silent programmer or an application
\* that writes its pages at any step (optiboot.c:548, :669, flash_iap.h:37).
THEOREM UploadsAreKept == ChipSpec => []UploadKept
<1>1. ChipInit => FlashInv
  BY FlashStarts DEF ChipInit
<1>2. FlashInv => UploadKept
  BY DEF FlashInv, UploadInv, Installed, UploadKept, ReadsAsSent
<1> QED
  BY <1>1, <1>2, FlashInvKept, PTL DEF ChipSpec

\* Operations of FlashIAP reach words of the armed region below the limit and no others,
\* and nothing changes the bootloader, with the exceptions that InsideRegion names: for
\* every page size, region, limit and width of the differences (flash_iap.h:37).
THEOREM RegionsAreKept == ChipSpec => []RegionKept
<1>1. ChipInit => FlashInv
  BY FlashStarts DEF ChipInit
<1>2. FlashInv => RegionKept
  <2> SUFFICES ASSUME FlashInv PROVE InsideRegion /\ BootKept
    BY DEF RegionKept
  <2>1. InsideRegion
    BY ReachesInside DEF InsideRegion, FlashInv
  <2> QED
    BY <2>1 DEF FlashInv, UploadInv
<1> QED
  BY <1>1, <1>2, FlashInvKept, PTL DEF ChipSpec

\* Every variable keeps its type.
THEOREM TypesAlwaysOK == ChipSpec => []TypeOK
<1>1. ChipInit => FlashInv /\ SleepInv
  BY FlashStarts, SleepStarts DEF ChipInit
<1>2. FlashInv /\ SleepInv /\ [ChipNext]_chipVars => FlashInv' /\ SleepInv'
  <2> SUFFICES ASSUME FlashInv, SleepInv, [ChipNext]_chipVars PROVE FlashInv' /\ SleepInv'
    OBVIOUS
  <2>1. SleepNext \/ UNCHANGED sleepVars
    BY DEF ChipNext, chipVars
  <2> QED
    BY <2>1, SleepKeeps, FlashInvKept
<1>3. FlashInv /\ SleepInv => TypeOK
  BY DEF FlashInv, UploadInv, FlashTypes, RegionInv, RegionTypes, SleepInv, SleepTypes, TypeOK
<1> QED
  BY <1>1, <1>2, <1>3, PTL DEF ChipSpec
=============================================================================
