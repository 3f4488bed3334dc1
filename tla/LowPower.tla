------------------------------ MODULE LowPower -------------------------------
(***************************************************************************)
(* The sleep modes of libraries/lgt_LowPower.  Each call saves what it     *)
(* switches off, arms the watchdog to wake the chip, masks the interrupts, *)
(* sleeps, stops the watchdog and, with interrupts on again, restores.     *)
(* The library has no watchdog vector: an interrupt of the watchdog would  *)
(* jump to the start of the program.                                       *)
(***************************************************************************)
EXTENDS Integers

CONSTANT MODULES   \* modules with a bit of PRR

ASSUME LowPowerAssumption == MODULES \intersect {"TCCR2B", "ADCSRA", "VDTCR"} = {}

Registers == MODULES \union {"TCCR2B", "ADCSRA", "VDTCR"}

VARIABLES
    running,        \* what is switched on, by register
    o_reg,          \* what running was when it was saved
    ldo,            \* the regulator supplies the core
    wdt, elapsed, wdtClock,  \* the watchdog: armed, has elapsed, has a clock
    enabled,        \* the I bit of SREG
    event,          \* a wake-up interrupt is pending
    nap, step,      \* the call and where it is
    wanted, overridden   \* history: what the program set, and what the call may undo

power == <<running, ldo>>
watchdog == <<wdt, elapsed, wdtClock>>
sleepVars == <<power, o_reg, watchdog, enabled, event, nap, step, wanted, overridden>>

Awake == [form |-> "none", timed |-> FALSE, offs |-> {}]
AllOn == [r \in Registers |-> TRUE]

SleepInit ==
    /\ running = AllOn /\ o_reg = AllOn /\ ldo = TRUE
    /\ wdt = FALSE /\ elapsed = FALSE /\ wdtClock = TRUE
    /\ enabled = TRUE /\ event = FALSE
    /\ nap = Awake /\ step = "awake" /\ wanted = AllOn /\ overridden = {}

-----------------------------------------------------------------------------
(* The calls.  A period other than SLEEP_FOREVER is timed. *)

Save(kind, timed, offs) ==
    /\ step = "awake"
    /\ nap' = [form |-> kind, timed |-> timed, offs |-> offs]
    /\ o_reg' = running /\ step' = "off"
    \* power2_adc_enable() in the end, whatever ADEN was
    /\ wanted' = [running EXCEPT !["ADCSRA"] = @ \/ (kind = "adcNoiseReduction" /\ "ADCSRA" \in offs)]
    /\ overridden' = {}
    /\ UNCHANGED <<power, watchdog, enabled, event>>

idle(timed, offs) == offs \subseteq Registers \ {"VDTCR"} /\ Save("idle", timed, offs)
adcNoiseReduction(timed, offs) == offs \subseteq {"TCCR2B", "ADCSRA"} /\ Save("adcNoiseReduction", timed, offs)
powerDown(timed, offs) == offs \subseteq {"ADCSRA", "VDTCR"} /\ Save("powerDown", timed, offs)
powerStandby(timed, offs) == offs \subseteq Registers \ MODULES /\ Save("powerStandby", timed, offs)
powerExtStandby(timed, offs) == offs \subseteq Registers \ MODULES /\ Save("powerExtStandby", timed, offs)

\* PRR is stored whole by idle(); VDTCR has its turn when interrupts are off.
Stored == (nap.offs \ {"VDTCR"}) \union (IF nap.form = "idle" THEN MODULES ELSE {})

SwitchOff ==
    /\ step = "off"
    /\ running' = [r \in Registers |-> IF r \in nap.offs \ {"VDTCR"} THEN FALSE
                                       ELSE IF r \in Stored THEN o_reg[r] ELSE running[r]]
    /\ step' = "arm"
    /\ UNCHANGED <<ldo, o_reg, watchdog, enabled, event, nap, wanted, overridden>>

\* wdt_ienable(), or wdt_disable() and, but for powerDown(), power_wdtcc_disable()
Arm ==
    /\ step = "arm"
    /\ wdt' = nap.timed /\ elapsed' = FALSE
    /\ wdtClock' = (wdtClock /\ (nap.timed \/ nap.form = "powerDown"))
    /\ step' = "sleep"
    /\ UNCHANGED <<power, o_reg, enabled, event, nap, wanted, overridden>>

LdoOff == nap.form \notin {"idle", "adcNoiseReduction"}

\* cli(), the low-voltage detector and the regulator off, sleep_cpu()
Sleep ==
    /\ step = "sleep"
    /\ enabled' = FALSE
    /\ running' = [running EXCEPT !["VDTCR"] = @ /\ "VDTCR" \notin nap.offs]
    /\ ldo' = ~LdoOff
    /\ step' = "asleep"
    /\ UNCHANGED <<o_reg, watchdog, event, nap, wanted, overridden>>

Detected == IF "VDTCR" \in nap.offs THEN o_reg["VDTCR"] ELSE running["VDTCR"]

EnabledAgain == TRUE
StaysEnabled == enabled

\* An interrupt wakes the chip, without a handler: interrupts are off.
Wake ==
    /\ step = "asleep" /\ (event \/ (wdt /\ elapsed))
    /\ running' = [running EXCEPT !["VDTCR"] = Detected]
    /\ ldo' = TRUE /\ enabled' = StaysEnabled /\ step' = "stop"
    /\ UNCHANGED <<o_reg, watchdog, event, nap, wanted, overridden>>

Unclocked == wdtClock
ClockBack == wdtClock \/ (~nap.timed /\ nap.form # "powerDown")

\* wdt_disable() of a timed call, else power_wdtcc_enable(), still with
\* interrupts off: the interrupt of the watchdog goes with WDIE
StopWatchdog ==
    /\ step = "stop"
    /\ wdt' = FALSE /\ elapsed' = FALSE
    /\ wdtClock' = ClockBack
    /\ step' = "restore"
    /\ UNCHANGED <<power, o_reg, enabled, event, nap, wanted, overridden>>

sei ==
    /\ step = "restore" /\ ~enabled /\ enabled' = TRUE
    /\ UNCHANGED <<power, o_reg, watchdog, event, nap, step, wanted, overridden>>

\* power2_adc_enable() sets ADEN whatever it was.
Before(r) == o_reg[r] \/ (nap.form = "adcNoiseReduction" /\ r = "ADCSRA")

Restore ==
    /\ step = "restore" /\ enabled
    /\ running' = [r \in Registers |-> IF r \in Stored THEN Before(r) ELSE running[r]]
    /\ nap' = Awake /\ step' = "awake"
    /\ UNCHANGED <<ldo, o_reg, watchdog, enabled, event, wanted, overridden>>

-----------------------------------------------------------------------------
(* The chip and the handlers *)

\* While interrupts are on the call takes less than the period.
Timeout ==
    /\ wdt /\ wdtClock /\ ~enabled /\ ~elapsed /\ elapsed' = TRUE
    /\ UNCHANGED <<power, o_reg, wdt, wdtClock, enabled, event, nap, step, wanted, overridden>>

Occurs ==
    /\ ~event /\ event' = TRUE
    /\ UNCHANGED <<power, o_reg, watchdog, enabled, nap, step, wanted, overridden>>

\* The handler of the wake-up interrupt may switch a module, or the sketch may.
Switch(r) ==
    /\ running' = [running EXCEPT ![r] = ~@]
    /\ wanted' = [wanted EXCEPT ![r] = running'[r]]
    /\ overridden' = IF step # "awake" /\ r \in Stored THEN overridden \union {r} ELSE overridden \ {r}
    /\ UNCHANGED <<ldo, o_reg, watchdog, enabled, nap, step>>

Handler ==
    /\ event /\ enabled /\ event' = FALSE
    /\ \/ \E r \in Registers \ {"VDTCR"} : Switch(r)
       \/ UNCHANGED <<power, o_reg, watchdog, enabled, nap, step, wanted, overridden>>

Sketch == step = "awake" /\ event' = event /\ \E r \in Registers \ {"VDTCR"} : Switch(r)

Naps ==
    \E timed \in BOOLEAN, offs \in SUBSET Registers :
        \/ idle(timed, offs) \/ adcNoiseReduction(timed, offs) \/ powerDown(timed, offs)
        \/ powerStandby(timed, offs) \/ powerExtStandby(timed, offs)

InNap == SwitchOff \/ Arm \/ Sleep \/ Wake \/ StopWatchdog \/ sei \/ Restore

SleepNext == Naps \/ InNap \/ Timeout \/ Occurs \/ Handler \/ Sketch
=============================================================================
