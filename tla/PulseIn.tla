------------------------------- MODULE PulseIn -------------------------------
(***************************************************************************)
(* pulseIn() and pulseInLong() of cores/lgt8f/wiring_pulse.c, with the     *)
(* loops of wiring_pulse.S: the first counts loops, the second asks        *)
(* micros().  The pin may change at any moment, but stays at a level until *)
(* the call has looked; a tick is a loop of the first.                     *)
(***************************************************************************)
EXTENDS Integers

CONSTANTS
    ULONG,      \* an unsigned long is a number modulo ULONG (code: 2^32)
    Timeouts,   \* arguments
    LAG         \* ticks between two steps of pulseInLong()

ASSUME PulseAssumption == ULONG \in Nat \ {0} /\ Timeouts \subseteq 0..ULONG - 1 /\ LAG \in Nat \ {0}

VARIABLES
    high, age, former,      \* the pin, ticks at this level and (history) at the one before; capped
    clock,                  \* what micros() gives
    measure, phase,         \* the call: which, and place
    maxloops, width,        \* pulseIn()
    startMicros, began,     \* pulseInLong(): and its local variable start
    since,                  \* ticks since its last step
    result,                 \* what the call returns
    budget, used            \* history: the timeout, and ticks since the call (capped)

pinState  == <<high, age, former, clock>>
pulseVars == <<pinState, measure, phase, maxloops, width, startMicros, began, since, result, budget, used>>

OneMore(n) == IF n < ULONG THEN n + 1 ELSE n

PulseInit ==
    /\ high = FALSE /\ age = ULONG /\ former = ULONG /\ clock = 0
    /\ measure = "none" /\ phase = "idle" /\ maxloops = 0 /\ width = 0
    /\ startMicros = 0 /\ began = 0 /\ since = 0 /\ result = 0 /\ budget = 0 /\ used = 0

\* The pulse that is measured is of the high level.
Edge ==
    /\ phase # "idle" /\ age >= (IF measure = "pulseIn" THEN 1 ELSE 4 * LAG)
    /\ high' = ~high /\ age' = 0 /\ former' = age
    /\ UNCHANGED <<clock, measure, phase, maxloops, width, startMicros, began, since, result, budget, used>>

Passes == age' = OneMore(age) /\ clock' = (clock + 1) % ULONG /\ used' = OneMore(used) /\ UNCHANGED <<high, former>>

Ask(f, timeout) ==
    /\ phase = "idle" /\ phase' = "previous" /\ measure' = f
    /\ budget' = timeout /\ used' = 0
    /\ maxloops' = (IF f = "pulseIn" THEN timeout ELSE 0) /\ startMicros' = (IF f = "pulseIn" THEN 0 ELSE clock)
    /\ UNCHANGED <<pinState, width, began, since, result>>

pulseIn(timeout) == Ask("pulseIn", timeout)
pulseInLong(timeout) == Ask("pulseInLong", timeout)

\* The level that ends a phase
Seen == IF phase = "start" THEN high ELSE ~high

-----------------------------------------------------------------------------
(* countPulseASM(): one timeout for all three loops *)

Less == (maxloops - 1) % ULONG

\* --maxloops == 0 ends it.
WaitLoop ==
    /\ measure = "pulseIn" /\ phase \in {"previous", "start"} /\ ~Seen
    /\ maxloops' = Less /\ phase' = (IF Less = 0 THEN "return" ELSE phase)
    /\ Passes
    /\ UNCHANGED <<measure, width, startMicros, began, since, result, budget>>

Found ==
    /\ measure = "pulseIn" /\ phase \in {"previous", "start"} /\ Seen
    /\ phase' = (IF phase = "previous" THEN "start" ELSE "stop")
    /\ UNCHANGED <<pinState, measure, maxloops, width, startMicros, began, since, result, budget, used>>

More == (width + 1) % ULONG
\* ++width == maxloops: of what is left of it
RestOver == More = maxloops

CountLoop ==
    /\ measure = "pulseIn" /\ phase = "stop" /\ high
    /\ width' = More /\ phase' = (IF RestOver THEN "return" ELSE phase)
    /\ Passes
    /\ UNCHANGED <<measure, maxloops, startMicros, began, since, result, budget>>

\* A width of 0 is a timeout.
EndOfPulse ==
    /\ measure = "pulseIn" /\ phase = "stop" /\ ~high
    /\ result' = (IF width = 0 THEN 0 ELSE width + 1) /\ phase' = "return"
    /\ UNCHANGED <<pinState, measure, maxloops, width, startMicros, began, since, budget, used>>

-----------------------------------------------------------------------------
(* pulseInLong(): look at the pin, then at the clock *)

Over == (clock - startMicros) % ULONG > budget

LookAtClock(p) == CASE p = "previous" -> "previous?" [] p = "start" -> "start?" [] p = "stop" -> "stop?"
LookAtPin(p) == CASE p = "previous?" -> "previous" [] p = "start?" -> "start" [] p = "stop?" -> "stop"
After(p) == CASE p = "previous" -> "start" [] p = "start" -> "mark" [] p = "stop" -> "take"

Look ==
    /\ measure = "pulseInLong" /\ phase \in {"previous", "start", "stop"}
    /\ phase' = (IF Seen THEN After(phase) ELSE LookAtClock(phase)) /\ since' = 0
    /\ UNCHANGED <<pinState, measure, maxloops, width, startMicros, began, result, budget, used>>

LookAgain ==
    /\ phase \in {"previous?", "start?", "stop?"}
    /\ phase' = (IF Over THEN "return" ELSE LookAtPin(phase)) /\ since' = 0
    /\ UNCHANGED <<pinState, measure, maxloops, width, startMicros, began, result, budget, used>>

Mark ==
    /\ phase = "mark" /\ began' = clock /\ phase' = "stop" /\ since' = 0
    /\ UNCHANGED <<pinState, measure, maxloops, width, startMicros, result, budget, used>>

SinceCall == (clock - startMicros) % ULONG
SinceMark == (clock - began) % ULONG

TakeLength ==
    /\ phase = "take" /\ result' = SinceMark /\ phase' = "return" /\ since' = 0
    /\ UNCHANGED <<pinState, measure, maxloops, width, startMicros, began, budget, used>>

TickPin ==
    /\ measure = "pulseInLong" /\ phase # "return" /\ since < LAG /\ since' = since + 1
    /\ Passes
    /\ UNCHANGED <<measure, phase, maxloops, width, startMicros, began, result, budget>>

GivePulse ==
    /\ phase = "return" /\ phase' = "idle" /\ measure' = "none"
    /\ maxloops' = 0 /\ width' = 0 /\ startMicros' = 0 /\ began' = 0 /\ since' = 0 /\ result' = 0
    /\ budget' = 0 /\ used' = 0 /\ age' = ULONG /\ former' = ULONG
    /\ UNCHANGED <<high, clock>>

InPulse == WaitLoop \/ Found \/ CountLoop \/ EndOfPulse \/ Look \/ LookAgain \/ Mark \/ TakeLength \/ GivePulse

PulseNext ==
    \/ \E timeout \in Timeouts : pulseIn(timeout) \/ pulseInLong(timeout)
    \/ Edge \/ TickPin \/ InPulse
=============================================================================
