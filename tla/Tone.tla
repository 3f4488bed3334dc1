-------------------------------- MODULE Tone --------------------------------
(***************************************************************************)
(* cores/lgt8f/Tone.cpp: tone() and noTone() on Timer2, and its compare    *)
(* handler, which counts the toggles of a finite tone and then ends it.    *)
(* The sketch runs one access to shared state per step.                    *)
(***************************************************************************)
EXTENDS Integers, Sequences

CONSTANTS
    TonePins,         \* pins of the sketch
    F_CPU,        \* clock ticks per second
    Frequencies,  \* arguments of tone()
    Durations,    \* in toggles; 0 is for ever
    OCR_MAX,          \* the largest OCR2A (code: 255)
    HALF          \* what one half of toggle_count holds (code: 2^16)

ASSUME ToneAssumption ==
    /\ 255 \notin TonePins /\ Frequencies \subseteq Nat \ {0} /\ Durations \subseteq Nat
    /\ F_CPU \in Nat /\ OCR_MAX \in Nat /\ HALF \in Nat \ {0}

VARIABLES
    tone_pins,               \* the pin of the tone, 255 if the timer is free
    mode, prescaler, OCR2A,  \* the timer: WGM bits of TCCR2A, CS bits of TCCR2B, compare
    OCIE2A,                  \* the compare interrupt
    toggle_count, timer2_pin,
    output,                   \* the pins
    doing, tune, newCount,    \* the sketch: place, arguments, and the count to be stored
    played, toggles,         \* history: the last tone started, and its toggles if finite
    raced                    \* history: the handler counted or ended a tone that tone()
                             \* was changing

timer2   == <<mode, prescaler, OCR2A, OCIE2A>>
toneData == <<toggle_count, timer2_pin>>
toneVars == <<tone_pins, timer2, toneData, output, doing, tune, newCount, played, toggles, raced>>

None == [pin |-> 255, f |-> 1, d |-> 0]

ToneInit ==
    /\ tone_pins = 255
    /\ mode = "pwm" /\ prescaler = 4 /\ OCR2A = 0 /\ OCIE2A = FALSE
    /\ toggle_count = 0 /\ timer2_pin = 255
    /\ output = [p \in TonePins |-> 0]
    /\ doing = "idle" /\ tune = None /\ newCount = 0
    /\ played = None /\ toggles = 0 /\ raced = FALSE

-----------------------------------------------------------------------------
(* The prescaler that tone() chooses: the smallest with which OCR2A fits *)

\* What the CS bits 1 .. 7 of Timer2 divide by.
Timer2Dividers == <<1, 8, 32, 64, 128, 256, 1024>>

Steps(f, divider) == F_CPU \div (2 * f * divider)
Ocr(f, divider) == IF Steps(f, divider) = 0 THEN 0 ELSE Steps(f, divider) - 1

Fitting(f) == {k \in 1..7 : Ocr(f, Timer2Dividers[k]) <= OCR_MAX}
prescalarbits(f) == IF Fitting(f) = {} THEN 7 ELSE CHOOSE k \in Fitting(f) : \A l \in Fitting(f) : k <= l
ocr(f) == Ocr(f, Timer2Dividers[prescalarbits(f)])

-----------------------------------------------------------------------------
(* tone() *)

tone(p, f, d) ==
    /\ doing = "idle" /\ doing' = "begin"
    /\ tune' = [pin |-> p, f |-> f, d |-> d]
    /\ UNCHANGED <<tone_pins, timer2, toneData, output, newCount, played, toggles, raced>>

IsFree == tone_pins = 255

\* toneBegin(): the tone's own pin, a free timer, or nothing.  No handler runs
\* between the stores to a free timer: its interrupt is off.
toneBegin ==
    /\ doing = "begin"
    /\ IF tone_pins = tune.pin
       THEN doing' = "prescale" /\ UNCHANGED <<tone_pins, mode, prescaler, timer2_pin, tune>>
       ELSE IF IsFree
       THEN /\ doing' = "prescale" /\ tone_pins' = tune.pin /\ timer2_pin' = tune.pin
            /\ mode' = "ctc" /\ prescaler' = 1 /\ tune' = tune
       ELSE doing' = "idle" /\ tune' = None /\ UNCHANGED <<tone_pins, mode, prescaler, timer2_pin>>
    /\ UNCHANGED <<OCR2A, OCIE2A, toggle_count, output, newCount, played, toggles, raced>>

Fits == ocr(tune.f) <= OCR_MAX

SetPrescaler ==
    /\ doing = "prescale"
    /\ prescaler' = prescalarbits(tune.f)
    /\ doing' = IF Fits THEN "compare" ELSE "noTone"
    /\ UNCHANGED <<tone_pins, mode, OCR2A, OCIE2A, toneData, output, tune, newCount, played, toggles, raced>>

SetCompare ==
    /\ doing = "compare"
    /\ OCR2A' = ocr(tune.f) % (OCR_MAX + 1)
    /\ newCount' = IF tune.d > 0 THEN tune.d ELSE -1
    /\ doing' = "low"
    /\ UNCHANGED <<tone_pins, mode, prescaler, OCIE2A, toneData, output, tune, played, toggles, raced>>

SetCountLow ==
    /\ doing = "low"
    /\ toggle_count' = HALF * (toggle_count \div HALF) + (newCount % HALF)
    /\ doing' = "high"
    /\ UNCHANGED <<tone_pins, timer2, timer2_pin, output, tune, newCount, played, toggles, raced>>

Forgotten(c) == 0
HighHalf(c) == c \div HALF

SetCountHigh ==
    /\ doing = "high"
    /\ toggle_count' = HALF * HighHalf(newCount) + (toggle_count % HALF)
    /\ toggles' = 0 /\ newCount' = 0
    /\ doing' = "enable"
    /\ UNCHANGED <<tone_pins, timer2, timer2_pin, output, tune, played, raced>>

EnableTone ==
    /\ doing = "enable"
    /\ OCIE2A' = TRUE /\ played' = tune
    /\ doing' = "idle" /\ tune' = None
    /\ UNCHANGED <<tone_pins, mode, prescaler, OCR2A, toneData, output, newCount, toggles, raced>>

-----------------------------------------------------------------------------
(* noTone() *)

noTone(p) ==
    /\ doing = "idle" /\ doing' = "noTone"
    /\ tune' = [None EXCEPT !.pin = p]
    /\ UNCHANGED <<tone_pins, timer2, toneData, output, newCount, played, toggles, raced>>

disableTimer ==
    /\ OCIE2A' = FALSE
    /\ mode' = "pwm" /\ prescaler' = 4 /\ OCR2A' = 0

FreeTimer ==
    /\ doing = "noTone"
    /\ IF tone_pins = tune.pin
       THEN tone_pins' = 255 /\ doing' = "disable"
       ELSE tone_pins' = tone_pins /\ doing' = "write"
    /\ UNCHANGED <<timer2, toneData, output, tune, newCount, played, toggles, raced>>

Disable ==
    /\ doing = "disable"
    /\ disableTimer
    /\ doing' = "write"
    /\ UNCHANGED <<tone_pins, toneData, output, tune, newCount, played, toggles, raced>>

Low(p) == [output EXCEPT ![p] = 0]

Write ==
    /\ doing = "write"
    /\ output' = Low(tune.pin)
    /\ doing' = "idle" /\ tune' = None
    /\ UNCHANGED <<tone_pins, timer2, toneData, newCount, played, toggles, raced>>

-----------------------------------------------------------------------------
(* ISR(TIMER2_COMPA_vect) *)

Ends == toggle_count = 0

ToggleOutput ==
    /\ OCIE2A /\ ~Ends
    /\ output' = [output EXCEPT ![timer2_pin] = 1 - @]
    /\ toggle_count' = IF toggle_count > 0 THEN toggle_count - 1 ELSE toggle_count
    /\ toggles' = IF toggle_count > 0 THEN toggles + 1 ELSE toggles
    /\ raced' = (raced \/ (toggle_count > 0 /\ doing = "high"))
    /\ UNCHANGED <<tone_pins, timer2, timer2_pin, doing, tune, newCount, played>>

\* noTone(tone_pins[0]): if noTone() has freed the timer, the pin is 255 and is
\* found free; digitalWrite() does nothing to it.
EndTone ==
    /\ OCIE2A /\ Ends
    /\ disableTimer /\ tone_pins' = 255
    /\ output' = IF tone_pins = 255 THEN output ELSE [output EXCEPT ![tone_pins] = 0]
    /\ raced' = (raced \/ doing \in {"prescale", "compare", "low", "high", "enable"})
    /\ UNCHANGED <<toneData, doing, tune, newCount, played, toggles>>

SetsTone == toneBegin \/ SetPrescaler \/ SetCompare \/ SetCountLow \/ SetCountHigh \/ EnableTone
StopsTone == FreeTimer \/ Disable \/ Write
InTone == SetsTone \/ StopsTone

ToneNext ==
    \/ \E p \in TonePins : noTone(p) \/ \E f \in Frequencies, d \in Durations : tone(p, f, d)
    \/ InTone \/ ToggleOutput \/ EndTone
=============================================================================
