----------------------------- MODULE WaitsProps -----------------------------
(***************************************************************************)
(* What the clock, finite tones, SPI transfers, streams and pulses promise. *)
(***************************************************************************)
EXTENDS Waits, FiniteSets

\* Every variable has its type.
TypeOK ==
    /\ tcnt \in 0..TOP - 1 /\ timer0_millis \in 0..U32 - 1 /\ timer0_overflow_count \in 0..U32 - 1
    /\ prescaler \in 1..7 /\ OCR2A \in 0..OCR_MAX /\ tone_pins \in TonePins \union {255}
    /\ toggle_count \in Int /\ output \in [TonePins -> {0, 1}]
    /\ Len(wr) <= DEPTH /\ Len(rd) <= DEPTH /\ writecount \in Nat /\ count \in Nat
    /\ index \in Seq(0..MaxTarget) /\ waited \in 0..TIMEOUT /\ outcome \in Int /\ taken \in Seq(Bytes)
    /\ {maxloops, width, startMicros, began} \subseteq 0..ULONG - 1 /\ result \in 0..ULONG /\ since \in 0..LAG
    /\ capacity \in NoBuffer..WIDTH - 2

\* micros() is the time at which it read TCNT0, wherever the overflow and the handler
\* come between its loads, and whether or not interrupts are on.
MicrosExact == pc = "return" /\ call # "millis" => Answer = (stamp * TICK_US) % U32

\* millis() is a value that timer0_millis had, although it is loaded byte by byte.
MillisWhole == pc = "return" /\ call = "millis" => Answer = held

\* The handler's sum of fractions loses nothing: timer0_millis is always less than a
\* millisecond behind the overflows that were counted.
MillisKeepsUp == owed \in 0..MS - 1

\* The clock shows the time: micros(), millis() and the sum behind it.
ClockTrue == MicrosExact /\ MillisWhole /\ MillisKeepsUp

\* delay() does not return before its time.
DelayNotEarly == pc = "delayed" => spent * TICK_US >= asked * MS

\* Every call, and delay() too, returns: across the wrap of micros().
DelayReturns == pc # "idle" ~> pc = "idle"

Sounds == OCIE2A /\ doing = "idle" /\ ~raced

\* A tone that sounds is of its pin, and its half period is the largest that the timer
\* can make, not longer than what was asked, whatever tone came before.
InTune ==
    Sounds =>
        /\ mode = "ctc" /\ timer2_pin = tone_pins /\ tone_pins = played.pin
        /\ LET D    == Timer2Dividers[prescaler]
               half == F_CPU \div (2 * played.f)
           IN  half > 0 => D * (OCR2A + 1) <= half /\ half < D * (OCR2A + 2)

\* A finite tone makes as many toggles as were asked, although the 32-bit count is
\* stored in halves while the handler may count (Tone.cpp:397).
CountExact == Sounds /\ toggle_count >= 0 => toggles + toggle_count = played.d

\* Without a tone every pin is low and the timer is free for any pin.
Silent ==
    doing = "idle" /\ ~raced /\ ~OCIE2A => tone_pins = 255 /\ \A p \in TonePins : output[p] = 0

\* Only the pin of the tone is ever high.
OnlyOne == doing = "idle" /\ ~raced => \A p \in TonePins : output[p] = 1 => p = tone_pins

\* A tone is the one asked for, as long as asked, on its pin alone, and leaves nothing.
ToneTrue == InTune /\ CountExact /\ Silent /\ OnlyOne

\* A finite tone ends, unless the sketch comes between.
Ended == OCIE2A /\ toggle_count >= 0 /\ doing = "idle" ~> ~OCIE2A \/ doing # "idle"

\* Replies that wait in the FIFO are of the transfer under way, never of an earlier one,
\* unless one gave up and nothing has reset the FIFO since.
OwnReplies == ~stale => \A k \in 1..Len(rd) : rd[k] = form

\* A transfer that only sends, or only receives, returns, also if the SPI stands still
\* (SPI.cpp:84, "bounded wait").
TransferReturns == form \in {"send", "receive"} ~> form = "none"

Contains(s, target) ==
    \E k \in 0..Len(s) - Len(target) : SubSeq(s, k + 1, k + Len(target)) = target
EndsWith(s, target) ==
    Len(s) >= Len(target) /\ SubSeq(s, Len(s) - Len(target) + 1, Len(s)) = target

\* find() and findUntil() return at the first byte that ends the target or the
\* terminator, and with the one that it ends, also where the text overlaps itself
\* (Stream.cpp:290, "'1112' doesn't match the first position in '11112'").
FindsFirst ==
    query.f = "find" =>
        \A k \in DOMAIN query.targets :
            /\ stage = "wait" => ~Contains(taken, query.targets[k])
            /\ outcome = k => EndsWith(taken, query.targets[k])

\* The number of n ones
Ones[n \in Nat] == IF n = 0 THEN 0 ELSE Ones[n - 1] * 10 + 1

\* parseInt() returns the number that it read, with the sign that stands before its
\* digits, and leaves what follows the number to be read: byte by byte, as it arrives.
ReadsNumber ==
    query.f = "parse" /\ stage = "return" =>
        LET ones   == {k \in DOMAIN taken : taken[k] = Digit}
            signs  == {k \in DOMAIN taken : taken[k] = Sign}
            number == Ones[Cardinality(ones)]
        IN  /\ outcome = (IF signs = {} THEN number ELSE -number)
            /\ Cardinality(signs) <= 1 /\ \A k \in signs, l \in ones : k < l
            /\ byte # Digit

\* What replace() makes, left to right and without looking at what was put in
Replaced(x, f, r) ==
    LET rest[k \in Nat] ==
          IF k >= Len(x) THEN <<>>
          ELSE IF At(x, f, k) THEN r \o rest[k + Len(f)] ELSE <<x[k + 1]>> \o rest[k + 1]
    IN  rest[0]

SelfOverlaps(f) == \E k \in 1..Len(f) - 1 : Drop(f, k) = Take(f, Len(f) - k)

\* The three loops of replace() agree, although one of them works from the right: on what
\* is found, and on how long the result is (WString.cpp:672).  They need not where the
\* text to be found overlaps itself.
LoopsAgree ==
    said.op = "replace" /\ said.ok /\ (Len(said.b) > Len(said.a) => ~SelfOverlaps(said.a)) =>
        text = Replaced(said.before, said.a, said.b)

\* "on failure the string is left unchanged", or marked as invalid by an assignment
\* (WString.h:77, 83), and what fits in 16 bits of length fails for want of memory only.
FailsWhole ==
    said # Silence /\ ~said.ok =>
        IF said.op = "assign" THEN capacity = NoBuffer ELSE text = said.before /\ capacity = said.had

\* A text never outgrows its buffer, whatever was called before, and a string without a
\* buffer has none.
WithinBuffer == Len(text) <= capacity \/ (capacity = NoBuffer /\ text = <<>>)

\* "compute size needed for result" (WString.cpp:672): replace() writes no more.
SizeComputed == said.op = "replace" => Len(text) <= capacity

\* Texts and numbers are found where they stand in a stream, and kept whole in a string.
TextTrue == FindsFirst /\ ReadsNumber /\ LoopsAgree /\ FailsWhole /\ WithinBuffer

\* Every call of a stream returns once the bytes stop coming.
StreamReturns == stage = "wait" ~> stage = "return"

Resolution == IF measure = "pulseIn" THEN 1 ELSE 3 * LAG
Pulse == IF high THEN age ELSE former
\* --maxloops of no loops is 2^32 - 1 more of them: pulseIn() of a timeout of 0.
Unbounded == measure = "pulseIn" /\ budget = 0

\* A pulse is measured to the resolution of the loop, however the timeouts of the three
\* loops share the call; and a call that gives up has used its timeout, or met a pulse
\* too short for it.
Measured ==
    phase = "return" /\ ~Unbounded =>
        \/ result > 0 /\ Pulse - result \in -Resolution..Resolution
        \/ result = 0 /\ (used >= budget \/ Pulse <= Resolution + 1)

\* No call takes longer than its timeout, wherever in the pulse it comes and whatever
\* micros() shows then.
TimesOut == ~Unbounded => used <= budget + (IF measure = "pulseIn" THEN 0 ELSE 6 * LAG)

\* A pulse is measured as it was, within the time the sketch gave.
PulseTrue == Measured /\ TimesOut

\* Every measurement returns, also of a pin that never moves.
PulseReturns == phase # "idle" ~> phase = "idle"

\* Whatever a sketch waits for comes to an end: the clock, a finite tone, a transfer, a
\* stream that falls silent, a pin that never moves.
AllReturn == DelayReturns /\ Ended /\ TransferReturns /\ StreamReturns /\ PulseReturns
=============================================================================
