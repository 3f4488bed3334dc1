-------------------------------- MODULE Pins ---------------------------------
(***************************************************************************)
(* Digital and PWM output: pinMode(), digitalWrite(), digitalRead() and    *)
(* digitalToggle() of cores/lgt8f/wiring_digital.c, and analogWrite() of   *)
(* wiring_analog.c.  The pins of a port share PORT and DDR, and those of a *)
(* timer its TCCR; a handler may call these functions, too.                *)
(***************************************************************************)
EXTENDS Integers

CONSTANTS
    Outputs,   \* pins of one port and one timer
    Duties     \* arguments of analogWrite()

ASSUME PinsAssumption == Duties \subseteq 0..255

VARIABLES
    com, ocr,      \* the pins that the timer drives (COM bits of TCCR), and their duties
    PORT, DDR,     \* output levels and directions
    masked,        \* interrupts are off
    verb, next_, loaded,   \* the sketch: call, place in it, register
    driven,        \* history: what each pin was last told to be
    crossed        \* history: pins that a handler changed while the sketch was changing
                   \* them, or whose COM bit it changed between a load and a store

levelVars == <<com, ocr, PORT, DDR, masked, verb, next_, loaded, driven, crossed>>

NoVerb == [f |-> "none", pin |-> 0, val |-> 0]

\* What a pin is: the duty of its PWM, 0 if it has none, and its level
Actual(pin) ==
    [pwm |-> IF pin \in com THEN ocr[pin] ELSE 0, level |-> IF pin \in PORT THEN 1 ELSE 0]

LevelInit ==
    /\ com = {} /\ ocr = [p \in Outputs |-> 0] /\ PORT = {} /\ DDR = {} /\ masked = FALSE
    /\ verb = NoVerb /\ next_ = "idle" /\ loaded = {}
    /\ driven = [p \in Outputs |-> Actual(p)] /\ crossed = {}

With(set, pin, val) == IF val = 0 THEN set \ {pin} ELSE set \union {pin}

-----------------------------------------------------------------------------
(* The calls *)

\* INPUT clears the pin of PORT and INPUT_PULLUP sets it, with interrupts off.
pinMode(pin, mode) ==
    /\ next_ = "idle"
    /\ DDR' = With(DDR, pin, IF mode = "OUTPUT" THEN 1 ELSE 0)
    /\ IF mode = "OUTPUT" THEN UNCHANGED <<PORT, driven>>
       ELSE LET high == IF mode = "INPUT" THEN 0 ELSE 1 IN
            PORT' = With(PORT, pin, high) /\ driven' = [driven EXCEPT ![pin].level = high]
    /\ UNCHANGED <<com, ocr, masked, verb, next_, loaded, crossed>>

\* The write to PIN is one store; PWM stays.
digitalToggle(pin) ==
    /\ next_ = "idle"
    /\ PORT' = With(PORT, pin, IF pin \in PORT THEN 0 ELSE 1)
    /\ driven' = [driven EXCEPT ![pin].level = 1 - @]
    /\ UNCHANGED <<com, ocr, DDR, masked, verb, next_, loaded, crossed>>

Calls_(f, pin, val) ==
    /\ next_ = "idle" /\ next_' = "load"
    /\ verb' = [f |-> f, pin |-> pin, val |-> val]
    /\ crossed' = IF f = "write" THEN crossed \ {pin} ELSE crossed
    /\ UNCHANGED <<com, ocr, PORT, masked, loaded>>

digitalWrite(pin, val) ==
    /\ Calls_("write", pin, val) /\ DDR' = DDR
    /\ driven' = [driven EXCEPT ![pin] = [pwm |-> 0, level |-> val]]

\* It turns PWM off, too.
digitalRead(pin) ==
    /\ Calls_("read", pin, 0) /\ DDR' = DDR
    /\ driven' = [driven EXCEPT ![pin].pwm = 0]

\* 0 and 255 are levels.
analogWrite(pin, val) ==
    /\ Calls_(IF val \in {0, 255} THEN "write" ELSE "pwm", pin, IF val = 255 THEN 1 ELSE val)
    /\ DDR' = DDR \union {pin}
    /\ driven' = [driven EXCEPT ![pin] = IF val \in {0, 255} THEN [pwm |-> 0, level |-> val \div 255]
                                         ELSE [@ EXCEPT !.pwm = val]]

-----------------------------------------------------------------------------
(* Their steps: cbi() and sbi() of TCCR are a load and a store. *)

LoadCom ==
    /\ next_ = "load" /\ loaded' = com /\ next_' = "store"
    /\ UNCHANGED <<com, ocr, PORT, DDR, masked, verb, driven, crossed>>

StoreCom ==
    /\ next_ = "store"
    /\ com' = With(loaded, verb.pin, IF verb.f = "pwm" THEN 1 ELSE 0)
    /\ next_' = CASE verb.f = "write" -> "port" [] verb.f = "pwm" -> "duty" [] verb.f = "read" -> "done"
    /\ loaded' = {}
    /\ UNCHANGED <<ocr, PORT, DDR, masked, verb, driven, crossed>>

Duty ==
    /\ next_ = "duty" /\ ocr' = [ocr EXCEPT ![verb.pin] = verb.val] /\ next_' = "done"
    /\ UNCHANGED <<com, PORT, DDR, masked, verb, loaded, driven, crossed>>

Unmasked == masked
cli == TRUE

LoadPort ==
    /\ next_ = "port" /\ masked' = cli /\ loaded' = PORT /\ next_' = "output"
    /\ UNCHANGED <<com, ocr, PORT, DDR, verb, driven, crossed>>

\* SREG = oldSREG
StorePort ==
    /\ next_ = "output" /\ PORT' = With(loaded, verb.pin, verb.val)
    /\ masked' = FALSE /\ loaded' = {} /\ next_' = "done"
    /\ UNCHANGED <<com, ocr, DDR, verb, driven, crossed>>

Done ==
    /\ next_ = "done" /\ next_' = "idle" /\ verb' = NoVerb
    /\ UNCHANGED <<com, ocr, PORT, DDR, masked, loaded, driven, crossed>>

\* A handler's digitalWrite() or analogWrite()
Crosses(pin) == pin = verb.pin \/ (next_ = "store" /\ (com' # com \/ pin \in crossed))

LevelHandler(pin, val, pwm) ==
    /\ ~masked
    /\ com' = With(com, pin, IF pwm THEN 1 ELSE 0)
    /\ IF pwm THEN ocr' = [ocr EXCEPT ![pin] = val] /\ DDR' = DDR \union {pin} /\ PORT' = PORT
       ELSE PORT' = With(PORT, pin, val) /\ UNCHANGED <<ocr, DDR>>
    /\ driven' = [driven EXCEPT ![pin] = IF pwm THEN [@ EXCEPT !.pwm = val] ELSE [pwm |-> 0, level |-> val]]
    /\ crossed' = IF Crosses(pin) THEN crossed \union {pin} ELSE IF pwm THEN crossed ELSE crossed \ {pin}
    /\ UNCHANGED <<masked, verb, next_, loaded>>

LevelNext ==
    \/ \E pin \in Outputs :
          \/ \E mode \in {"INPUT", "INPUT_PULLUP", "OUTPUT"} : pinMode(pin, mode)
          \/ digitalToggle(pin) \/ digitalRead(pin)
          \/ \E high \in {0, 1} : digitalWrite(pin, high) \/ LevelHandler(pin, high, FALSE)
          \/ \E duty \in Duties : analogWrite(pin, duty) \/ (duty \notin {0, 255} /\ LevelHandler(pin, duty, TRUE))
    \/ LoadCom \/ StoreCom \/ Duty \/ LoadPort \/ StorePort \/ Done

=============================================================================
