--------------------------------- MODULE Dsp ----------------------------------
(***************************************************************************)
(* The arithmetic of lgt/udsc.h on the uDSC coprocessor: multiplication    *)
(* and division of dsp, and the saturating 16-bit type DSP16.  A call      *)
(* enables the coprocessor, loads its operands, commands, reads and        *)
(* disables, with interrupts on; a handler may use it, too.  Print makes   *)
(* its digits with it, one after the other, each with interrupts off.      *)
(***************************************************************************)
EXTENDS Integers, Sequences

CONSTANTS
    U16,    \* values of a 16-bit word (code: 2^16); the accumulator has U16^2
    BYTE_,  \* values of a byte (code: 2^8)
    DECIMAL, Bases   \* the base of a number printed in no other (code: 10), and those asked for

ASSUME DspAssumption ==
    /\ U16 \in Nat \ {0} /\ U16 % 2 = 0 /\ BYTE_ \in 1..U16
    /\ DECIMAL \in 2..BYTE_ /\ Bases \subseteq 1..BYTE_

VARIABLES
    DSX, DSY, DA, DSUEN,   \* operands, accumulator, enable bit
    sum, work,             \* the call: operation, operands, and how far it is
    answer_,               \* what the last call returned
    rest, digits,          \* of a number that is printed: what is left, and its last digits
    clobbered              \* history: a handler used the coprocessor during the call

dspVars == <<DSX, DSY, DA, DSUEN, sum, work, answer_, rest, digits, clobbered>>
printVars == <<rest, digits>>

Word    == 0..U16 - 1
ULong   == 0..U16 * U16 - 1
Short   == -(U16 \div 2)..(U16 \div 2) - 1
Signed(w)  == IF w < U16 \div 2 THEN w ELSE w - U16
SLong(l)   == IF l < (U16 * U16) \div 2 THEN l ELSE l - U16 * U16
AsLong(n)  == n % (U16 * U16)
Magnitude(n) == IF n < 0 THEN -n ELSE n

Nothing == [op |-> "none", x |-> 0, y |-> 0]

DspInit ==
    /\ DSX = 0 /\ DSY = 0 /\ DA = 0 /\ DSUEN = FALSE
    /\ sum = Nothing /\ work = "idle" /\ answer_ = 0 /\ clobbered = FALSE
    /\ rest = 0 /\ digits = <<>>

\* What a command leaves in the accumulator.  The chip divides the accumulator
\* as a signed number (udsc.h:113).
Commanded(op) ==
    CASE op \in {"mul", "mulNegative"} -> DSX * DSY
      [] op = "add" -> AsLong(Signed(DSX) + Signed(DSY))
      [] op = "sub" -> AsLong(Signed(DSX) - Signed(DSY))
      [] op = "times" -> AsLong(Signed(DSX) * Signed(DSY))
      [] op = "divmod" -> IF DSY = 0 THEN 0 ELSE Magnitude(SLong(DA)) \div DSY

\* The remainder of a division is read from Y.
CommandedY(op) == IF op = "divmod" /\ DSY # 0 THEN Magnitude(SLong(DA)) % DSY ELSE DSY

sat16(v) == IF v > U16 \div 2 - 1 THEN U16 \div 2 - 1 ELSE IF v < -(U16 \div 2) THEN -(U16 \div 2) ELSE v

-----------------------------------------------------------------------------
(* What the calls compute without the coprocessor *)

\* C truncates.
Quotient(a, b)  == IF (a < 0) = (b < 0) THEN Magnitude(a) \div Magnitude(b)
                   ELSE -(Magnitude(a) \div Magnitude(b))
Remainder(a, b) == a - b * Quotient(a, b)

SignedOnly(d) == FALSE
\* divmod(): a dividend that the chip takes as negative
TooLarge(d) == d >= (U16 * U16) \div 2

\* mul(): both operands are bytes.
Bytes(x, y) == x < BYTE_ /\ y < BYTE_

Divided(a, b) == IF b = 0 THEN 0 ELSE sat16(Quotient(a, b))
Left(a, b) == IF b = 0 THEN 0 ELSE sat16(Remainder(a, b))

Software(c) ==
    \/ c.op \in {"mul", "mulNegative"} /\ Bytes(c.x, c.y)
    \/ c.op = "divmod" /\ TooLarge(c.x)
    \/ c.op \in {"quotient", "remainder"}

Computed(c) ==
    CASE c.op = "mul" -> c.x * c.y
      [] c.op = "mulNegative" -> AsLong(-(c.x * c.y))
      [] c.op = "divmod" -> IF c.y = 0 THEN <<0, 0, TRUE>> ELSE <<c.x \div c.y, c.x % c.y, FALSE>>
      [] c.op = "quotient" -> Divided(c.x, c.y)
      [] c.op = "remainder" -> Left(c.x, c.y)

\* What a call makes of the accumulator, and divmod() of Y
Fetched(op) ==
    CASE op = "mul" -> DA
      [] op = "mulNegative" -> AsLong(-DA)
      [] op \in {"add", "sub", "times"} -> sat16(SLong(DA))
      [] op = "divmod" -> <<DA, DSY, sum.y = 0>>

-----------------------------------------------------------------------------
(* Print: a long with its sign, if it is printed in DECIMAL, and its digits from the last *)

Minus(c) == c.op = "printSigned" /\ c.y = DECIMAL /\ SLong(c.x) < 0

print(op, n, base) ==
    /\ op \in {"print", "printSigned"}
    /\ work = "idle" /\ work' = "digits"
    /\ sum' = [op |-> op, x |-> n, y |-> base] /\ clobbered' = FALSE
    /\ answer_' = Minus(sum') /\ rest' = (IF answer_' THEN AsLong(-n) ELSE n) /\ digits' = <<>>
    /\ UNCHANGED <<DSX, DSY, DA, DSUEN>>

Base == IF sum.y < 2 THEN DECIMAL ELSE sum.y

\* print_fastDivMod() keeps interrupts off from the load to the last read.
printNumber ==
    /\ work = "digits" /\ work' = (IF rest \div Base = 0 THEN "return" ELSE "digits")
    /\ IF TooLarge(rest)
       THEN /\ rest' = rest \div Base /\ digits' = <<rest % Base>> \o digits
            /\ UNCHANGED <<DSY, DA, DSUEN>>
       ELSE /\ DA' = Magnitude(SLong(rest)) \div Base /\ DSY' = Magnitude(SLong(rest)) % Base
            /\ rest' = DA' /\ digits' = <<DSY'>> \o digits /\ DSUEN' = FALSE
    /\ UNCHANGED <<DSX, sum, answer_, clobbered>>

-----------------------------------------------------------------------------
(* A call, and a handler that uses the coprocessor: add(1, 1) *)

Begin(c) ==
    /\ work = "idle" /\ sum' = c /\ clobbered' = FALSE
    /\ IF Software(c)
       THEN answer_' = Computed(c) /\ work' = "return" /\ DSUEN' = DSUEN
       ELSE answer_' = answer_ /\ work' = "load" /\ DSUEN' = TRUE
    /\ UNCHANGED <<DSX, DSY, DA, printVars>>

\* mul(), mulNegative() and DSP16 + - * load X and Y; divmod() loads the accumulator and Y.
multiply(op, x, y) == op \in {"mul", "mulNegative"} /\ Begin([op |-> op, x |-> x, y |-> y])
DSP16(op, x, y) == op \in {"add", "sub", "times"} /\ Begin([op |-> op, x |-> x, y |-> y])
divmod(d, v) == Begin([op |-> "divmod", x |-> d, y |-> v])
divide(op, a, b) == op \in {"quotient", "remainder"} /\ Begin([op |-> op, x |-> a, y |-> b])

Load ==
    /\ work = "load" /\ work' = "command"
    /\ IF sum.op = "divmod" THEN DA' = sum.x /\ DSX' = DSX ELSE DSX' = sum.x /\ DA' = DA
    /\ DSY' = sum.y
    /\ UNCHANGED <<DSUEN, sum, answer_, printVars, clobbered>>

Command ==
    /\ work = "command" /\ work' = "read"
    /\ DA' = Commanded(sum.op) /\ DSY' = CommandedY(sum.op)
    /\ UNCHANGED <<DSX, DSUEN, sum, answer_, printVars, clobbered>>

Read ==
    /\ work = "read" /\ work' = "return"
    /\ answer_' = Fetched(sum.op) /\ DSUEN' = FALSE
    /\ UNCHANGED <<DSX, DSY, DA, sum, printVars, clobbered>>

\* X and Y are not read again before they are stored.
Return ==
    /\ work = "return" /\ work' = "idle" /\ sum' = Nothing /\ answer_' = 0
    /\ DSX' = 0 /\ DSY' = 0 /\ rest' = 0 /\ digits' = <<>>
    /\ UNCHANGED <<DA, DSUEN, clobbered>>

DspHandler ==
    /\ DSX' = 1 /\ DSY' = 1 /\ DA' = 2 /\ DSUEN' = FALSE
    /\ clobbered' = (clobbered \/ work \in {"load", "command", "read"})
    /\ UNCHANGED <<sum, work, answer_, printVars>>

DspNext ==
    \/ \E op \in {"mul", "mulNegative"}, x, y \in Word : multiply(op, x, y)
    \/ \E op \in {"add", "sub", "times"}, x, y \in Word : DSP16(op, x, y)
    \/ \E d \in ULong, v \in Word : divmod(d, v)
    \/ \E op \in {"quotient", "remainder"}, a, b \in Short : divide(op, a, b)
    \/ \E op \in {"print", "printSigned"}, n \in ULong, base \in Bases : print(op, n, base)
    \/ printNumber \/ Load \/ Command \/ Read \/ Return \/ DspHandler

=============================================================================
