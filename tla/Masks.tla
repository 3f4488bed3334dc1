------------------------------- MODULE Masks --------------------------------
(***************************************************************************)
(* External interrupts and SPI: attachInterrupt() and detachInterrupt() of *)
(* cores/lgt8f/WInterrupts.c, and libraries/SPI, whose transactions mask   *)
(* the interrupts whose callbacks use the bus.  Both change EIMSK.         *)
(***************************************************************************)
EXTENDS Integers, Sequences, FiniteSets

CONSTANTS
    INTS,      \* external interrupts (code: 0 and 1)
    Numbers,   \* arguments of usingInterrupt(): INTS, and 255 for any other handler
    Triggers,     \* trigger modes: their two bits in EICRA
    Others        \* bound: interrupts whose callback may do more than attach itself again

ASSUME MasksAssumption ==
    /\ 255 \notin INTS /\ Numbers \subseteq INTS \union {255}
    /\ Triggers \subseteq SUBSET {0, 1} /\ Triggers # {} /\ Others \subseteq INTS

VARIABLES
    EICRA, EIMSK,          \* trigger modes and enabled interrupts
    intFunc,               \* callbacks: a pointer is two bytes
    I,                     \* the I bit of SREG
    initialized, interruptMode, interruptMask, interruptSave,
    intruded,              \* a handler changed SPCR and SPSR during the sketch's transaction
    place, args, tmp, inTx,    \* the sketch: place, arguments, register, in a transaction
    attached, modes, registered, want, \* history: what the program asked for
    undone, lost,          \* history: interrupts whose mask, or mode, was asked for
                           \* between a load and a store that undoes it
    torn                   \* history: a torn callback was called

ext  == <<EICRA, EIMSK, intFunc>>
spi  == <<initialized, interruptMode, interruptMask, interruptSave, intruded>>
asked == <<attached, modes, registered, want, undone, lost>>
maskVars == <<ext, I, spi, place, args, tmp, inTx, asked, torn>>

Callbacks == {"spi", "flip", "once"}
Both(f)  == <<f, f>>
NoArg     == <<0, "nothing", {}>>

MaskInit ==
    /\ EICRA = [i \in INTS |-> {}] /\ EIMSK = {}
    /\ intFunc = [i \in INTS |-> Both("nothing")] /\ I = TRUE
    /\ initialized = 0 /\ interruptMode = 0 /\ interruptMask = {} /\ interruptSave = {}
    /\ intruded = FALSE
    /\ place = "idle" /\ args = NoArg /\ tmp = [i \in INTS |-> {}] /\ inTx = FALSE
    /\ attached = {} /\ modes = EICRA /\ registered = {} /\ want = TRUE
    /\ undone = {} /\ lost = {}
    /\ torn = FALSE

Idle == place = "idle"

\* endTransaction() stores the mask of beginTransaction().
Asks(i) == IF inTx /\ interruptMode = 1 THEN undone \union {i} ELSE undone \ {i}

-----------------------------------------------------------------------------
(* attachInterrupt() and detachInterrupt() *)

\* SREG = sreg: what I was when attachInterrupt() was called
Restored == want /\ ~(inTx /\ interruptMode = 2)

StoreLow(i, f) == intFunc' = [intFunc EXCEPT ![i] = <<f, @[2]>>]

\* A callback that uses the bus is registered with SPI first.
attachInterrupt(i, f, mode) ==
    /\ Idle
    /\ f # "flip" => i \in Others
    /\ f = "spi" => ~inTx /\ (i \in registered \/ 255 \in registered)
    /\ args' = <<i, f, mode>> /\ I' = FALSE
    /\ StoreLow(i, f) /\ place' = "high"
    /\ UNCHANGED <<EICRA, EIMSK, spi, tmp, inTx, asked, torn>>

StoreHigh ==
    /\ place = "high"
    /\ intFunc' = [intFunc EXCEPT ![args[1]] = <<@[1], args[2]>>]
    /\ I' = IF args[2] = "nothing" THEN I ELSE Restored
    /\ place' = IF args[2] = "nothing" THEN "idle" ELSE "load"
    /\ args' = IF args[2] = "nothing" THEN NoArg ELSE args
    /\ UNCHANGED <<EICRA, EIMSK, spi, tmp, inTx, asked, torn>>

LoadMode ==
    /\ place = "load" /\ tmp' = EICRA
    /\ place' = "store"
    /\ UNCHANGED <<ext, I, spi, args, inTx, asked, torn>>

\* (EICRA & ~bits) | mode
SetBits(old, mode) == mode

StoreMode ==
    /\ place = "store"
    /\ EICRA' = [tmp EXCEPT ![args[1]] = SetBits(@, args[3])]
    /\ modes' = [modes EXCEPT ![args[1]] = args[3]] /\ lost' = lost \ {args[1]}
    /\ tmp' = [i \in INTS |-> {}] /\ place' = "enable"
    /\ UNCHANGED <<EIMSK, intFunc, I, spi, args, inTx, attached, registered,
                   want, undone, torn>>

EnableInt ==
    /\ place = "enable"
    /\ EIMSK' = EIMSK \union {args[1]} /\ attached' = attached \union {args[1]}
    /\ undone' = Asks(args[1])
    /\ place' = "idle" /\ args' = NoArg
    /\ UNCHANGED <<EICRA, intFunc, I, spi, tmp, inTx, modes, registered,
                   want, lost, torn>>

\* The callback is taken away after the interrupt, with interrupts on.
detachInterrupt(i) ==
    /\ Idle
    /\ EIMSK' = EIMSK \ {i} /\ attached' = attached \ {i} /\ undone' = Asks(i)
    /\ args' = <<i, "nothing", {}>>
    /\ StoreLow(i, "nothing") /\ place' = "high"
    /\ UNCHANGED <<EICRA, I, spi, tmp, inTx,
                   modes, registered, want, lost, torn>>

-----------------------------------------------------------------------------
(* SPI: registration and transactions, each with interrupts off *)

SpiIdle == Idle /\ ~inTx
SpiCall == UNCHANGED <<ext, I, place, args, tmp, inTx, attached, modes,
                       want, undone, lost, torn>>

spiBegin ==
    /\ SpiIdle /\ initialized < 2  \* bound: two libraries
    /\ initialized' = initialized + 1
    /\ UNCHANGED <<interruptMode, interruptMask, interruptSave, intruded, registered>> /\ SpiCall

SpiCallbacks == {i \in INTS : i \in EIMSK /\ intFunc[i] = Both("spi")}

EveryEnd == TRUE
\* The last end() forgets the mode, but not the mask.
LastEnd == initialized = 1

spiEnd ==
    /\ SpiIdle /\ initialized > 0
    /\ initialized = 1 => SpiCallbacks = {}
    /\ initialized' = initialized - 1
    /\ interruptMode' = IF LastEnd THEN 0 ELSE interruptMode
    /\ registered' = IF initialized = 1 THEN {} ELSE registered
    /\ UNCHANGED <<interruptMask, interruptSave, intruded>> /\ SpiCall

usingInterrupt(n) ==
    /\ SpiIdle /\ initialized > 0
    /\ interruptMask' = interruptMask \union ({n} \intersect INTS)
    /\ interruptMode' = IF n \notin INTS THEN 2 ELSE IF interruptMode = 0 THEN 1 ELSE interruptMode
    /\ registered' = registered \union {n}
    /\ UNCHANGED <<initialized, interruptSave, intruded>> /\ SpiCall

notUsingInterrupt(n) ==
    /\ SpiIdle /\ n \in registered /\ n \in INTS
    /\ n \in SpiCallbacks => 255 \in registered
    /\ IF interruptMode = 2
       THEN UNCHANGED <<interruptMode, interruptMask>>
       ELSE /\ interruptMask' = interruptMask \ {n}
            /\ interruptMode' = IF interruptMask' = {} THEN 0 ELSE interruptMode
    /\ registered' = registered \ {n}
    /\ UNCHANGED <<initialized, interruptSave, intruded>> /\ SpiCall

\* Bit 7 of SREG is I; the other bits do not matter here.
SREG == IF I THEN {7} ELSE {}

beginTransaction ==
    /\ SpiIdle /\ initialized > 0
    /\ IF interruptMode = 1
       THEN interruptSave' = EIMSK /\ EIMSK' = EIMSK \ interruptMask /\ I' = I
       ELSE IF interruptMode = 2
       THEN interruptSave' = SREG /\ EIMSK' = EIMSK /\ I' = FALSE
       ELSE UNCHANGED <<interruptSave, EIMSK, I>>
    /\ intruded' = FALSE /\ inTx' = TRUE
    /\ UNCHANGED <<EICRA, intFunc, initialized, interruptMode, interruptMask,
                   place, args, tmp, asked, torn>>

endTransaction ==
    /\ Idle /\ inTx
    /\ EIMSK' = IF interruptMode = 1 THEN interruptSave ELSE EIMSK
    /\ I' = IF interruptMode = 2 THEN 7 \in interruptSave ELSE I
    /\ inTx' = FALSE /\ intruded' = FALSE
    /\ interruptSave' = {}  \* not read again before it is stored
    /\ UNCHANGED <<EICRA, intFunc, initialized, interruptMode, interruptMask, place, args, tmp, asked, torn>>

-----------------------------------------------------------------------------
(* The handlers, and what callbacks do *)

\* A transaction of one byte, inside the handler.
UsesBus ==
    /\ interruptSave' = CASE ~inTx -> {}
                         [] interruptMode = 1 -> EIMSK
                         [] interruptMode = 2 -> {}
                         [] OTHER -> interruptSave
    /\ intruded' = inTx
    /\ UNCHANGED <<EICRA, EIMSK, intFunc, attached, modes, undone, lost>>

\* It attaches itself again, with any mode.
Flips(i) ==
    /\ \E mode \in Triggers :
            EICRA' = [EICRA EXCEPT ![i] = mode] /\ modes' = [modes EXCEPT ![i] = mode]
    /\ EIMSK' = EIMSK \union {i} /\ attached' = attached \union {i} /\ undone' = Asks(i)
    /\ lost' = IF place = "store" /\ args[1] # i THEN lost \union {i} ELSE lost \ {i}
    /\ UNCHANGED <<intFunc, interruptSave, intruded>>

\* It detaches itself.
Detaches(i) ==
    /\ EIMSK' = EIMSK \ {i} /\ attached' = attached \ {i} /\ undone' = Asks(i)
    /\ intFunc' = [intFunc EXCEPT ![i] = Both("nothing")]
    /\ UNCHANGED <<EICRA, interruptSave, intruded, modes, lost>>

INT(i) ==
    /\ I /\ i \in EIMSK
    /\ torn' = (torn \/ intFunc[i][1] # intFunc[i][2])
    /\ CASE intFunc[i] = Both("spi")  -> UsesBus
         [] intFunc[i] = Both("flip") -> Flips(i)
         [] intFunc[i] = Both("once") -> Detaches(i)
         [] OTHER -> UNCHANGED <<ext, interruptSave, intruded, attached, modes, undone, lost>>
    /\ UNCHANGED <<I, initialized, interruptMode, interruptMask, place, args, tmp, inTx, registered, want>>

\* noInterrupts() and interrupts(), outside of transactions
Interrupts(on) ==
    /\ SpiIdle /\ I # on /\ I' = on /\ want' = on
    /\ UNCHANGED <<ext, spi, place, args, tmp, inTx, attached, modes,
                   registered, undone, lost, torn>>

Calls ==
    \/ \E i \in INTS : detachInterrupt(i) \/ \E f \in Callbacks, mode \in Triggers : attachInterrupt(i, f, mode)
    \/ spiBegin \/ spiEnd \/ beginTransaction \/ endTransaction
    \/ \E n \in Numbers : usingInterrupt(n) \/ notUsingInterrupt(n)
    \/ \E on \in BOOLEAN : Interrupts(on)

MaskNext ==
    \/ Calls \/ StoreHigh \/ LoadMode \/ StoreMode \/ EnableInt
    \/ \E i \in INTS : INT(i)
=============================================================================
