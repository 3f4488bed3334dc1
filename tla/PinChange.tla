----------------------------- MODULE PinChange ------------------------------
(***************************************************************************)
(* The pin-change table of libraries/LGT8Unlocked/src/lgt/arduino_ext.cpp: *)
(* pinChangeAttach(), pinChangeDetach(), and the handler, whose callbacks  *)
(* may call both.  The pins are of one group; they change at any time.     *)
(***************************************************************************)
EXTENDS Integers, Sequences, SequencesExt

CONSTANTS
    Pins,      \* pins of the group
    SLOTS,     \* entries of the table (code: 8)
    Modes      \* bound: the modes that are asked for

CHANGE  == 0
RISING  == 1
FALLING == 2

ASSUME PinAssumption == SLOTS \in Nat \ {0} /\ Modes \subseteq {CHANGE, RISING, FALLING}

VARIABLES
    table,       \* pcint_pins, _mode, _cb and _last, as pcint_count records
    PCMSK, PCIF, \* the pins that interrupt, and the pending interrupt
    level,       \* the pins
    i, cb,       \* the handler's index (0 outside of it), and the callback it calls
    adding,      \* pins whose entry pinChangeAttach() has made, but not their mask
    unseen,      \* history: pins that changed, and no entry of theirs was looked at since
    excused,     \* history: of these, the ones whose interrupt was masked, or passed over
    wrong        \* history: a callback ran for no edge, or an edge of its mode ran none

pinVars == <<table, PCMSK, PCIF, level, i, cb, adding, unseen, excused, wrong>>

Actions == {"plain", "detach", "attach"}  \* what a callback does

PinInit ==
    /\ table = <<>> /\ PCMSK = {} /\ PCIF = FALSE
    /\ level = [p \in Pins |-> FALSE] /\ i = 0 /\ cb = "plain" /\ adding = {}
    /\ unseen = {} /\ excused = {} /\ wrong = FALSE

Slots(p) == {k \in DOMAIN table : table[k].pin = p}
Attached == {table[k].pin : k \in DOMAIN table}

-----------------------------------------------------------------------------
(* pinChangeAttach() and pinChangeDetach(), interrupts off.  A pin may change *)
(* after the first has read it and before its interrupt is unmasked.          *)

Seen(p) == unseen' = unseen \ {p} /\ excused' = excused \ {p}

pinChangeAttach(p, mode, f) ==
    LET entry == [pin |-> p, mode |-> mode, cb |-> f, last |-> level[p]] IN
    IF p \in Attached
    THEN /\ table' = [k \in DOMAIN table |-> IF k \in Slots(p) THEN entry ELSE table[k]]
         /\ Seen(p) /\ UNCHANGED adding
    ELSE IF Len(table) = SLOTS
    THEN UNCHANGED <<table, adding, unseen, excused>>
    ELSE /\ table' = Append(table, entry)
         /\ adding' = {p} /\ Seen(p)

Unmask ==
    /\ adding # {}
    /\ PCMSK' = PCMSK \union adding /\ adding' = {}
    /\ UNCHANGED <<table, PCIF, level, i, cb, unseen, excused, wrong>>

\* The mode and the callback move, but not the level.
Move(k, last) == last

\* The last entry moves into the freed slot: the handler at entry i has passed it.
pinChangeDetach(p) ==
    IF p \notin Attached
    THEN UNCHANGED <<table, PCMSK, unseen, excused>>
    ELSE LET k == CHOOSE s \in Slots(p) : TRUE
             moved == table[Len(table)].pin
         IN  /\ table' = Front([table EXCEPT ![k] = Move(k, table[Len(table)])])
             /\ PCMSK' = PCMSK \ {p}
             /\ unseen' = unseen \ {p}
             /\ excused' = (IF k <= i /\ i < Len(table) THEN excused \union ({moved} \intersect unseen)
                            ELSE excused) \ {p}

SketchAttach(p, mode, f) ==
    /\ i = 0 /\ adding = {}
    /\ pinChangeAttach(p, mode, f)
    /\ UNCHANGED <<PCMSK, PCIF, level, i, cb, wrong>>

SketchDetach(p) ==
    /\ i = 0 /\ adding = {}
    /\ pinChangeDetach(p)
    /\ UNCHANGED <<PCIF, level, i, cb, adding, wrong>>

-----------------------------------------------------------------------------
(* The pins and the handler *)

Toggle(p) ==
    /\ level' = [level EXCEPT ![p] = ~@]
    /\ PCIF' = (PCIF \/ p \in PCMSK)
    /\ unseen' = (unseen \ {p}) \union ({p} \ unseen)
    /\ excused' = (excused \ {p}) \union (({p} \ unseen) \ PCMSK)
    /\ UNCHANGED <<table, PCMSK, i, cb, adding, wrong>>

pcint_handle ==
    /\ PCIF /\ i = 0 /\ adding = {}
    /\ PCIF' = FALSE
    /\ i' = 1
    /\ UNCHANGED <<table, PCMSK, level, cb, adding, unseen, excused, wrong>>

Fires(e, st) ==
    CASE e.mode = CHANGE  -> st # e.last
      [] e.mode = RISING  -> st /\ ~e.last
      [] e.mode = FALLING -> ~st /\ e.last

\* An edge of the entry's mode, seen from outside
Due(e) ==
    /\ e.pin \in unseen
    /\ CASE e.mode = CHANGE -> TRUE [] e.mode = RISING -> level[e.pin] [] e.mode = FALLING -> ~level[e.pin]

Looks(e) == level[e.pin]

\* One round of the loop, without what its callback does.
Look(e) ==
    /\ table' = [table EXCEPT ![i] = [e EXCEPT !.last = Looks(e)]]
    /\ wrong' = (wrong \/ (Fires(e, level[e.pin]) # Due(e)))
    /\ Seen(e.pin)

Round ==
    /\ 0 < i /\ i <= Len(table) /\ cb = "plain" /\ adding = {}
    /\ Look(table[i])
    /\ IF Fires(table[i], level[table[i].pin]) /\ table[i].cb # "plain"
       THEN cb' = table[i].cb /\ i' = i
       ELSE cb' = cb /\ i' = i + 1
    /\ UNCHANGED <<PCMSK, PCIF, level, adding>>

\* The callback detaches its pin, or attaches one; the loop then goes on.
Callback ==
    /\ cb # "plain"
    /\ IF cb = "detach"
       THEN pinChangeDetach(table[i].pin) /\ adding' = adding
       ELSE /\ \E p \in Pins, mode \in Modes : pinChangeAttach(p, mode, "plain")
            /\ PCMSK' = PCMSK
    /\ cb' = "plain" /\ i' = i + 1
    /\ UNCHANGED <<PCIF, level, wrong>>

AtLast == i >= Len(table)
Past   == i > Len(table)

HandlerDone ==
    /\ i > 0 /\ Past /\ cb = "plain" /\ adding = {}
    /\ i' = 0
    /\ UNCHANGED <<table, PCMSK, PCIF, level, cb, adding, unseen, excused, wrong>>

PinNext ==
    \/ \E p \in Pins : SketchDetach(p) \/ Toggle(p)
    \/ \E p \in Pins, mode \in Modes, f \in Actions : SketchAttach(p, mode, f)
    \/ Unmask \/ pcint_handle \/ Round \/ Callback \/ HandlerDone
=============================================================================
