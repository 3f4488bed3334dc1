------------------------------ MODULE FlashIAP ------------------------------
(***************************************************************************)
(* libraries/LGT8Unlocked/src/lgt/flash_iap.h: an application erases and   *)
(* writes its own flash inside a region it has armed, on a build without   *)
(* the recovery-safe gate.  Addresses count words of 32 bits.              *)
(***************************************************************************)
EXTENDS Integers

CONSTANTS
    SIZE,     \* words of flash
    PAGE,     \* words of a page (code: 256)
    WRAP,     \* addresses are numbers modulo WRAP
    Limits,   \* the values of programLimit(), as ECCR sets them
    Addresses \* bound: the addresses that the application gives

ASSUME IapAssumption ==
    /\ SIZE \in Nat /\ PAGE \in Nat \ {0} /\ WRAP \in Nat /\ SIZE <= WRAP
    /\ Limits \subseteq 0..SIZE /\ Addresses \subseteq 0..SIZE

VARIABLES
    start_, end_, armed_,
    programLimit,       \* what ECCR gives
    EEAR,               \* the address register, which EEPROM accesses use too
    iap, target,        \* the call: its place, and its operation and address
    diverted            \* history: a handler set EEAR between the call's store and its use

region  == <<start_, end_, armed_, programLimit>>
iapVars == <<region, EEAR, iap, target, diverted>>

IapInit ==
    /\ start_ = 0 /\ end_ = 0 /\ armed_ = FALSE
    /\ programLimit \in Limits
    /\ EEAR = 0 /\ iap = "idle" /\ target = [op |-> "none", at |-> 0]
    /\ diverted = FALSE

writableRegion(s, e) ==
    /\ iap = "idle"
    /\ IF s >= e \/ e > programLimit
       THEN UNCHANGED <<start_, end_, armed_>>
       ELSE start_' = s /\ end_' = e /\ armed_' = TRUE
    /\ UNCHANGED <<programLimit, EEAR, iap, target, diverted>>

lock ==
    /\ iap = "idle" /\ armed_' = FALSE
    /\ UNCHANGED <<start_, end_, programLimit, EEAR, iap, target, diverted>>

\* The program gives the emulated EEPROM another size.
ResizeEEPROM(limit) ==
    /\ iap = "idle" /\ limit # programLimit
    /\ programLimit' = limit
    /\ UNCHANGED <<start_, end_, armed_, EEAR, iap, target, diverted>>

Size(op) == IF op = "erase" THEN PAGE ELSE 1

StartOnly(at, words) == armed_ /\ at >= start_ /\ at < end_
\* Both differences are 16 bits wide.
allowed(at, words) ==
    /\ armed_ /\ at >= start_ /\ at < end_
    /\ words <= (end_ - at) % WRAP
    /\ words <= (programLimit - at) % WRAP

\* erasePage(), of a page, and write32()
Operate(op, at) ==
    /\ iap = "idle"
    /\ op = "erase" => at % PAGE = 0
    /\ IF allowed(at, Size(op))
       THEN iap' = "allowed" /\ target' = [op |-> op, at |-> at] /\ diverted' = FALSE
       ELSE UNCHANGED <<iap, target, diverted>>
    /\ UNCHANGED <<region, EEAR>>

\* EEARH and EEARL: a handler between them diverts the operation as one after them does.
SetAddress ==
    /\ iap = "allowed" /\ EEAR' = target.at
    /\ iap' = "set"
    /\ UNCHANGED <<region, target, diverted>>

\* The page of EEAR, or its word
Reached == IF target.op = "erase" THEN {a \in 0..SIZE - 1 : a \div PAGE = EEAR \div PAGE} ELSE {EEAR}
Own == {a \in start_..end_ - 1 : a < programLimit}

\* issue(): NotReady, or the operation; interrupts are off from the unlock on.
Issue ==
    /\ iap = "set"
    /\ iap' = "idle" /\ target' = [op |-> "none", at |-> 0]
    /\ UNCHANGED <<region, EEAR, diverted>>

\* A handler reads or writes the EEPROM.
HandlerSetsEEAR(a) ==
    /\ EEAR' = a /\ a # EEAR
    /\ diverted' = (diverted \/ iap = "set")
    /\ UNCHANGED <<region, iap, target>>
=============================================================================
