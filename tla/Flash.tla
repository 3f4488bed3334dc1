------------------------------- MODULE Flash --------------------------------
(***************************************************************************)
(* The flash of the chip and those who change it: the bootloader, which    *)
(* uploads applications, and an application that uses FlashIAP for pages   *)
(* of its own beyond the largest image and below the bootloader.           *)
(***************************************************************************)
EXTENDS Optiboot, FlashIAP

ASSUME FlashAssumption == SIZE = SIZE_ /\ PAGE = pageWords

VARIABLE astray   \* history: a diverted operation was carried out

flashVars == <<bootVars, iapVars, astray>>

FlashInit == BootInit /\ IapInit /\ astray = FALSE

Largest == CHOOSE size \in Sizes : \A other \in Sizes : other <= size

\* The caller's part: no code, no vectors, no bootloader in the region.
Gate(s, e) == s >= Largest * WORDS /\ e <= BOOT * pageWords /\ writableRegion(s, e)

\* E2PD0 .. 3 and EECR: what an operation of FlashIAP does to the flash
Changed(k) ==
    IF k \notin Reached THEN flash[k]
    ELSE IF target.op = "erase" THEN Blank ELSE Program(flash[k], <<"data", 0>>)

IssueOnFlash ==
    /\ Issue
    /\ \/ /\ flash' = [k \in DOMAIN flash |-> Changed(k)]
          /\ astray' = (astray \/ diverted)
       \/ UNCHANGED <<flash, astray>>  \* NotReady
    /\ UNCHANGED <<rstVect, MCUSR, pc, address, w, pmask, host, resets, installed, mismatch>>

Calls ==
    \/ \E s, e \in Addresses : Gate(s, e)
    \/ lock \/ (\E limit \in Limits : ResizeEEPROM(limit))
    \/ \E at \in Addresses \ {SIZE}, op \in {"erase", "write"} : Operate(op, at)
    \/ SetAddress \/ HandlerSetsEEAR(0)

Application == pc = "app" /\ (IssueOnFlash \/ (Calls /\ UNCHANGED <<bootVars, astray>>))

\* A reset forgets what was armed.
Restart ==
    /\ Reset /\ astray' = astray
    /\ start_' = 0 /\ end_' = 0 /\ armed_' = FALSE /\ programLimit' \in Limits
    /\ EEAR' = 0 /\ iap' = "idle" /\ target' = [op |-> "none", at |-> 0] /\ diverted' = FALSE

Booting == (Watchdog \/ InBootloader) /\ UNCHANGED <<iapVars, astray>>

FlashNext == Restart \/ Booting \/ Application
=============================================================================
