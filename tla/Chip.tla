-------------------------------- MODULE Chip --------------------------------
(***************************************************************************)
(* What the watchdog ends: a session of the bootloader, with the flash     *)
(* that it and the application write, and a sleep.  The two parts share no *)
(* state: each behaviour shows the steps of one.                           *)
(***************************************************************************)
EXTENDS Flash, LowPower

VARIABLE shown   \* the part whose steps this behaviour shows

chipVars == <<shown, flashVars, sleepVars>>

\* A sleep does not depend on what the flash holds: one case of it will do.
SomeFlash ==
    /\ installed = [image |-> CHOOSE v \in Images : TRUE, size |-> Largest]
    /\ programLimit = CHOOSE limit \in Limits : TRUE

ChipInit ==
    /\ shown \in {"flash", "sleep"} /\ FlashInit /\ SleepInit
    /\ shown = "sleep" => SomeFlash

ChipNext ==
    /\ UNCHANGED shown
    /\ \/ shown = "flash" /\ FlashNext /\ UNCHANGED sleepVars
       \/ shown = "sleep" /\ SleepNext /\ UNCHANGED flashVars

Shows(part) == shown = part

\* The bootloader and a sleep that has begun run on, and the watchdog does.
ChipSpec ==
    /\ ChipInit /\ [][ChipNext]_chipVars
    /\ WF_flashVars(Shows("flash") /\ Booting)
    /\ WF_sleepVars(Shows("sleep") /\ InNap) /\ WF_sleepVars(Shows("sleep") /\ Timeout)
=============================================================================
