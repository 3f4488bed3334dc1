----------------------------- MODULE ChipProps ------------------------------
(***************************************************************************)
(* What the bootloader, and an application that writes flash, promise of   *)
(* the flash, with a reset at any step and a programmer that may stop, and *)
(* what a sleep promises, with interrupts at any step.                     *)
(***************************************************************************)
EXTENDS Chip

\* Every variable has its type.
TypeOK ==
    /\ address \in 0..PAGES * BLOCKS - 1 /\ w \in 0..WORDS - 1 /\ pmask \subseteq 0..PAGES - 1
    /\ start_ \in 0..SIZE /\ end_ \in 0..SIZE /\ EEAR \in 0..SIZE - 1
    /\ {running, o_reg, wanted} \subseteq [Registers -> BOOLEAN] /\ overridden \subseteq Registers

\* The block that holds the vectors has been erased, and its first word not yet written.
Opening == pc \in {"space", "write"} /\ address = 0 /\ w = 0

\* The reset vector leads to the bootloader, whatever image is uploaded and wherever the
\* upload stops, but for the moments after page 0 is erased (optiboot.c:561); a reset then
\* leaves the chip without a bootloader.
VectorKept == astray \/ flash[0] = Boot \/ Opening \/ pc = "lost"

\* A complete upload holds until a page is erased again: no block of it is lost to the
\* erase of its page, to a later reset, or to an application within its own pages.
ImageKept == ~astray /\ installed # NoImage => Holds(flash, installed.image, installed.size)

\* Nothing changes the bootloader, unless a handler diverted an operation of FlashIAP.
BootKept == astray \/ \A k \in BOOT * pageWords..SIZE_ - 1 : flash[k] = Boot

\* Every block is read back as it was sent, although the vectors are stored patched.
ReadsAsSent == ~mismatch

\* What was uploaded stays and can be read back, and the chip keeps a way to upload again.
UploadKept == VectorKept /\ ImageKept /\ ReadsAsSent

\* An operation of FlashIAP reaches words of the armed region that the program may use,
\* and no others, also after the limit shrank; but where the limit is below the address,
\* programLimit() - address wraps (flash_iap.h:37), and where a handler set EEAR after
\* the call did, it goes there.
InsideRegion == iap = "set" /\ ~diverted => Reached \subseteq Own \/ programLimit < target.at

\* An application that writes flash stays within its region and off the bootloader.
RegionKept == InsideRegion /\ BootKept

\* After the last reset the application runs, whatever the programmer left out, unless
\* the reset vector was lost.
AppStarts == shown = "flash" /\ pc \notin {"app", "lost"} ~> pc \in {"app", "lost"}

\* When a sleep returns, all that the program had switched on is on, and nothing else,
\* but for what a handler switched during the call and the call put back (README).
Restored == step = "awake" => \A r \in Registers \ overridden : running[r] = wanted[r]

\* The watchdog never elapses with interrupts on, nor runs on after the sleep: the
\* library has no vector for it, so that its interrupt would restart the program.
NoVector == enabled => ~elapsed /\ (step = "awake" => ~wdt)

\* While handlers and the sketch run, the regulator supplies the core, and the
\* low-voltage detector watches, although the last thing before a sleep stops them.
Supplied == enabled => ldo /\ running["VDTCR"]

\* A sleep is safe to take and to wake from, whatever interrupt comes at whatever step.
SleepSafe == Restored /\ NoVector /\ Supplied

\* A sleep with a period ends, whether an interrupt comes or not.
SleepEnds == step = "asleep" /\ nap.timed ~> step = "awake"

\* Neither a reset nor a sleep is the last thing the chip does.
GoesOn == AppStarts /\ SleepEnds
=============================================================================
