------------------------------ MODULE Optiboot ------------------------------
(***************************************************************************)
(* The bootloader of the LGT8F328P, bootloaders/lgt8fx8p/optiboot.c, with  *)
(* the virtual boot partition: it keeps the reset vector for itself and    *)
(* the application's in the vector of the watchdog.  A programmer          *)
(* (external) uploads images; it may fall silent, and the chip may be      *)
(* reset, at any step.                                                     *)
(***************************************************************************)
EXTENDS Integers, FiniteSets

CONSTANTS
    PAGES,     \* pages of flash, which are erased whole (code: 32)
    BLOCKS,    \* blocks of a page, which are uploaded whole (code: 8)
    WORDS,     \* words of a block (code: 32)
    WDT,       \* the word of the watchdog's vector (code: 6)
    BOOT,      \* the page where the bootloader begins (code: 29)
    Images,    \* what may be uploaded
    Sizes,     \* their sizes, in blocks: below BOOT (upload.maximum_size)
    MaxResets  \* bound: resets by pin or by power

ASSUME BootAssumption ==
    /\ PAGES \in Nat /\ BLOCKS \in Nat \ {0} /\ WORDS \in Nat /\ BOOT \in 1..PAGES - 1
    /\ WDT \in 1..WORDS - 1 /\ MaxResets \in Nat
    /\ Sizes \subseteq 1..BOOT * BLOCKS
    /\ \E size \in Sizes : \A other \in Sizes : other <= size

VARIABLES
    flash,        \* word by word: of which image it is, and which of its words
    rstVect,      \* RAM: the application's reset vector, and with it that of the watchdog
    MCUSR,        \* the cause of the last reset
    pc,           \* where the bootloader is; "app" when it is not running
    address, w,   \* the block, and the word being written
    pmask,        \* pages erased in this session
    host,         \* the programmer: what it does, its image, its size, and the next block
    resets,
    installed,    \* history: the image of the last upload that was completed, if
                  \* nothing was erased since
    mismatch      \* history: a block was read back other than it was sent

bootVars == <<flash, rstVect, MCUSR, pc, address, w, pmask, host, resets, installed, mismatch>>

pageWords == BLOCKS * WORDS
SIZE_     == PAGES * pageWords
Blank     == <<"blank", 0>>
Boot      == <<"boot", 0>>
Silent    == [does |-> "nothing", image |-> "none", size |-> 0, next |-> 0]
NoImage   == [image |-> "none", size |-> 0]

\* The flash with an image of some blocks: its reset vector is moved.
Word(v, k) == IF k = 0 THEN Boot ELSE IF k = WDT THEN <<v, 0>> ELSE <<v, k>>
Holds(f, v, size) == \A k \in 0..size * WORDS - 1 : f[k] = Word(v, k)

BootInit ==
    \E v \in Images, size \in Sizes :
      /\ flash = [k \in 0..SIZE_ - 1 |-> IF k < size * WORDS THEN Word(v, k)
                                         ELSE IF k < BOOT * pageWords THEN Blank ELSE Boot]
      /\ rstVect = "unknown" /\ MCUSR = "power" /\ pc = "start"
      /\ address = 0 /\ w = 0 /\ pmask = {} /\ host = Silent /\ resets = 0
      /\ installed = [image |-> v, size |-> size] /\ mismatch = FALSE

-----------------------------------------------------------------------------
(* Resets, and what the first code does about them *)

\* The chip runs from word 0.  Without the jump to the bootloader it is lost.
ResetBy(cause) ==
    /\ MCUSR' = cause
    /\ rstVect' = IF cause = "power" THEN "unknown" ELSE rstVect
    /\ pc' = IF flash[0] = Boot THEN "start" ELSE "lost"
    /\ address' = 0 /\ w' = 0 /\ pmask' = {} /\ host' = Silent
    /\ UNCHANGED <<flash, installed, mismatch>>

Reset ==
    /\ pc # "lost" /\ resets < MaxResets /\ resets' = resets + 1
    /\ \E cause \in {"power", "pin"} : ResetBy(cause)

\* No byte for 32 ms, or one that verifySpace() does not accept
Watchdog ==
    /\ pc \in {"getch", "space"}
    /\ ResetBy("watchdog") /\ resets' = resets

Opens == MCUSR = "pin"

\* Only the reset pin opens a session; a programmer may have pulled it.
Start ==
    /\ pc = "start"
    /\ MCUSR' = "none"
    /\ IF Opens
       THEN /\ pc' = "getch" /\ pmask' = {}
            /\ \/ host' = Silent
               \/ \E v \in Images, size \in Sizes :
                    host' = [does |-> "write", image |-> v, size |-> size, next |-> 0]
       ELSE pc' = "app" /\ UNCHANGED <<pmask, host>>
    /\ UNCHANGED <<flash, rstVect, address, w, resets, installed, mismatch>>

-----------------------------------------------------------------------------
(* Programming: STK_LOAD_ADDRESS and STK_PROG_PAGE *)

Receive ==
    /\ pc = "getch" /\ host.does = "write"
    /\ address' = host.next /\ pc' = "erase"
    /\ UNCHANGED <<flash, rstVect, MCUSR, w, pmask, host, resets, installed, mismatch>>

EveryBlock(page) == TRUE
\* The first block of each page erases it, before the end of the command is seen.
Erases(page) == page \notin pmask

Erase ==
    /\ pc = "erase" /\ pc' = "space"
    /\ LET page == address \div BLOCKS IN
       IF Erases(page)
       THEN /\ flash' = [k \in DOMAIN flash |-> IF k \div pageWords = page THEN Blank ELSE flash[k]]
            /\ pmask' = pmask \union {page} /\ installed' = NoImage
       ELSE UNCHANGED <<flash, pmask, installed>>
    /\ UNCHANGED <<rstVect, MCUSR, address, w, host, resets, mismatch>>

\* The reset vector is replaced in the buffer, once the whole command is there.
VerifySpace ==
    /\ pc = "space" /\ pc' = "write" /\ w' = 0
    /\ rstVect' = IF address = 0 THEN host.image ELSE rstVect
    /\ UNCHANGED <<flash, MCUSR, address, pmask, host, resets, installed, mismatch>>

Buffered(k) == Word(host.image, k)

\* Bits can only be cleared.
Program(old, new) == IF old \in {Blank, new} THEN new ELSE <<"bad", 0>>

Written(h) == IF h.next + 1 < h.size THEN [h EXCEPT !.next = @ + 1] ELSE [h EXCEPT !.does = "read", !.next = 0]

AtEnd == w = WORDS
LastWord == w + 1 = WORDS

WriteWord ==
    /\ pc = "write"
    /\ LET k == address * WORDS + w IN flash' = [flash EXCEPT ![k] = Program(@, Buffered(k))]
    /\ IF ~LastWord
       THEN w' = w + 1 /\ UNCHANGED <<pc, host, installed>>
       ELSE /\ w' = 0 /\ pc' = "getch" /\ host' = Written(host)
            /\ installed' = IF host'.does = "read" THEN [image |-> host.image, size |-> host.size]
                            ELSE installed
    /\ UNCHANGED <<rstVect, MCUSR, address, pmask, resets, mismatch>>

-----------------------------------------------------------------------------
(* Reading back, and leaving *)

\* STK_READ_PAGE undoes the patch with what it remembers.
ReadBack(k) == IF k \in {0, WDT} THEN <<rstVect, k>> ELSE flash[k]

ReadBlock ==
    /\ pc = "getch" /\ host.does = "read"
    /\ address' = host.next
    /\ mismatch' = (mismatch \/ \E k \in host.next * WORDS..(host.next + 1) * WORDS - 1 :
                                   ReadBack(k) # <<host.image, k>>)
    /\ host' = IF host.next + 1 < host.size THEN [host EXCEPT !.next = @ + 1]
               ELSE [host EXCEPT !.does = "leave"]
    /\ UNCHANGED <<flash, rstVect, MCUSR, pc, w, pmask, resets, installed>>

\* STK_LEAVE_PROGMODE sets the watchdog to 16 ms; nothing more is sent.
Leave ==
    /\ pc = "getch" /\ host.does = "leave"
    /\ host' = Silent
    /\ UNCHANGED <<flash, rstVect, MCUSR, pc, address, w, pmask, resets, installed, mismatch>>

InBootloader == Start \/ Receive \/ Erase \/ VerifySpace \/ WriteWord \/ ReadBlock \/ Leave
=============================================================================
