------------------------------- MODULE E2PROM -------------------------------
(***************************************************************************)
(* The emulated EEPROM of libraries/E2PROM (LGT8F328P): the calls of       *)
(* EEPROM.cpp and of the Arduino class in EEPROM.h, over a controller that *)
(* programs one byte at a time, with loss of power at any moment and an    *)
(* interrupt handler that owns the EERIE bit.                              *)
(*                                                                         *)
(* A page of PAGE bytes keeps its last bytes for the controller and FREE   *)
(* for the user.  The bytes of a call are told apart by the number of the  *)
(* call and their place in it.  A call that is refused returns at once,    *)
(* having changed nothing, and is no step.                                 *)
(***************************************************************************)
EXTENDS Integers, Sequences

CONSTANTS
    PAGE,     \* 1024
    FREE,     \* lgt_eeprom_free_space_per_1KB_page(), 1020
    WORD,     \* bytes of a native access, 4
    U16,      \* 2^16, where 16-bit arithmetic wraps
    Asked,    \* what the sketch may pass to change_size()
    Safe,     \* LGT8_UNLOCKED_RECOVERY_SAFE: a subset of BOOLEAN
    MaxCalls, \* bound on the calls of the sketch
    MaxPut    \* bound on the size of an object for put() and get()

ASSUME PageAssumption == /\ PAGE \in Nat /\ FREE \in Nat /\ WORD \in Nat /\ U16 \in Nat
                         /\ 0 < WORD /\ 0 < FREE /\ FREE < PAGE /\ PAGE <= U16
                         /\ \A n \in Asked \intersect {2, 4, 8} : n * PAGE <= U16
ASSUME WordAssumption == FREE % WORD = 0 /\ PAGE % WORD = 0
ASSUME UseAssumption  == /\ Asked \subseteq Nat /\ Safe \subseteq BOOLEAN
                         /\ MaxCalls \in Nat /\ MaxPut \in Nat
\* An object is in RAM, of 2 KB, so it never reaches around the addresses into the partition twice.
ASSUME PutAssumption  == \A n \in {1} \union (Asked \intersect {2, 4, 8}) : n * FREE + MaxPut <= U16

VARIABLES
    \* ECCR as the number of pages, and the cells it maps
    pages, cells,
    \* the controller: EEAR, EEDR, EEPE, EERIE
    eear, eedr, busy, eerie,
    \* the sketch: program counter, what is left of its call, register copy of EERIE
    pc, todo, flags,
    \* what the current or last read returned, and from where; calls made
    from, got, calls

controller == <<eear, eedr, busy>>
vars == <<pages, cells, controller, eerie, pc, todo, flags, from, got, calls>>

(***************************************************************************)
(* Sizes and addresses                                                     *)
(***************************************************************************)

\* lgt_eeprom_init(): 0, 2, 4 or 8 pages, anything else is one.
Partition(asked, safe) ==
    LET n == IF safe THEN 1 ELSE asked IN IF n \in {0, 2, 4, 8} THEN n ELSE 1

LogicalSize  == FREE * pages
PhysicalSize == PAGE * pages

AccessibleLastCellToo(a, real) ==
    IF real THEN a < PhysicalSize ELSE a < LogicalSize

\* lgt_eeprom_address_is_user_accessible()
Accessible(a, real) ==
    IF real THEN a < PhysicalSize /\ a % PAGE < FREE ELSE a < LogicalSize

RangeWraps(a, n, real) ==
    n = 0 \/ /\ Accessible(a, real)
             /\ IF real THEN ((a % PAGE) + n) % U16 <= FREE ELSE (a + n) % U16 <= LogicalSize

\* lgt_eeprom_range_is_user_accessible()
Range(a, n, real) ==
    n = 0 \/ /\ Accessible(a, real)
             /\ IF real THEN n <= PhysicalSize - a /\ n <= FREE - (a % PAGE)
                        ELSE n <= LogicalSize - a

\* lgt_eeprom_valid_word_range(), the product in 32 bits
WordRange(a, words) ==
    words = 0 \/ (a % WORD = 0 /\ a < LogicalSize /\ words * WORD <= LogicalSize - a)

\* lgt_eeprom_continuous_address_to_real_address()
RealAddress(a) == IF a >= FREE THEN PAGE * (a \div FREE) + (a % FREE) ELSE a

Cell(a, real) == IF real THEN a ELSE RealAddress(a)

Init ==
    /\ \E asked \in Asked, safe \in Safe : pages = Partition(asked, safe)
    /\ cells = [x \in 0 .. PhysicalSize - 1 |-> 0]
    /\ eear = 0 /\ eedr = 0 /\ busy = FALSE /\ eerie = FALSE
    /\ pc = "idle" /\ todo = [op |-> "none", at |-> 0, real |-> FALSE, data |-> <<>>]
    /\ flags = FALSE /\ from = 0 /\ got = <<>> /\ calls = 0

(***************************************************************************)
(* The calls                                                               *)
(***************************************************************************)
Idle == pc = "idle" /\ calls < MaxCalls

Stamp(n) == [j \in 1 .. n |-> U16 * (calls + 1) + j]

Enter(op, a, real, data) ==
    /\ todo' = [op |-> op, at |-> a, real |-> real, data |-> data]
    /\ pc' = IF data = <<>> THEN "idle" ELSE "byte"

\* write_byte() checks its address, write_block() its range.
Write(a, n, real) ==
    /\ Idle /\ calls' = calls + 1
    /\ Range(a, n, real) \/ (n = 1 /\ Accessible(a, real))
    /\ Enter("write", a, real, Stamp(n))
    /\ UNCHANGED <<pages, cells, controller, eerie, flags, from, got>>

\* write32() and writeSWM() are byte writes too.
WriteWords(a, words) ==
    /\ Idle /\ calls' = calls + 1
    /\ words > 0 /\ WordRange(a, words)
    /\ Enter("write", a, FALSE, Stamp(words * WORD))
    /\ UNCHANGED <<pages, cells, controller, eerie, flags, from, got>>

\* put() updates byte by byte and checks no range; the bytes in keep are equal
\* to what is there.
Stored(a) == IF Accessible(a, FALSE) THEN cells[RealAddress(a)] ELSE 0

Put(a, n, keep) ==
    /\ Idle /\ calls' = calls + 1
    /\ Enter("update", a, FALSE,
             [j \in 1 .. n |-> IF j \in keep THEN Stored((a + j - 1) % U16) ELSE Stamp(n)[j]])
    /\ UNCHANGED <<pages, cells, controller, eerie, flags, from, got>>

\* read(), read_block(), get(); a block out of range is left alone, the bytes
\* that get() asks for past the end are zeros.
ReadBytes(a, n, whole) ==
    /\ Idle /\ calls' = calls + 1
    /\ whole => Range(a, n, FALSE)
    /\ Enter("read", a, FALSE, [j \in 1 .. n |-> 0])
    /\ from' = a /\ got' = <<>>
    /\ UNCHANGED <<pages, cells, controller, eerie, flags>>

\* read32() and readSWM() use the native access.
ReadWords(a, words) ==
    /\ Idle /\ calls' = calls + 1
    /\ words > 0 /\ WordRange(a, words)
    /\ Enter("readword", a, FALSE, [j \in 1 .. words |-> 0])
    /\ from' = a /\ got' = <<>>
    /\ UNCHANGED <<pages, cells, controller, eerie, flags>>

Addresses == 0 .. U16 - 1

Call ==
    \/ \E a \in Addresses, n \in Addresses, real \in BOOLEAN : Write(a, n, real)
    \/ \E a \in Addresses, words \in Addresses : WriteWords(a, words) \/ ReadWords(a, words)
    \/ \E a \in Addresses, n \in 1 .. MaxPut :
          \/ \E keep \in SUBSET (1 .. n) : Put(a, n, keep)
          \/ \E whole \in BOOLEAN : ReadBytes(a, n, whole)

(***************************************************************************)
(* One byte, or one native word, of a call                                 *)
(***************************************************************************)
Width == IF todo.op = "readword" THEN WORD ELSE 1

\* An update reads a byte as "update" and programs it as "replace".
Programs == todo.op \in {"write", "replace"}

EndsLate == Len(todo.data) = 0
LastByte == Len(todo.data) = 1

NextByte ==
    /\ todo' = [op   |-> IF todo.op = "replace" THEN "update" ELSE todo.op,
               at   |-> (todo.at + Width) % U16,
               real |-> todo.real,
               data |-> Tail(todo.data)]
    /\ pc' = IF LastByte THEN "idle" ELSE "byte"

\* A byte that is not the user's reads as 0 and is not programmed.
SkipByte ==
    /\ pc = "byte" /\ ~Accessible(todo.at, todo.real)
    /\ NextByte
    /\ got' = IF todo.op = "read" THEN Append(got, 0) ELSE got
    /\ UNCHANGED <<pages, cells, controller, eerie, flags, from, calls>>

\* Address and data registers.
LoadByte ==
    /\ pc = "byte"
    /\ Accessible(todo.at, todo.real)
    /\ eear' = Cell(todo.at, todo.real)
    /\ eedr' = IF Programs THEN Head(todo.data) ELSE eedr
    /\ pc' = "flags"
    /\ UNCHANGED <<pages, cells, busy, eerie, todo, flags, from, got, calls>>

\* EERIE is read with interrupts on and written back with the command.
ReadFlags ==
    /\ pc = "flags"
    /\ flags' = eerie
    /\ pc' = "command"
    /\ UNCHANGED <<pages, cells, controller, eerie, todo, from, got, calls>>

\* lgt_eeprom_issue_program()
Program ==
    /\ pc = "command" /\ Programs
    /\ eerie' = flags
    /\ busy' = TRUE
    /\ pc' = "wait"
    /\ UNCHANGED <<pages, cells, eear, eedr, todo, flags, from, got, calls>>

NeverWaits  == TRUE
WaitsForSet == busy
ProgramOver == ~busy

Wait ==
    /\ pc = "wait" /\ ProgramOver
    /\ NextByte
    /\ UNCHANGED <<pages, cells, controller, eerie, flags, from, got, calls>>

\* lgt_eeprom_issue_read(), in the width the call chose
Fetch ==
    /\ pc = "command" /\ todo.op \in {"read", "readword"}
    /\ eerie' = flags
    /\ got' = got \o [j \in 1 .. Width |-> cells[eear + j - 1]]
    /\ NextByte
    /\ UNCHANGED <<pages, cells, controller, flags, from, calls>>

\* update() programs no byte that is there already.
Compare ==
    /\ pc = "command" /\ todo.op = "update"
    /\ eerie' = flags
    /\ IF cells[eear] = Head(todo.data)
       THEN NextByte
       ELSE pc' = "byte" /\ todo' = [todo EXCEPT !.op = "replace"]
    /\ UNCHANGED <<pages, cells, controller, flags, from, got, calls>>

Step == SkipByte \/ LoadByte \/ ReadFlags \/ Program \/ Wait \/ Fetch \/ Compare

(***************************************************************************)
(* The controller, a handler, and the power supply.  The controller copies *)
(* a page with the new byte in it and then swaps pages, so a loss of power *)
(* finds the byte written or not.                                          *)
(***************************************************************************)
Written == [cells EXCEPT ![eear] = eedr]

Swap ==
    /\ busy /\ busy' = FALSE
    /\ cells' = Written
    /\ UNCHANGED <<pages, eear, eedr, eerie, pc, todo, flags, from, got, calls>>

Handler ==
    /\ pc # "off" /\ eerie' = ~eerie
    /\ UNCHANGED <<pages, cells, controller, pc, todo, flags, from, got, calls>>

LosePower ==
    /\ pc # "off" /\ pc' = "off"
    /\ cells' = cells \/ (busy /\ cells' = Written)
    /\ busy' = FALSE /\ eerie' = FALSE
    /\ from' = 0 /\ got' = <<>>
    /\ UNCHANGED <<pages, eear, eedr, todo, flags, calls>>

\* The constructor and the sketch's change_size() set the same partition again.
Restart ==
    /\ pc = "off" /\ pc' = "idle"
    /\ UNCHANGED <<pages, cells, controller, eerie, todo, flags, from, got, calls>>

Next == Call \/ Step \/ Swap \/ Handler \/ LosePower \/ Restart

Spec == Init /\ [][Next]_vars
=============================================================================
