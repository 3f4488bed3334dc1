----------------------------- MODULE E2PROMProps -----------------------------
(***************************************************************************)
(* What must hold of the emulated EEPROM, its fairness, and the memory it  *)
(* implements.                                                             *)
(***************************************************************************)
EXTENDS E2PROM

Ops == {"none", "write", "update", "replace", "read", "readword"}

\* The type of every variable; in a call, some byte is left to do.
TypeOK ==
    /\ pages \in {0, 1, 2, 4, 8}
    /\ cells \in [0 .. PhysicalSize - 1 -> Nat]
    /\ eear \in Nat /\ eedr \in Nat /\ busy \in BOOLEAN /\ eerie \in BOOLEAN
    /\ pc \in {"idle", "byte", "flags", "command", "wait", "off"}
    /\ todo \in [op : Ops, at : 0 .. U16 - 1, real : BOOLEAN, data : Seq(Nat)]
    /\ pc \in {"byte", "flags", "command", "wait"} => todo.data # <<>>
    /\ flags \in BOOLEAN /\ from \in 0 .. U16 - 1 /\ got \in Seq(Nat)
    /\ calls \in 0 .. MaxCalls

\* The cells at the end of each page are the controller's: no call, in either
\* address mode and whatever its address and length, programs one of them ("we
\* automatically skip every reserved last cell of every 1KB page").
ReservedKept == \A x \in DOMAIN cells : x % PAGE >= FREE => cells[x] = 0

\* A byte of an accepted block, word or SWM write is never refused half-way.
NothingDropped == pc = "byte" /\ todo.op \in {"write", "readword"} =>
                     Accessible(todo.at, todo.real)

\* The logical address of a user byte
Logical(a, real) == IF real THEN (a \div PAGE) * FREE + (a % PAGE) ELSE a

\* The user's bytes among those that a call puts at an address and after it: those past
\* the end are dropped, until the address wraps to 0.
Bytes(at, data, real) ==
    LET dropped == IF Accessible(at, real) THEN 0 ELSE U16 - at
        first   == IF Accessible(at, real) THEN Logical(at, real) ELSE 0
        given   == Len(data) - dropped
        room    == LogicalSize - first
    IN  [j \in 1 .. IF given < room THEN given ELSE room |->
            [at |-> first + j - 1, value |-> data[dropped + j]]]

\* The memory this library implements: its bytes by logical address, and what is left of
\* a call, whose first byte is done once the controller has swapped the pages.
Contents == [a \in 0 .. LogicalSize - 1 |-> cells[RealAddress(a)]]

Writes == pc \in {"byte", "flags", "command", "wait"} /\ todo.op \in {"write", "update", "replace"}

Pending ==
    IF ~Writes THEN <<>>
    ELSE IF pc = "wait" /\ ~busy THEN Bytes((todo.at + 1) % U16, Tail(todo.data), todo.real)
    ELSE Bytes(todo.at, todo.data, todo.real)

Memory == INSTANCE Nvm WITH
    Sizes <- {FREE * n : n \in {0, 1, 2, 4, 8}}, Top <- U16, mem <- Contents, pending <- Pending

\* The library is a memory that survives loss of power: whole blocks or none,
\* bytes in order, a prefix after a loss, reads of any width that agree with
\* what was written byte by byte.
ImplementsNvm == Memory!Spec

-----------------------------------------------------------------------------
(* Liveness: the sketch executes, and a program command ends.              *)

Fairness == WF_vars(Step) /\ WF_vars(Swap)

FairSpec == Spec /\ Fairness

\* Every call returns, unless the power fails.
CallReturns == pc = "byte" ~> pc \in {"idle", "off"}
=============================================================================
