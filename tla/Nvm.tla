--------------------------------- MODULE Nvm ---------------------------------
(***************************************************************************)
(* What a byte-addressed memory that outlives power loss promises: bytes   *)
(* are written one by one in order, a loss of power keeps a prefix of the  *)
(* write under way and everything else, and a read returns what is there.  *)
(***************************************************************************)
EXTENDS Integers, Sequences

CONSTANTS Sizes,  \* sizes the memory may have
          Top     \* addresses are 0 .. Top - 1, and wrap

VARIABLES
    mem,      \* the bytes, by address
    pending,  \* writes accepted and not yet done, [at, value] in order
    from, got \* address of the last read, and what it has returned so far

nvm == <<mem, pending, from, got>>

Init == \E size \in Sizes :
           /\ mem = [a \in 0 .. size - 1 |-> 0]
           /\ pending = <<>> /\ from = 0 /\ got = <<>>

\* A write is taken as a whole or not at all.
Accept ==
    /\ pending = <<>>
    /\ \A j \in DOMAIN pending' : /\ pending'[j].at \in DOMAIN mem
                                  /\ pending'[j].at = pending'[1].at + j - 1
    /\ UNCHANGED <<mem, from, got>>

Done == [mem EXCEPT ![Head(pending).at] = Head(pending).value]

Write ==
    /\ pending # <<>>
    /\ mem' = Done
    /\ pending' = Tail(pending)
    /\ UNCHANGED <<from, got>>

\* Past the end, or before the first byte, there are only zeros.
Value(a) == IF a % Top \in DOMAIN mem THEN mem[a % Top] ELSE 0

Ask ==
    /\ pending = <<>>
    /\ from' \in 0 .. Top - 1 /\ got' = <<>>
    /\ UNCHANGED <<mem, pending>>

Answer ==
    /\ Len(got') > Len(got)
    /\ \A j \in 1 .. Len(got') :
          got'[j] = IF j <= Len(got) THEN got[j] ELSE Value(from + j - 1)
    /\ UNCHANGED <<mem, pending, from>>

LosePower ==
    /\ mem' = mem \/ (pending # <<>> /\ mem' = Done)
    /\ pending' = <<>> /\ from' = 0 /\ got' = <<>>

Next == Accept \/ Write \/ Ask \/ Answer \/ LosePower

Spec == Init /\ [][Next]_nvm
=============================================================================
