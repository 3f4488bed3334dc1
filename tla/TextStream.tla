----------------------------- MODULE TextStream ------------------------------
(***************************************************************************)
(* cores/lgt8f/Stream.cpp: find() and findUntil(), readBytes() and         *)
(* readBytesUntil(), and parseInt(), which take bytes as they arrive and   *)
(* give up when none has come for the timeout.  A call sees only the first *)
(* byte that waits, so the bytes behind it are left out.                   *)
(***************************************************************************)
EXTENDS Integers, Sequences

CONSTANTS
    Letters,    \* what targets are made of
    MaxTarget,  \* bound: length of targets
    MaxSent,    \* bound: bytes that arrive; ten digits are a number in a long
    TIMEOUT     \* of setTimeout(), in ticks

ASSUME StreamAssumption ==
    Letters # {} /\ MaxTarget \in Nat /\ MaxSent \in 0..10 /\ TIMEOUT \in Nat

Digit  == "1"
Sign   == "-"
Space  == " "
Bytes  == Letters \union {Digit, Sign, Space}
NoByte == "none"

VARIABLES
    byte, arrivals,   \* the first byte that waits, and how many ever arrived
    query, stage,     \* the call, and whether it waits
    index,            \* findMulti(): how much of each target is matched
    value, isNegative, numeric,   \* parseInt(): and whether it is past peekNextDigit()
    waited,           \* ticks since _startMillis
    outcome,          \* what the call returns
    taken             \* history: the bytes that the call has read, and not skipped

streamVars == <<byte, arrivals, query, stage, index, value, isNegative, numeric, waited, outcome, taken>>

NoQuery == [f |-> "none"]

StreamInit ==
    /\ byte = NoByte /\ arrivals = 0 /\ query = NoQuery /\ stage = "idle"
    /\ index = <<>> /\ value = 0 /\ isNegative = FALSE /\ numeric = FALSE
    /\ waited = 0 /\ outcome = 0 /\ taken = <<>>

-----------------------------------------------------------------------------
(* findMulti(): how much of target t is matched after byte c *)

\* The text found so far and c end with the first j + 1 bytes of t.
Overlaps(t, k, j, c) == c = t[j + 1] /\ SubSeq(t, 1, j) = SubSeq(t, k - j + 1, k)

StartOver(t, k, c) == 0
\* The walk back from k to the largest index that is still right
WalkBack(t, k, c) ==
    LET right == {j \in 0..k - 1 : Overlaps(t, k, j, c)}
    IN  IF right = {} THEN 0 ELSE 1 + CHOOSE j \in right : \A l \in right : l <= j

Advance(t, k, c) == IF c = t[k + 1] THEN k + 1 ELSE WalkBack(t, k, c)

LeastOf(s) == CHOOSE k \in s : \A l \in s : k <= l

-----------------------------------------------------------------------------
(* The calls.  A target of length zero is found at once, and a read of no  *)
(* bytes returns at once.                                                  *)

Asks(q, answer, waits) ==
    /\ stage = "idle" /\ query' = q /\ taken' = <<>> /\ outcome' = answer
    /\ stage' = (IF waits THEN "wait" ELSE "return")
    /\ index' = (IF q.f = "find" THEN [k \in DOMAIN q.targets |-> 0] ELSE <<>>)
    /\ waited' = 0 /\ value' = 0 /\ isNegative' = FALSE /\ numeric' = FALSE
    /\ UNCHANGED <<byte, arrivals>>

\* targets: the target of find(), or the target and the terminator of findUntil()
findMulti(targets) ==
    LET empty == {k \in DOMAIN targets : targets[k] = <<>>}
    IN  Asks([f |-> "find", targets |-> targets], IF empty = {} THEN 0 ELSE LeastOf(empty), empty = {})

readBytesUntil(terminator, length) ==
    Asks([f |-> "read", terminator |-> terminator, length |-> length], 0, length > 0)

parseInt(lookahead, ignore) == Asks([f |-> "parse", lookahead |-> lookahead, ignore |-> ignore], 0, TRUE)

-----------------------------------------------------------------------------
(* A byte is there: timedRead() and timedPeek() start to wait anew. *)

Match ==
    /\ query.f = "find"
    /\ index' = [k \in DOMAIN index |-> Advance(query.targets[k], index[k], byte)]
    /\ LET whole == {k \in DOMAIN index : index'[k] = Len(query.targets[k])}
       IN  /\ outcome' = (IF whole = {} THEN 0 ELSE LeastOf(whole))
           /\ stage' = (IF whole = {} THEN "wait" ELSE "return")
    /\ taken' = Append(taken, byte) /\ byte' = NoByte
    /\ UNCHANGED <<value, isNegative, numeric>>

Store ==
    /\ query.f = "read"
    /\ outcome' = (IF byte = query.terminator THEN outcome ELSE outcome + 1)
    /\ stage' = (IF byte = query.terminator \/ outcome' = query.length THEN "return" ELSE "wait")
    /\ taken' = Append(taken, byte) /\ byte' = NoByte
    /\ UNCHANGED <<index, value, isNegative, numeric>>

\* peekNextDigit()
Numeric(c) == c \in {Digit, Sign}
Skipped(c) ==
    \/ query.lookahead = "SKIP_ALL"
    \/ query.lookahead = "SKIP_WHITESPACE" /\ c = Space

Skip ==
    /\ query.f = "parse" /\ ~numeric /\ ~Numeric(byte) /\ Skipped(byte)
    /\ byte' = NoByte
    /\ UNCHANGED <<stage, outcome, taken, index, value, isNegative, numeric>>

\* The byte stays to be read.
Refuse ==
    /\ query.f = "parse" /\ ~numeric /\ ~Numeric(byte) /\ ~Skipped(byte)
    /\ stage' = "return" /\ outcome' = 0
    /\ UNCHANGED <<byte, taken, index, value, isNegative, numeric>>

Goes(c) == c = Digit \/ c = query.ignore

Count ==
    /\ query.f = "parse" /\ (IF numeric THEN Goes(byte) ELSE Numeric(byte))
    /\ numeric' = TRUE
    /\ isNegative' = (isNegative \/ byte = Sign)
    /\ value' = (IF byte = Digit THEN value * 10 + 1 ELSE value)
    /\ taken' = Append(taken, byte) /\ byte' = NoByte
    /\ UNCHANGED <<stage, outcome, index>>

Parsed == IF isNegative THEN -value ELSE value

EndOfNumber ==
    /\ query.f = "parse" /\ numeric /\ ~Goes(byte)
    /\ stage' = "return" /\ outcome' = Parsed
    /\ UNCHANGED <<byte, taken, index, value, isNegative, numeric>>

Poll ==
    /\ stage = "wait" /\ byte # NoByte /\ waited' = 0
    /\ Match \/ Store \/ Skip \/ Refuse \/ Count \/ EndOfNumber
    /\ UNCHANGED <<arrivals, query>>

\* No byte for the timeout: a number ends, a read returns what it has.
TimedOut ==
    /\ stage = "wait" /\ byte = NoByte /\ waited >= TIMEOUT
    /\ stage' = "return"
    /\ outcome' = (IF query.f = "parse" THEN Parsed ELSE outcome)
    /\ UNCHANGED <<byte, arrivals, query, index, value, isNegative, numeric, waited, taken>>

-----------------------------------------------------------------------------

\* What may arrive: what the call tells apart
Heard == IF query.f = "find" THEN Letters ELSE {CHOOSE c \in Letters : TRUE, Digit, Sign, Space}

Arrive(c) ==
    /\ stage = "wait" /\ byte = NoByte /\ arrivals < MaxSent
    /\ byte' = c /\ arrivals' = arrivals + 1
    /\ UNCHANGED <<query, stage, index, value, isNegative, numeric, waited, outcome, taken>>

\* Ticks past the timeout tell nothing.
TickStream ==
    /\ stage = "wait" /\ waited < TIMEOUT /\ waited' = waited + 1
    /\ UNCHANGED <<byte, arrivals, query, stage, index, value, isNegative, numeric, outcome, taken>>

Leave ==
    /\ stage = "return" /\ stage' = "idle" /\ query' = NoQuery /\ taken' = <<>>
    /\ index' = <<>> /\ value' = 0 /\ isNegative' = FALSE /\ numeric' = FALSE
    /\ waited' = 0 /\ outcome' = 0
    /\ UNCHANGED <<byte, arrivals>>

Texts == UNION {[1..n -> Letters] : n \in 0..MaxTarget}
InStream == Poll \/ TimedOut \/ Leave

StreamNext ==
    \/ \E t \in Texts : findMulti(<<t>>) \/ \E u \in Texts : Len(u) < MaxTarget /\ findMulti(<<t, u>>)
    \/ \E c \in {Space, NoByte}, n \in 0..2 : readBytesUntil(c, n)
    \/ \E l \in {"SKIP_ALL", "SKIP_NONE", "SKIP_WHITESPACE"}, c \in {Space, NoByte} : parseInt(l, c)
    \/ InStream \/ TickStream \/ \E c \in Heard : Arrive(c)
=============================================================================
