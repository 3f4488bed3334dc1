------------------------------ MODULE WString -------------------------------
(***************************************************************************)
(* The class String of cores/lgt8f/WString.cpp: a buffer that is allocated *)
(* again when a text outgrows it, which may fail, and the editing of texts *)
(* in place.  One thread; what is hard is how much is written where.       *)
(***************************************************************************)
EXTENDS Integers, Sequences

CONSTANTS
    Characters, BLANK,   \* what a text is made of; one of them is white space
    WIDTH,               \* lengths are numbers modulo WIDTH (code: 2^16)
    MaxText,             \* bound: the longest text that a call starts from, or is given
    Reckless             \* the sketch also replaces where the result may not fit

ASSUME StringAssumption ==
    /\ BLANK \in Characters /\ WIDTH \in Nat \ {0} /\ MaxText \in 1..WIDTH - 2 /\ Reckless \in BOOLEAN

VARIABLES
    text, capacity,   \* the string; no buffer is a capacity of NoBuffer
    said              \* history: the last call, its texts, its result, and what it found

stringVars == <<text, capacity, said>>

NoBuffer == -1
Strings  == UNION {[1..n -> Characters] : n \in 0..MaxText}
Silence  == [op |-> "none"]
len      == Len(text)

StringInit == text = <<>> /\ capacity = NoBuffer /\ said = Silence

Said(op, a, b, ok) == said' = [op |-> op, a |-> a, b |-> b, ok |-> ok, before |-> text, had |-> capacity]
Ready == said = Silence /\ len <= MaxText

-----------------------------------------------------------------------------
(* Memory: reserve() returns ok and leaves a capacity of c *)

reserve(size, ok, c) ==
    IF capacity >= size THEN ok /\ c = capacity
    ELSE \/ ok /\ size # WIDTH - 1 /\ c = size
         \/ ~ok /\ c = capacity

Reserve(n) ==
    /\ Ready
    /\ \E ok \in BOOLEAN, c \in {capacity, n} :
         reserve(n, ok, c) /\ capacity' = c /\ text' = text /\ Said("reserve", <<>>, <<>>, ok)

Invalidate == text' = <<>> /\ capacity' = NoBuffer
Keep       == text' = text /\ capacity' = capacity

\* copy()
Assign(v) ==
    /\ Ready
    /\ \E ok \in BOOLEAN, c \in {capacity, Len(v)} :
         /\ reserve(Len(v), ok, c)
         /\ IF ok THEN text' = v /\ capacity' = c ELSE Invalidate
         /\ Said("assign", v, <<>>, ok)

\* move() from a string with a buffer that its text fills, or without one
Move(v, full) ==
    /\ Ready /\ Said("assign", IF full THEN v ELSE <<>>, <<>>, TRUE)
    /\ IF ~full THEN Invalidate
       ELSE text' = v /\ capacity' = IF capacity >= Len(v) THEN capacity ELSE Len(v)

Wraps(n) == WIDTH - 1 - len < n

\* concat(), of a text of its own
Concat(v) ==
    /\ Ready
    /\ \/ Wraps(Len(v)) /\ Keep /\ Said("concat", v, <<>>, FALSE)
       \/ ~Wraps(Len(v)) /\ v = <<>> /\ Keep /\ Said("concat", v, <<>>, TRUE)
       \/ /\ ~Wraps(Len(v)) /\ v # <<>>
          /\ \E ok \in BOOLEAN, c \in {capacity, len + Len(v)} :
               /\ reserve(len + Len(v), ok, c) /\ capacity' = c
               /\ text' = IF ok THEN text \o v ELSE text
               /\ Said("concat", v, <<>>, ok)

-----------------------------------------------------------------------------
(* Positions count from 0, as in the code. *)

Take(x, n) == SubSeq(x, 1, n)
Drop(x, n) == SubSeq(x, n + 1, Len(x))
At(x, v, k) == k + Len(v) <= Len(x) /\ SubSeq(x, k + 1, k + Len(v)) = v

\* strstr(x + from, v), or -1
indexOf(x, v, from) ==
    LET ks == {k \in from..Len(x) : At(x, v, k)}
    IN  IF ks = {} THEN -1 ELSE CHOOSE k \in ks : \A l \in ks : k <= l

lastIndexOf(x, v, from) ==
    LET ks == {k \in 0..from : At(x, v, k)}
    IN  IF ks = {} THEN -1 ELSE CHOOSE k \in ks : \A l \in ks : l <= k

\* From the left, while what was replaced is not longer
Shrink(x, f, r) ==
    LET rest[k \in Nat] ==
          LET p == indexOf(x, f, k)
          IN  IF p < 0 THEN Drop(x, k) ELSE SubSeq(x, k + 1, p) \o r \o rest[p + Len(f)]
    IN  rest[0]

\* From the right: the tail moves, and what was put in is looked at again.
Grow(x, f, r) ==
    LET from[s \in Int \X Seq(Characters)] ==
          LET y == s[2]
              p == lastIndexOf(y, f, s[1])
          IN  IF s[1] < 0 \/ p < 0 THEN y ELSE from[<<p - 1, Take(y, p) \o r \o Drop(y, p + Len(f))>>]
    IN  from[<<Len(x) - 1, x>>]

Occurrences(x, f) ==
    LET n[k \in Nat] ==
          LET p == indexOf(x, f, k) IN IF p < 0 THEN 0 ELSE 1 + n[p + Len(f)]
    IN  n[0]

Result(x, f, r) == IF Len(r) <= Len(f) THEN Shrink(x, f, r) ELSE Grow(x, f, r)

\* "compute size needed for result", in as many bits as lengths have
Size(f, r) == (len + Occurrences(text, f) * (Len(r) - Len(f))) % WIDTH

\* A replacement that, after the text before it, makes what is replaced again.
Respawns(f, r) == \E k \in 1..Len(f) - 1 : Take(r, Len(f) - k) = Drop(f, k)
Fitted(f, r)  == ~Respawns(f, r) /\ len + Occurrences(text, f) * (Len(r) - Len(f)) < WIDTH

Replace(f, r) ==
    /\ Ready /\ len > 0 /\ f # <<>>
    /\ Len(r) > Len(f) => Reckless \/ Fitted(f, r)
    /\ IF Len(r) <= Len(f)
       THEN text' = Shrink(text, f, r) /\ capacity' = capacity /\ Said("replace", f, r, TRUE)
       ELSE \E ok \in BOOLEAN, c \in {capacity, Size(f, r)} :
              /\ IF Size(f, r) = len THEN ok /\ c = capacity ELSE reserve(Size(f, r), ok, c)
              /\ capacity' = c
              /\ text' = IF ok /\ Size(f, r) # len THEN Grow(text, f, r) ELSE text
              /\ Said("replace", f, r, ok)

-----------------------------------------------------------------------------
(* Cutting *)

Remove(i, n) ==
    /\ Ready /\ i < len /\ n > 0
    /\ LET count_ == IF n > len - i THEN len - i ELSE n
       IN  text' = Take(text, i) \o Drop(text, i + count_)
    /\ capacity' = capacity /\ Said("remove", <<>>, <<>>, TRUE)

\* The first character that is no white space, and the last: end >= begin stops the second.
trim ==
    /\ Ready /\ len > 0
    /\ LET begin == CHOOSE b \in 0..len : /\ \A k \in 1..b : text[k] = BLANK
                                          /\ b < len => text[b + 1] # BLANK
           end   == CHOOSE e \in begin..len : /\ \A k \in e + 1..len : text[k] = BLANK
                                              /\ e > begin => text[e] # BLANK
       IN  text' = SubSeq(text, begin + 1, end)
    /\ capacity' = capacity /\ Said("trim", <<>>, <<>>, TRUE)

\* A text of its own, or an invalid one; this string is cut for a moment and mended.
substring(l, r) ==
    /\ Ready /\ Keep
    /\ LET left  == IF l > r THEN r ELSE l
           right == IF l > r THEN l ELSE r
           upto  == IF right > len THEN len ELSE right
       IN  \E ok \in BOOLEAN :
             Said("substring", <<>>, IF left >= len \/ ~ok THEN <<>> ELSE SubSeq(text, left + 1, upto), ok)

Forget == said # Silence /\ said' = Silence /\ Keep

StringNext ==
    \/ \E v \in Strings : Assign(v) \/ Concat(v) \/ (\E full \in BOOLEAN : Move(v, full))
    \/ \E n \in 0..WIDTH - 1 : Reserve(n)
    \/ \E f, r \in Strings : Replace(f, r)
    \/ \E i, n \in 0..MaxText : Remove(i, n) \/ substring(i, n)
    \/ trim \/ Forget
=============================================================================
