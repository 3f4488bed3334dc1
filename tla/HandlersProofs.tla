--------------------------- MODULE HandlersProofs ---------------------------
(***************************************************************************)
(* That the two pin-change handlers, that of the table and that of         *)
(* SoftwareSerial, interrupt masks, callbacks and transactions, digital    *)
(* pins, and the coprocessor's arithmetic keep what HandlersProps promises *)
(* of them, for any pins, slots, objects, interrupts, duties and words: an *)
(* inductive invariant of each; and that every variable has its type.      *)
(***************************************************************************)
EXTENDS HandlersProps, SequenceTheorems, WellFoundedInduction, TLAPS

-----------------------------------------------------------------------------
(* The pin-change table *)

Entries == [pin : Pins, mode : Modes, cb : Actions, last : BOOLEAN]

TableTypes ==
    /\ table \in Seq(Entries) /\ level \in [Pins -> BOOLEAN]
    /\ i \in Nat /\ cb \in Actions /\ adding \subseteq Pins

\* A pin has one entry, and its level when last seen differs from its level now exactly
\* when it has an edge that was not looked at.
OneEach  == \A k, m \in 1 .. Len(table) : table[k].pin = table[m].pin => k = m
LastSeen == \A k \in 1 .. Len(table) : table[k].last # level[table[k].pin] <=> table[k].pin \in unseen

\* The entries that the handler has still to look at
Ahead(k) == i > 0 /\ (IF cb = "plain" THEN k >= i ELSE k > i)
StillSeen == \A k \in 1 .. Len(table) : table[k].pin \in unseen \ excused => PCIF \/ Ahead(k)

AtEntry == cb # "plain" => i \in 1 .. Len(table)

TableInv == TableTypes /\ OneEach /\ LastSeen /\ StillSeen /\ AtEntry /\ ~wrong

\* Equality of booleans
LEMMA SameBoolean == ASSUME NEW A \in BOOLEAN, NEW B \in BOOLEAN, A <=> B PROVE A = B
OBVIOUS

\* A sequence without its last element
LEMMA FrontIs ==
    ASSUME NEW S, NEW s \in Seq(S), Len(s) > 0
    PROVE  /\ Front(s) \in Seq(S) /\ Len(Front(s)) = Len(s) - 1
           /\ \A k \in 1 .. Len(s) - 1 : Front(s)[k] = s[k]
<1> DEFINE n == Len(s) - 1
<1>1. n \in Nat /\ \A k \in 1 .. n : s[k] \in S
  OBVIOUS
<1> HIDE DEF n
<1>2. 1 \in Int /\ n \in Int
  BY <1>1
<1>3. /\ SubSeq(s, 1, n) \in Seq(S)
      /\ Len(SubSeq(s, 1, n)) = IF 1 <= n THEN n - 1 + 1 ELSE 0
      /\ \A k \in 1 .. n - 1 + 1 : SubSeq(s, 1, n)[k] = s[1 + k - 1]
  BY <1>1, <1>2, SubSeqProperties
<1>4. \A k \in 1 .. n : SubSeq(s, 1, n)[k] = s[k]
  <2> TAKE k \in 1 .. n
  <2>1. k \in 1 .. n - 1 + 1 /\ 1 + k - 1 = k
    BY <1>1
  <2> QED
    BY <1>3, <2>1
<1>5. Len(SubSeq(s, 1, n)) = n
  BY <1>1, <1>3
<1> QED
  BY <1>3, <1>4, <1>5 DEF Front, n

\* What is in the table, and where
LEMMA SlotsAre ==
    ASSUME TableTypes, NEW p
    PROVE  /\ DOMAIN table = 1 .. Len(table) /\ Len(table) \in Nat
           /\ Slots(p) = {k \in 1 .. Len(table) : table[k].pin = p}
           /\ p \in Attached <=> \E k \in 1 .. Len(table) : table[k].pin = p
           /\ \A k \in 1 .. Len(table) : table[k] \in Entries
BY DEF TableTypes, Slots, Attached

\* The table is empty at first.
LEMMA TableStarts == PinInit => TableInv
<1> SUFFICES ASSUME PinInit PROVE TableInv
  OBVIOUS
<1>1. table = <<>> /\ i = 0 /\ cb = "plain" /\ adding = {} /\ ~wrong /\ level \in [Pins -> BOOLEAN]
  BY DEF PinInit
<1>2. table \in Seq(Entries) /\ Len(table) = 0
  BY <1>1
<1>3. TableTypes
  BY <1>1, <1>2 DEF TableTypes, Actions
<1>4. OneEach /\ LastSeen /\ StillSeen /\ AtEntry
  BY <1>1, <1>2 DEF OneEach, LastSeen, StillSeen, AtEntry
<1> QED
  BY <1>1, <1>3, <1>4 DEF TableInv

\* pinChangeAttach() has looked at its pin, and leaves the others.
LEMMA PinAttachKeeps ==
    ASSUME TableTypes, OneEach, LastSeen, UNCHANGED level,
           NEW p \in Pins, NEW mode \in Modes, NEW f \in Actions, pinChangeAttach(p, mode, f)
    PROVE  /\ table' \in Seq(Entries) /\ OneEach' /\ LastSeen' /\ adding' \subseteq Pins
           /\ \A k \in 1 .. Len(table') :
                 table'[k].pin \in unseen' \ excused' =>
                    k \in 1 .. Len(table) /\ table[k].pin \in unseen \ excused
<1> DEFINE entry == [pin |-> p, mode |-> mode, cb |-> f, last |-> level[p]]
           n == Len(table)
<1>1. /\ DOMAIN table = 1 .. n /\ n \in Nat /\ Slots(p) = {k \in 1 .. n : table[k].pin = p}
      /\ p \in Attached <=> \E k \in 1 .. n : table[k].pin = p
      /\ \A k \in 1 .. n : table[k] \in Entries
  BY SlotsAre
<1>2. entry \in Entries /\ entry.pin = p /\ entry.last = level[p]
  BY DEF Entries, TableTypes
<1>3. CASE p \in Attached
  <2>1. /\ table' = [k \in 1 .. n |-> IF k \in Slots(p) THEN entry ELSE table[k]]
        /\ unseen' = unseen \ {p} /\ excused' = excused \ {p} /\ adding' = adding
    BY <1>1, <1>3 DEF pinChangeAttach, Seen
  <2> HIDE DEF entry
  <2>2. table' \in Seq(Entries) /\ Len(table') = n
    BY <1>1, <1>2, <2>1
  <2>3. \A k \in 1 .. n : table'[k] = IF table[k].pin = p THEN entry ELSE table[k]
    BY <1>1, <2>1
  <2>4. \A k \in 1 .. n : table'[k].pin = table[k].pin
    BY <1>2, <2>3
  <2>5. OneEach'
    BY <2>2, <2>4 DEF OneEach
  <2>6. LastSeen'
    <3> SUFFICES ASSUME NEW k \in 1 .. n
                 PROVE  table'[k].last # level[table'[k].pin] <=> table'[k].pin \in unseen'
      BY <2>2 DEF LastSeen
    <3>1. CASE table[k].pin = p
      BY <1>2, <2>1, <2>3, <3>1
    <3>2. CASE table[k].pin # p
      BY <2>1, <2>3, <3>2 DEF LastSeen
    <3> QED
      BY <3>1, <3>2
  <2> QED
    BY <2>1, <2>2, <2>4, <2>5, <2>6 DEF TableTypes
<1>4. CASE p \notin Attached /\ UNCHANGED <<table, adding, unseen, excused>>
  BY <1>4 DEF OneEach, LastSeen, TableTypes
<1>5. CASE /\ p \notin Attached /\ table' = Append(table, entry) /\ adding' = {p}
           /\ unseen' = unseen \ {p} /\ excused' = excused \ {p}
  <2> HIDE DEF entry
  <2>1. table' \in Seq(Entries) /\ Len(table') = n + 1
        /\ \A k \in 1 .. n + 1 : table'[k] = IF k <= n THEN table[k] ELSE entry
    BY <1>2, <1>5 DEF TableTypes
  <2>2. \A k \in 1 .. n : table[k].pin # p
    BY <1>1, <1>5
  <2>3. OneEach'
    <3> SUFFICES ASSUME NEW k \in 1 .. n + 1, NEW m \in 1 .. n + 1, table'[k].pin = table'[m].pin PROVE k = m
      BY <2>1 DEF OneEach
    <3>1. (k <= n => k \in 1 .. n) /\ (m <= n => m \in 1 .. n) /\ (k > n => k = n + 1) /\ (m > n => m = n + 1)
      BY <1>1
    <3> QED
      BY <1>1, <1>2, <2>1, <2>2, <3>1 DEF OneEach
  <2>4. LastSeen'
    <3> SUFFICES ASSUME NEW k \in 1 .. n + 1
                 PROVE  table'[k].last # level[table'[k].pin] <=> table'[k].pin \in unseen'
      BY <2>1 DEF LastSeen
    <3>1. CASE k <= n
      <4>1. k \in 1 .. n /\ table'[k] = table[k]
        BY <1>1, <2>1, <3>1
      <4> QED
        BY <1>5, <2>2, <4>1 DEF LastSeen
    <3>2. CASE k > n
      BY <1>1, <1>2, <1>5, <2>1, <3>2
    <3> QED
      BY <1>1, <3>1, <3>2
  <2>5. ASSUME NEW k \in 1 .. n + 1, table'[k].pin \in unseen' \ excused'
        PROVE  k \in 1 .. n /\ table[k].pin \in unseen \ excused
    <3>1. table'[k].pin # p
      BY <1>5, <2>5
    <3>2. k <= n
      BY <1>2, <2>1, <3>1
    <3>3. k \in 1 .. n /\ table'[k] = table[k]
      BY <1>1, <2>1, <3>2
    <3> QED
      BY <1>5, <2>5, <3>3
  <2> QED
    BY <1>5, <2>1, <2>3, <2>4, <2>5
<1> QED
  BY <1>3, <1>4, <1>5 DEF pinChangeAttach, Seen

\* pinChangeDetach() moves the last entry: what it moves behind the handler is excused.
LEMMA PinDetachKeeps ==
    ASSUME TableTypes, OneEach, LastSeen, UNCHANGED level, NEW p, pinChangeDetach(p)
    PROVE  /\ table' \in Seq(Entries) /\ OneEach' /\ LastSeen'
           /\ \A k \in 1 .. Len(table') :
                 table'[k].pin \in unseen' \ excused' =>
                    \E m \in 1 .. Len(table) :
                       /\ table[m].pin \in unseen \ excused
                       /\ i \in 1 .. Len(table) /\ table[i].pin = p => m = k /\ m # i
<1> DEFINE n == Len(table)
<1>1. /\ DOMAIN table = 1 .. n /\ n \in Nat /\ Slots(p) = {k \in 1 .. n : table[k].pin = p}
      /\ p \in Attached <=> \E k \in 1 .. n : table[k].pin = p
      /\ \A k \in 1 .. n : table[k] \in Entries
  BY SlotsAre
<1>2. CASE p \notin Attached
  <2>1. UNCHANGED <<table, unseen, excused>>
    BY <1>2 DEF pinChangeDetach
  <2>2. ~(i \in 1 .. n /\ table[i].pin = p)
    BY <1>1, <1>2
  <2> QED
    BY <2>1, <2>2 DEF OneEach, LastSeen, TableTypes
<1>3. CASE p \in Attached
  <2> DEFINE h == CHOOSE s \in Slots(p) : TRUE
             moved == table[n].pin
             set == [table EXCEPT ![h] = table[n]]
  <2>1. h \in 1 .. n /\ table[h].pin = p
    <3>1. Slots(p) # {}
      BY <1>1, <1>3
    <3>2. h \in Slots(p)
      BY <3>1
    <3> QED
      BY <1>1, <3>2
  <2>2. /\ table' = Front(set) /\ unseen' = unseen \ {p}
        /\ excused' = (IF h <= i /\ i < n THEN excused \union ({moved} \intersect unseen) ELSE excused) \ {p}
    BY <1>3 DEF pinChangeDetach, Move
  <2> HIDE DEF h
  <2>3. set \in Seq(Entries) /\ Len(set) = n /\ n > 0
        /\ \A k \in 1 .. n : set[k] = IF k = h THEN table[n] ELSE table[k]
    BY <1>1, <2>1 DEF TableTypes
  <2> HIDE DEF set
  <2>4. table' \in Seq(Entries) /\ Len(table') = n - 1
        /\ \A k \in 1 .. n - 1 : table'[k] = IF k = h THEN table[n] ELSE table[k]
    <3>1. /\ Front(set) \in Seq(Entries) /\ Len(Front(set)) = Len(set) - 1
          /\ \A k \in 1 .. Len(set) - 1 : Front(set)[k] = set[k]
      BY <2>3, FrontIs
    <3>2. \A k \in 1 .. n - 1 : k \in 1 .. n
      BY <1>1
    <3> QED
      BY <2>2, <2>3, <3>1, <3>2
  \* where each entry was
  <2> DEFINE from(k) == IF k = h THEN n ELSE k
  <2>5. \A k \in 1 .. n - 1 : from(k) \in 1 .. n /\ table'[k] = table[from(k)] /\ table'[k].pin # p
    <3> TAKE k \in 1 .. n - 1
    <3>1. from(k) \in 1 .. n /\ table'[k] = table[from(k)] /\ from(k) # h
      <4>1. CASE k = h
        <5>1. table'[k] = table[n]
          BY <2>4, <4>1
        <5>2. n \in 1 .. n /\ n # h
          <6>1. n \in Nat /\ k \in 1 .. n - 1
            BY <1>1
          <6> HIDE DEF n
          <6> QED
            BY <4>1, <6>1
        <5>3. from(k) = n
          BY <4>1
        <5> HIDE DEF from
        <5> QED
          BY <5>1, <5>2, <5>3
      <4>2. CASE k # h
        <5>1. from(k) = k /\ table'[k] = table[k] /\ k \in 1 .. n
          BY <1>1, <2>1, <2>4, <4>2
        <5> HIDE DEF from
        <5> QED
          BY <4>2, <5>1
      <4> QED
        BY <4>1, <4>2
    <3> HIDE DEF from
    <3> QED
      BY <2>1, <3>1 DEF OneEach
  <2>6. \A k, m \in 1 .. n - 1 : from(k) = from(m) => k = m
    BY <1>1, <2>1
  <2>7. OneEach'
    <3> HIDE DEF from
    <3> QED
      BY <2>4, <2>5, <2>6 DEF OneEach
  <2>8. LastSeen'
    <3> HIDE DEF from
    <3> QED
      BY <2>2, <2>4, <2>5 DEF LastSeen
  <2>9. ASSUME NEW k \in 1 .. n - 1, table'[k].pin \in unseen' \ excused'
        PROVE  /\ from(k) \in 1 .. n /\ table[from(k)].pin \in unseen \ excused
               /\ i \in 1 .. n /\ table[i].pin = p => from(k) = k /\ from(k) # i
    <3>1. table'[k].pin = table[from(k)].pin /\ table[from(k)].pin # p /\ from(k) \in 1 .. n
      BY <2>5
    <3>2. table[from(k)].pin \in unseen \ excused
      BY <2>2, <2>9, <3>1
    <3>3. ASSUME i \in 1 .. n, table[i].pin = p PROVE from(k) = k /\ from(k) # i
      <4>1. i = h
        BY <2>1, <3>3 DEF OneEach
      <4>2. k # h
        <5> SUFFICES ASSUME k = h PROVE FALSE
          OBVIOUS
        <5>1. table'[k].pin = moved /\ h <= i /\ i < n
          BY <1>1, <3>1, <3>3, <4>1
        <5>2. moved \in excused'
          BY <2>2, <3>1, <3>2, <5>1
        <5> QED
          BY <2>9, <5>1, <5>2
      <4> QED
        BY <4>1, <4>2
    <3> QED
      BY <3>1, <3>2, <3>3
  <2> QED
    BY <2>4, <2>7, <2>8, <2>9
<1> QED
  BY <1>2, <1>3

\* The sketch attaches and detaches while the handler is not at work.
LEMMA SketchKeeps ==
    ASSUME TableInv, NEW p \in Pins,
           SketchDetach(p) \/ \E mode \in Modes, f \in Actions : SketchAttach(p, mode, f)
    PROVE  TableInv'
<1> USE DEF TableInv
<1>1. i = 0 /\ adding = {} /\ UNCHANGED <<PCIF, level, i, cb, wrong>>
  BY DEF SketchDetach, SketchAttach
<1>2. cb = "plain"
  BY <1>1 DEF AtEntry, TableTypes
<1>3. /\ table' \in Seq(Entries) /\ OneEach' /\ LastSeen' /\ adding' \subseteq Pins
      /\ \A k \in 1 .. Len(table') : table'[k].pin \in unseen' \ excused' =>
            \E m \in 1 .. Len(table) : table[m].pin \in unseen \ excused
  <2>1. CASE SketchDetach(p)
    <3>1. pinChangeDetach(p) /\ adding' = adding
      BY <2>1 DEF SketchDetach
    <3> QED
      BY <1>1, <3>1, PinDetachKeeps
  <2>2. ASSUME NEW mode \in Modes, NEW f \in Actions, SketchAttach(p, mode, f)
        PROVE  /\ table' \in Seq(Entries) /\ OneEach' /\ LastSeen' /\ adding' \subseteq Pins
               /\ \A k \in 1 .. Len(table') :
                     table'[k].pin \in unseen' \ excused' =>
                        k \in 1 .. Len(table) /\ table[k].pin \in unseen \ excused
    <3>1. pinChangeAttach(p, mode, f)
      BY <2>2 DEF SketchAttach
    <3> QED
      BY <1>1, <3>1, PinAttachKeeps
  <2> QED
    BY <2>1, <2>2
<1>4. \A k \in 1 .. Len(table) : table[k].pin \in unseen \ excused => PCIF
  BY <1>1 DEF StillSeen, Ahead
<1>5. TableTypes' /\ StillSeen' /\ AtEntry'
  BY <1>1, <1>2, <1>3, <1>4 DEF TableTypes, StillSeen, AtEntry
<1> QED
  BY <1>1, <1>3, <1>5

\* A pin that changes is pending or excused.
LEMMA ToggleKeeps == ASSUME TableInv, NEW p \in Pins, Toggle(p) PROVE TableInv'
<1> USE DEF TableInv
<1>1. /\ level' = [level EXCEPT ![p] = ~@]
      /\ unseen' = (unseen \ {p}) \union ({p} \ unseen)
      /\ excused' = (excused \ {p}) \union (({p} \ unseen) \ PCMSK)
      /\ UNCHANGED <<table, i, cb, adding, wrong>>
  BY DEF Toggle
<1>2. PCIF' <=> PCIF \/ p \in PCMSK
  BY DEF Toggle
<1>3. level' \in [Pins -> BOOLEAN] /\ \A q \in Pins : level'[q] <=> IF q = p THEN ~level[q] ELSE level[q]
  BY <1>1 DEF TableTypes
<1>4. \A k \in 1 .. Len(table) : table[k].pin \in Pins /\ table[k].last \in BOOLEAN
  BY SlotsAre DEF Entries
<1>5. TableTypes' /\ OneEach' /\ AtEntry'
  BY <1>1, <1>3 DEF TableTypes, OneEach, AtEntry
<1>6. LastSeen'
  <2> SUFFICES ASSUME NEW k \in 1 .. Len(table)
               PROVE  table[k].last # level'[table[k].pin] <=> table[k].pin \in unseen'
    BY <1>1 DEF LastSeen
  <2> DEFINE q == table[k].pin
  <2>1. (table[k].last # level[q] <=> q \in unseen) /\ q \in Pins /\ table[k].last \in BOOLEAN
    BY <1>4 DEF LastSeen
  <2>2. level[q] \in BOOLEAN /\ level'[q] \in BOOLEAN
    BY <1>3, <2>1 DEF TableTypes
  <2> HIDE DEF q
  <2>3. CASE q = p
    <3>1. (level'[q] <=> ~level[q]) /\ (q \in unseen' <=> q \notin unseen)
      BY <1>1, <1>3, <2>1, <2>3
    <3> QED
      BY <2>1, <2>2, <3>1, Zenon DEF q
  <2>4. CASE q # p
    <3>1. (level'[q] <=> level[q]) /\ (q \in unseen' <=> q \in unseen)
      BY <1>1, <1>3, <2>1, <2>4
    <3> QED
      BY <2>1, <2>2, <3>1, Zenon DEF q
  <2> QED
    BY <2>3, <2>4
<1>7. StillSeen'
  BY <1>1, <1>2 DEF StillSeen, Ahead
<1> QED
  BY <1>1, <1>5, <1>6, <1>7

\* The level that an entry shows is looked at, and its callback called for its edges.
LEMMA RoundKeeps == ASSUME TableInv, Round PROVE TableInv'
<1> USE PinAssumption DEF TableInv
<1> DEFINE e == table[i]
           n == Len(table)
<1>1. /\ i \in 1 .. n /\ n \in Nat /\ e \in Entries /\ cb = "plain"
      /\ table \in Seq(Entries) /\ level \in [Pins -> BOOLEAN] /\ DOMAIN table = 1 .. n
  BY SlotsAre DEF Round, TableTypes
<1>2. e.pin \in Pins /\ e.mode \in Modes /\ e.cb \in Actions /\ e.last \in BOOLEAN /\ level[e.pin] \in BOOLEAN
  BY <1>1 DEF Entries
<1>3. /\ table' = [table EXCEPT ![i] = [e EXCEPT !.last = level[e.pin]]]
      /\ unseen' = unseen \ {e.pin} /\ excused' = excused \ {e.pin}
      /\ UNCHANGED <<PCIF, level, adding>>
      /\ (cb' = e.cb /\ cb' # "plain" /\ i' = i) \/ (cb' = cb /\ i' = i + 1)
  BY DEF Round, Look, Looks, Seen
<1>4. (Fires(e, level[e.pin]) <=> Due(e)) /\ Fires(e, level[e.pin]) \in BOOLEAN /\ Due(e) \in BOOLEAN
  <2>1. e.last # level[e.pin] <=> e.pin \in unseen
    BY <1>1 DEF LastSeen
  <2>2. e.mode \in {CHANGE, RISING, FALLING}
    BY <1>2
  <2> HIDE DEF e
  <2>3. CASE e.mode = CHANGE
    BY <1>2, <2>1, <2>3 DEF Fires, Due, CHANGE, RISING, FALLING
  <2>4. CASE e.mode = RISING
    BY <1>2, <2>1, <2>4 DEF Fires, Due, CHANGE, RISING, FALLING
  <2>5. CASE e.mode = FALLING
    BY <1>2, <2>1, <2>5 DEF Fires, Due, CHANGE, RISING, FALLING
  <2> QED
    BY <2>2, <2>3, <2>4, <2>5
<1>5. ~wrong'
  <2>1. wrong' <=> (wrong \/ (Fires(e, level[e.pin]) # Due(e)))
    BY DEF Round, Look
  <2> HIDE DEF e
  <2>2. Fires(e, level[e.pin]) = Due(e)
    BY <1>4, SameBoolean
  <2> QED
    BY <2>1, <2>2
<1> DEFINE seen == [e EXCEPT !.last = level[e.pin]]
<1>6. seen \in Entries /\ seen.pin = e.pin /\ seen.last = level[e.pin]
  BY <1>1, <1>2 DEF Entries
<1>7. table' = [table EXCEPT ![i] = seen]
  BY <1>3
<1> HIDE DEF seen
<1>8. table' \in Seq(Entries) /\ Len(table') = n
      /\ \A k \in 1 .. n : table'[k] = IF k = i THEN seen ELSE table[k]
  BY <1>1, <1>6, <1>7
<1>9. \A k \in 1 .. n : table'[k].pin = table[k].pin
  BY <1>6, <1>8
<1>10. TableTypes'
  BY <1>1, <1>2, <1>3, <1>8 DEF TableTypes
<1>11. OneEach'
  BY <1>8, <1>9 DEF OneEach
<1>12. \A k \in 1 .. n : k # i => table[k].pin # e.pin
  BY <1>1 DEF OneEach
<1>13. LastSeen'
  <2> SUFFICES ASSUME NEW k \in 1 .. n
               PROVE  table'[k].last # level[table'[k].pin] <=> table'[k].pin \in unseen'
    BY <1>3, <1>8 DEF LastSeen
  <2>1. CASE k = i
    BY <1>3, <1>6, <1>8, <2>1
  <2>2. CASE k # i
    <3>1. table'[k] = table[k] /\ table[k].pin # e.pin
      BY <1>8, <1>12, <2>2
    <3> QED
      BY <1>3, <3>1 DEF LastSeen
  <2> QED
    BY <2>1, <2>2
<1>14. StillSeen'
  <2> SUFFICES ASSUME NEW k \in 1 .. n, table[k].pin \in unseen' \ excused' PROVE PCIF \/ Ahead(k)'
    BY <1>3, <1>8, <1>9 DEF StillSeen
  <2>1. k # i /\ table[k].pin \in unseen \ excused
    BY <1>3
  <2>2. PCIF \/ k >= i
    BY <1>1, <2>1 DEF StillSeen, Ahead
  <2>3. k >= i => k >= i + 1 /\ k > i
    BY <1>1, <2>1
  <2> QED
    BY <1>1, <1>3, <2>2, <2>3 DEF Ahead
<1>15. AtEntry'
  BY <1>1, <1>3, <1>8 DEF AtEntry
<1> QED
  BY <1>5, <1>10, <1>11, <1>13, <1>14, <1>15

\* A callback may detach the pin it is called for, or attach one.
LEMMA CallbackKeeps == ASSUME TableInv, Callback PROVE TableInv'
<1> USE DEF TableInv
<1>1. cb # "plain" /\ cb' = "plain" /\ i' = i + 1 /\ UNCHANGED <<PCIF, level, wrong>>
  BY DEF Callback
<1>2. i \in 1 .. Len(table) /\ Len(table) \in Nat
  BY <1>1 DEF AtEntry, TableTypes
<1>3. /\ table' \in Seq(Entries) /\ OneEach' /\ LastSeen' /\ adding' \subseteq Pins
      /\ \A k \in 1 .. Len(table') : table'[k].pin \in unseen' \ excused' =>
            PCIF \/ (k \in Nat /\ k > i)
  <2>1. CASE pinChangeDetach(table[i].pin) /\ adding' = adding
    <3>1. /\ table' \in Seq(Entries) /\ OneEach' /\ LastSeen'
          /\ \A k \in 1 .. Len(table') : table'[k].pin \in unseen' \ excused' =>
                \E m \in 1 .. Len(table) : table[m].pin \in unseen \ excused /\ m = k
      BY <1>1, <1>2, <2>1, PinDetachKeeps
    <3> QED
      BY <1>1, <1>2, <2>1, <3>1 DEF StillSeen, Ahead, TableTypes
  <2>2. ASSUME NEW p \in Pins, NEW mode \in Modes, pinChangeAttach(p, mode, "plain")
        PROVE  /\ table' \in Seq(Entries) /\ OneEach' /\ LastSeen' /\ adding' \subseteq Pins
               /\ \A k \in 1 .. Len(table') : table'[k].pin \in unseen' \ excused' =>
                     PCIF \/ (k \in Nat /\ k > i)
    <3>1. "plain" \in Actions
      BY DEF Actions
    <3>2. /\ table' \in Seq(Entries) /\ OneEach' /\ LastSeen' /\ adding' \subseteq Pins
          /\ \A k \in 1 .. Len(table') : table'[k].pin \in unseen' \ excused' =>
                k \in 1 .. Len(table) /\ table[k].pin \in unseen \ excused
      BY <1>1, <2>2, <3>1, PinAttachKeeps
    <3> QED
      BY <1>1, <1>2, <3>2 DEF StillSeen, Ahead
  <2> QED
    BY <2>1, <2>2 DEF Callback
<1>4. TableTypes'
  BY <1>1, <1>2, <1>3 DEF TableTypes, Actions
<1>5. StillSeen'
  <2> SUFFICES ASSUME NEW k \in 1 .. Len(table'), table'[k].pin \in unseen' \ excused', ~PCIF PROVE Ahead(k)'
    BY <1>1 DEF StillSeen
  <2>1. k \in Nat /\ k > i
    BY <1>3
  <2> QED
    BY <1>1, <1>2, <2>1 DEF Ahead
<1>6. AtEntry'
  BY <1>1 DEF AtEntry
<1> QED
  BY <1>1, <1>3, <1>4, <1>5, <1>6

\* Every step of the sketch, the pins and the handler keeps the invariant.
LEMMA TableKeeps == ASSUME TableInv, [HandlersNext]_handlerVars PROVE TableInv'
<1> USE DEF TableInv
<1>1. CASE PinNext
  <2>1. ASSUME NEW p \in Pins, SketchDetach(p) PROVE TableInv'
    BY <2>1, SketchKeeps
  <2>2. ASSUME NEW p \in Pins, NEW mode \in Modes, NEW f \in Actions, SketchAttach(p, mode, f) PROVE TableInv'
    BY <2>2, SketchKeeps
  <2>3. CASE Unmask
    BY <2>3 DEF Unmask, TableTypes, OneEach, LastSeen, StillSeen, Ahead, AtEntry
  <2>4. CASE pcint_handle
    <3>1. /\ i = 0 /\ i' = 1 /\ cb = "plain" /\ UNCHANGED <<table, level, cb, adding, unseen, excused, wrong>>
      BY <2>4 DEF pcint_handle, AtEntry, TableTypes
    <3>2. StillSeen'
      BY <3>1 DEF StillSeen, Ahead, TableTypes
    <3> QED
      BY <3>1, <3>2 DEF TableTypes, OneEach, LastSeen, AtEntry
  <2>5. CASE HandlerDone
    <3>1. /\ i > Len(table) /\ i' = 0 /\ cb = "plain"
          /\ UNCHANGED <<table, PCIF, level, cb, adding, unseen, excused, wrong>>
      BY <2>5 DEF HandlerDone, Past
    <3>2. StillSeen'
      BY <3>1 DEF StillSeen, Ahead, TableTypes
    <3> QED
      BY <3>1, <3>2 DEF TableTypes, OneEach, LastSeen, AtEntry
  <2> QED
    BY <1>1, <2>1, <2>2, <2>3, <2>4, <2>5, ToggleKeeps, RoundKeeps, CallbackKeeps DEF PinNext
<1>2. CASE UNCHANGED pinVars
  BY <1>2 DEF pinVars, TableTypes, OneEach, LastSeen, StillSeen, Ahead, AtEntry
<1> QED
  BY <1>1, <1>2 DEF HandlersNext, handlerVars

\* With the handler done and none pending, no entry has an edge that was not looked at.
LEMMA TableIsSeen == TableInv => EdgesSeen
<1> SUFFICES ASSUME TableInv PROVE EdgesSeen
  OBVIOUS
<1>1. ASSUME i = 0, ~PCIF, NEW p \in Attached \ excused PROVE p \notin unseen
  <2>1. PICK k \in 1 .. Len(table) : table[k].pin = p
    BY SlotsAre DEF TableInv
  <2> QED
    BY <1>1, <2>1 DEF TableInv, StillSeen, Ahead
<1>2. Noticed
  BY <1>1 DEF Noticed
<1> QED
  BY <1>2 DEF EdgesSeen, CallsRight, TableInv

\* No edge of an attached pin is missed, and no callback called for another's, although
\* callbacks attach and detach while the handler walks the table: for any pins and slots.
THEOREM EdgesAlwaysSeen == HandlersSpec => []EdgesSeen
<1>1. HandlersInit => TableInv
  BY TableStarts DEF HandlersInit
<1>2. TableInv /\ [HandlersNext]_handlerVars => TableInv'
  BY TableKeeps
<1> QED
  BY <1>1, <1>2, TableIsSeen, PTL DEF HandlersSpec

-----------------------------------------------------------------------------
(* SoftwareSerial *)

Owners  == Objects \union {NULL}
Parked  == {"nullLow", "nullHigh", "reset", "thisLow", "thisHigh", "unmask"}
Waiting == {"idle", "listen", "mask", "free"}

SoftTypes ==
    /\ head \in 0 .. RX_BUFF - 1 /\ tail \in 0 .. RX_BUFF - 1
    /\ buffer \in [0 .. RX_BUFF - 1 -> Owners \X Nat]
    /\ kept \in Seq(Owners \X Nat)
    /\ line \in [Objects -> Owners \X Nat] /\ frames \in Nat
    /\ active_object[1] \in Owners /\ active_object[2] \in Owners /\ DOMAIN active_object = {1, 2}
    /\ this \in Owners /\ pc \in Waiting \union Parked
    /\ rxMask \subseteq Objects /\ rxFlag \in BOOLEAN

\* The two bytes of the pointer, by place
Pointer ==
    /\ pc \in Waiting \union {"nullLow"} => active_object[1] = active_object[2]
    /\ pc \in {"reset", "thisLow", "thisHigh"} => active_object[2] = NULL
    /\ pc = "nullHigh" => active_object[1] = NULL
    /\ pc \in {"reset", "thisLow"} => active_object[1] = NULL
    /\ pc \in {"thisHigh", "unmask"} => active_object[1] = this
    /\ pc = "unmask" => active_object[2] = this
    /\ pc \in {"listen", "reset", "thisLow", "thisHigh", "unmask"} => this \in Objects
    /\ pc \in {"mask", "free"} => Listening \in Objects

\* read() has found a byte.
Taken == pc = "free" => head # tail

\* What waits in the ring is of the object that listens, or is about to.
Own ==
    /\ pc \in Waiting /\ Listening # NULL => \A k \in 1 .. Len(kept) : kept[k][1] = Listening
    /\ pc \in {"thisLow", "thisHigh", "unmask"} => \A k \in 1 .. Len(kept) : kept[k][1] = this

\* Frames are of the pin they are on.
Lines == \A o \in Objects : line[o] = Quiet \/ line[o][1] = o

\* Unless the handler was pending when the mask was cleared, no other pin interrupts, and
\* none is pending while no object listens.
OwnPinOnly ==
    ~late =>
        /\ pc \in Waiting => rxMask = {Listening} \ {NULL}
        /\ pc \in Parked => rxMask = {} /\ ~rxFlag
        /\ pc \in Waiting /\ Listening = NULL => ~rxFlag

SoftInv ==
    /\ SoftTypes /\ Pointer /\ Taken /\ Own /\ Lines /\ OwnPinOnly /\ RingOrder /\ WholePointer

\* The slot of the k-th byte after h, and how many slots there are from h to t
SlotOf(h, k) == (h + k - 1) % RX_BUFF
Between(h, t) == IF t >= h THEN t - h ELSE t - h + RX_BUFF

\* The slot of the k-th byte, without the remainder
LEMMA SlotValue ==
    ASSUME RX_BUFF \in Nat, RX_BUFF > 1, NEW h \in 0 .. RX_BUFF - 1, NEW k \in 1 .. RX_BUFF
    PROVE  SlotOf(h, k) = IF h + k - 1 < RX_BUFF THEN h + k - 1 ELSE h + k - 1 - RX_BUFF
<1> DEFINE x == h + k - 1
<1>1. CASE x < RX_BUFF
  <2>1. x \in 0 .. RX_BUFF - 1
    BY <1>1
  <2>2. x % RX_BUFF = x
    BY <2>1
  <2> QED
    BY <1>1, <2>2 DEF SlotOf
<1>2. CASE x >= RX_BUFF
  <2> DEFINE y == x - RX_BUFF
  <2>1. y \in 0 .. RX_BUFF - 1 /\ x = RX_BUFF + y
    BY <1>2
  <2>2. (RX_BUFF + y) % RX_BUFF = y
    BY <2>1
  <2> QED
    BY <1>2, <2>1, <2>2 DEF SlotOf
<1> QED
  BY <1>1, <1>2

\* The slot after slot t
LEMMA NextValue ==
    ASSUME RX_BUFF \in Nat, RX_BUFF > 1, NEW t \in 0 .. RX_BUFF - 1
    PROVE  (t + 1) % RX_BUFF = IF t + 1 = RX_BUFF THEN 0 ELSE t + 1
<1>1. CASE t + 1 = RX_BUFF
  <2>1. RX_BUFF % RX_BUFF = 0
    OBVIOUS
  <2> QED
    BY <1>1, <2>1
<1>2. CASE t + 1 # RX_BUFF
  <2> DEFINE y == t + 1
  <2>1. y \in 0 .. RX_BUFF - 1
    BY <1>2
  <2>2. y % RX_BUFF = y
    BY <2>1
  <2> QED
    BY <1>2, <2>2
<1> QED
  BY <1>1, <1>2

\* The k-th byte after the next slot is the one after the k-th.
LEMMA SlotNext ==
    ASSUME RX_BUFF \in Nat, RX_BUFF > 1, NEW h \in 0 .. RX_BUFF - 1, NEW k \in 1 .. RX_BUFF - 1,
           NEW g, g = IF h + 1 = RX_BUFF THEN 0 ELSE h + 1
    PROVE  SlotOf(g, k) = SlotOf(h, k + 1)
<1>1. g \in 0 .. RX_BUFF - 1 /\ k \in 1 .. RX_BUFF /\ k + 1 \in 1 .. RX_BUFF
  OBVIOUS
<1>2. SlotOf(g, k) = IF g + k - 1 < RX_BUFF THEN g + k - 1 ELSE g + k - 1 - RX_BUFF
  BY <1>1, SlotValue
<1>3. SlotOf(h, k + 1) = IF h + (k + 1) - 1 < RX_BUFF THEN h + (k + 1) - 1 ELSE h + (k + 1) - 1 - RX_BUFF
  BY <1>1, SlotValue
<1>4. CASE h + 1 = RX_BUFF
  BY <1>2, <1>3, <1>4
<1>5. CASE h + 1 # RX_BUFF
  BY <1>2, <1>3, <1>5
<1> QED
  BY <1>4, <1>5

\* available() is that number.
LEMMA BetweenValue ==
    ASSUME RX_BUFF \in Nat, RX_BUFF > 1, NEW h \in 0 .. RX_BUFF - 1, NEW t \in 0 .. RX_BUFF - 1
    PROVE  (t + RX_BUFF - h) % RX_BUFF = Between(h, t) /\ Between(h, t) \in 0 .. RX_BUFF - 1
<1>1. CASE t >= h
  <2> DEFINE y == t - h
  <2>1. y \in 0 .. RX_BUFF - 1 /\ t + RX_BUFF - h = RX_BUFF + y
    BY <1>1
  <2>2. (RX_BUFF + y) % RX_BUFF = y
    BY <2>1
  <2> QED
    BY <1>1, <2>1, <2>2 DEF Between
<1>2. CASE t < h
  <2>1. t + RX_BUFF - h \in 0 .. RX_BUFF - 1
    BY <1>2
  <2>2. (t + RX_BUFF - h) % RX_BUFF = t + RX_BUFF - h
    BY <2>1
  <2> QED
    BY <1>2, <2>2 DEF Between
<1> QED
  BY <1>1, <1>2

\* The ring, in these terms
Ordered ==
    /\ Len(kept) = Between(head, tail)
    /\ \A k \in 1 .. Len(kept) : buffer[SlotOf(head, k)] = kept[k]

\* RingOrder without remainders
LEMMA OrderedIsRing == SoftTypes => (RingOrder <=> Ordered)
<1> SUFFICES ASSUME SoftTypes PROVE RingOrder <=> Ordered
  OBVIOUS
<1>1. available = Between(head, tail)
  BY SoftAssumption, BetweenValue DEF SoftTypes, available
<1> QED
  BY <1>1 DEF RingOrder, Ordered, SlotOf

\* The handler adds a byte to a ring with room.
LEMMA AddKeeps ==
    ASSUME SoftTypes, Ordered, NEW x \in Owners \X Nat, Room, UNCHANGED head, tail' = NextTail,
           buffer' = [buffer EXCEPT ![tail] = x], kept' = Append(kept, x)
    PROVE  Ordered' /\ head # tail'
<1> USE SoftAssumption
<1>1. head \in 0 .. RX_BUFF - 1 /\ tail \in 0 .. RX_BUFF - 1 /\ kept \in Seq(Owners \X Nat)
      /\ buffer \in [0 .. RX_BUFF - 1 -> Owners \X Nat]
  BY DEF SoftTypes
<1> DEFINE n == Len(kept)
<1>2. n \in Nat /\ n = Between(head, tail) /\ n \in 0 .. RX_BUFF - 1
  BY <1>1, BetweenValue DEF Ordered
<1>3. NextTail = IF tail + 1 = RX_BUFF THEN 0 ELSE tail + 1
  BY <1>1, NextValue DEF NextTail
<1>4. Between(head, tail') = n + 1 /\ n + 1 <= RX_BUFF - 1
  BY <1>1, <1>2, <1>3 DEF Between, Room
<1>5. Len(kept') = n + 1 /\ \A k \in 1 .. n + 1 : kept'[k] = IF k <= n THEN kept[k] ELSE x
  BY <1>1, <1>2, AppendProperties, SMTT(30)
<1>6. \A k \in 1 .. n : SlotOf(head, k) \in 0 .. RX_BUFF - 1 /\ SlotOf(head, k) # tail
  <2> TAKE k \in 1 .. n
  <2>1. k \in 1 .. RX_BUFF
    BY <1>2
  <2>2. head \in 0 .. RX_BUFF - 1 /\ RX_BUFF \in Nat /\ RX_BUFF > 1
    BY <1>1
  <2>3. SlotOf(head, k) = IF head + k - 1 < RX_BUFF THEN head + k - 1 ELSE head + k - 1 - RX_BUFF
    BY <2>1, <2>2, SlotValue
  <2> QED
    BY <1>1, <1>2, <2>1, <2>3 DEF Between
<1>7. SlotOf(head, n + 1) = tail
  <2>1. n + 1 \in 1 .. RX_BUFF
    BY <1>2
  <2>2. SlotOf(head, n + 1) = IF head + (n + 1) - 1 < RX_BUFF THEN head + (n + 1) - 1 ELSE head + (n + 1) - 1 - RX_BUFF
    BY <1>1, <2>1, SlotValue, SMTT(30)
  <2> QED
    BY <1>1, <1>2, <2>2 DEF Between
<1>8. \A k \in 1 .. n + 1 : buffer'[SlotOf(head, k)] = IF k <= n THEN buffer[SlotOf(head, k)] ELSE x
  BY <1>1, <1>2, <1>6, <1>7, SMTT(30)
<1>9. \A k \in 1 .. n : buffer[SlotOf(head, k)] = kept[k]
  BY DEF Ordered
<1> HIDE DEF n
<1>10. \A k \in 1 .. n + 1 : buffer'[SlotOf(head, k)] = kept'[k]
  BY <1>2, <1>5, <1>8, <1>9
<1>11. Ordered'
  BY <1>4, <1>5, <1>10 DEF Ordered, SlotOf
<1> QED
  BY <1>3, <1>11 DEF Room

\* read() takes the first.
LEMMA TakeKeeps ==
    ASSUME SoftTypes, Ordered, head # tail, head' = (head + 1) % RX_BUFF, kept' = Tail(kept),
           UNCHANGED <<buffer, tail>>
    PROVE  Ordered' /\ head' \in 0 .. RX_BUFF - 1 /\ kept # <<>>
<1> USE SoftAssumption
<1>1. head \in 0 .. RX_BUFF - 1 /\ tail \in 0 .. RX_BUFF - 1 /\ kept \in Seq(Owners \X Nat)
  BY DEF SoftTypes
<1> DEFINE n == Len(kept)
<1>2. n = Between(head, tail) /\ n \in 1 .. RX_BUFF - 1
  BY <1>1, BetweenValue DEF Ordered, Between
<1>3. head' = IF head + 1 = RX_BUFF THEN 0 ELSE head + 1
  BY <1>1, NextValue
<1>4. head' \in 0 .. RX_BUFF - 1 /\ Between(head', tail) = n - 1
  <2> HIDE DEF n
  <2>1. head' \in 0 .. RX_BUFF - 1
    BY <1>1, <1>3
  <2>2. n = (IF head <= tail THEN tail - head ELSE tail - head + RX_BUFF) /\ n > 0
    BY <1>2 DEF Between
  <2>3. Between(head', tail) = n - 1
    BY <1>1, <1>3, <2>2 DEF Between
  <2> QED
    BY <2>1, <2>3
<1>5. Len(kept') = n - 1 /\ \A k \in 1 .. n - 1 : kept'[k] = kept[k + 1]
  BY <1>1, <1>2
<1>6. \A k \in 1 .. n - 1 : SlotOf(head', k) = SlotOf(head, k + 1)
  <2> TAKE k \in 1 .. n - 1
  <2>1. k \in 1 .. RX_BUFF - 1 /\ RX_BUFF > 1
    BY <1>2
  <2> QED
    BY <1>1, <1>3, <2>1, SlotNext
<1>7. \A k \in 1 .. n : buffer[SlotOf(head, k)] = kept[k]
  BY DEF Ordered
<1> HIDE DEF n
<1>8. \A k \in 1 .. n - 1 : buffer'[SlotOf(head', k)] = kept'[k]
  BY <1>2, <1>5, <1>6, <1>7
<1>9. Ordered'
  BY <1>4, <1>5, <1>8 DEF Ordered, SlotOf
<1>10. kept # <<>>
  BY <1>1, <1>2 DEF n
<1> QED
  BY <1>4, <1>9, <1>10

\* Steps that neither add nor take
LEMMA RingUntouched == ASSUME RingOrder, UNCHANGED <<ring, kept>> PROVE RingOrder'
<1>1. UNCHANGED <<buffer, tail, head, kept>>
  BY DEF ring
<1> QED
  BY <1>1 DEF RingOrder, available

\* No object listens at first.
LEMMA SoftStarts == SoftInit => SoftInv
<1> SUFFICES ASSUME SoftInit PROVE SoftInv
  OBVIOUS
<1> USE SoftAssumption DEF SoftInit
<1>1. Quiet \in Owners \X Nat
  BY DEF Quiet, Owners
<1>2. active_object = <<NULL, NULL>> /\ NULL \in Owners /\ <<>> \in Seq(Owners \X Nat)
  BY DEF Whole, Owners
<1>3. rxFlag \in BOOLEAN
  BY Zenon
<1>4. SoftTypes
  BY <1>1, <1>2, <1>3 DEF SoftTypes, Waiting, Parked
<1>5. Pointer /\ Taken /\ Lines /\ OwnPinOnly /\ WholePointer
  BY <1>2 DEF Pointer, Taken, Lines, OwnPinOnly, WholePointer, Listening, Waiting, Parked
<1>6. Own
  BY <1>2 DEF Own, Listening
<1>7. Ordered
  BY DEF Ordered, Between
<1> QED
  BY <1>4, <1>5, <1>6, <1>7, OrderedIsRing DEF SoftInv

\* A call begins.
LEMMA CallKeeps ==
    ASSUME SoftInv, NEW o \in Objects, begin(o) \/ listen(o) \/ end(o) \/ read(o)
    PROVE  SoftInv'
<1> USE SoftAssumption DEF SoftInv, Call, pinState
<1>1. /\ UNCHANGED <<active_object, ring, rxMask, rxFlag, line, frames, kept, late, tornObject>>
      /\ pc = "idle" /\ pc' \in {"idle", "listen", "mask", "free"}
      /\ pc' = "mask" \/ pc' = "free" => Listening = o
      /\ pc' = "free" => head # tail
      /\ this' \in {this, o, NULL} /\ (pc' = "listen" => this' = o)
  BY DEF begin, listen, end, read
<1>2. SoftTypes' /\ Pointer' /\ Taken'
  BY <1>1 DEF SoftTypes, Pointer, Taken, ring, Waiting, Parked, Owners, Listening
<1>3. Own' /\ Lines' /\ OwnPinOnly' /\ WholePointer'
  BY <1>1 DEF Own, Lines, OwnPinOnly, WholePointer, Waiting, Parked, Listening
<1>4. RingOrder'
  BY <1>1, RingUntouched
<1> QED
  BY <1>2, <1>3, <1>4

\* Its steps
LEMMA StepKeeps ==
    ASSUME SoftInv,
           Listen \/ Mask \/ NullLow \/ NullHigh \/ ThisLow \/ ThisHigh \/ UnmaskRx
    PROVE  SoftInv'
<1> USE SoftAssumption DEF SoftInv, pinState
<1>1. UNCHANGED <<ring, line, rxFlag, frames, kept, tornObject>>
  BY DEF Listen, Mask, NullLow, NullHigh, ThisLow, ThisHigh, UnmaskRx, Store
<1>2. RingOrder' /\ Lines'
  BY <1>1, RingUntouched DEF Lines
<1>4. CASE Listen
  <2> USE <1>1, <1>4 DEF Listen, Waiting, Parked, Owners, Listening
  <2>1. SoftTypes' /\ Pointer'
    BY DEF SoftTypes, Pointer, ring
  <2>2. Taken' /\ Own' /\ WholePointer'
    BY DEF SoftTypes, Pointer, Taken, Own, WholePointer, ring
  <2>3. OwnPinOnly'
    BY DEF SoftTypes, Pointer, OwnPinOnly
  <2> QED
    BY <1>2, <2>1, <2>2, <2>3
<1>5. CASE Mask
  <2> USE <1>1, <1>5 DEF Mask, Cleared, Waiting, Parked, Owners, Listening
  <2>1. SoftTypes' /\ Pointer'
    BY DEF SoftTypes, Pointer, ring
  <2>2. Taken' /\ Own'
    BY DEF Taken, Own
  <2>3. late' <=> late \/ rxFlag
    OBVIOUS
  <2>4. WholePointer'
    BY <2>3 DEF WholePointer
  <2>5. pc = "mask" /\ pc' = "nullLow" /\ active_object[1] \in Objects /\ rxMask' = rxMask \ {active_object[1]}
    BY DEF Pointer
  <2>6. OwnPinOnly'
    BY <2>3, <2>5 DEF OwnPinOnly
  <2> QED
    BY <1>2, <2>1, <2>2, <2>4, <2>6
<1>6. CASE NullLow
  <2>1. /\ active_object' = [active_object EXCEPT ![1] = NULL] /\ pc = "nullLow"
        /\ pc' = "nullHigh"
        /\ UNCHANGED <<rxMask, late, this>>
    BY <1>6 DEF NullLow, Store
  <2>2. DOMAIN active_object = {1, 2}
    BY DEF SoftTypes
  <2>3. /\ active_object'[1] = NULL /\ active_object'[2] = active_object[2]
        /\ DOMAIN active_object' = {1, 2}
    BY <2>1, <2>2
  <2> USE <1>1, <2>1, <2>3 DEF Waiting, Parked, Owners, Listening
  <2>4. SoftTypes'
    BY DEF SoftTypes, ring
  <2>5. Pointer'
    BY DEF SoftTypes, Pointer
  <2>6. Taken' /\ WholePointer'
    BY DEF Taken, WholePointer
  <2>7. Own'
    BY DEF Own, Pointer
  <2>8. OwnPinOnly'
    BY DEF OwnPinOnly
  <2> QED
    BY <1>2, <2>4, <2>5, <2>6, <2>7, <2>8
<1>7. CASE NullHigh
  <2>1. /\ active_object' = [active_object EXCEPT ![2] = NULL] /\ pc = "nullHigh"
        /\ pc' = IF this = NULL THEN "idle" ELSE "reset"
        /\ UNCHANGED <<rxMask, late, this>>
    BY <1>7 DEF NullHigh, Store
  <2>2. DOMAIN active_object = {1, 2}
    BY DEF SoftTypes
  <2>3. /\ active_object'[2] = NULL /\ active_object'[1] = active_object[1]
        /\ DOMAIN active_object' = {1, 2}
    BY <2>1, <2>2
  <2> USE <1>1, <2>1, <2>3 DEF Waiting, Parked, Owners, Listening
  <2>4. SoftTypes'
    BY DEF SoftTypes, ring
  <2>5. Pointer'
    BY DEF SoftTypes, Pointer
  <2>6. Taken' /\ WholePointer'
    BY DEF Taken, WholePointer
  <2>7. Own'
    BY DEF Own, Pointer
  <2>8. OwnPinOnly'
    BY DEF OwnPinOnly, Pointer
  <2> QED
    BY <1>2, <2>4, <2>5, <2>6, <2>7, <2>8
<1>8. CASE ThisLow
  <2>1. /\ active_object' = [active_object EXCEPT ![1] = this] /\ pc = "thisLow"
        /\ pc' = "thisHigh"
        /\ UNCHANGED <<rxMask, late, this>>
    BY <1>8 DEF ThisLow, Store
  <2>2. DOMAIN active_object = {1, 2}
    BY DEF SoftTypes
  <2>3. /\ active_object'[1] = this /\ active_object'[2] = active_object[2]
        /\ DOMAIN active_object' = {1, 2}
    BY <2>1, <2>2
  <2> USE <1>1, <2>1, <2>3 DEF Waiting, Parked, Owners, Listening
  <2>4. SoftTypes'
    BY DEF SoftTypes, ring
  <2>5. Pointer'
    BY DEF SoftTypes, Pointer
  <2>6. Taken' /\ WholePointer'
    BY DEF Taken, WholePointer
  <2>7. Own'
    BY DEF Own, Pointer
  <2>8. OwnPinOnly'
    BY DEF OwnPinOnly
  <2> QED
    BY <1>2, <2>4, <2>5, <2>6, <2>7, <2>8
<1>9. CASE ThisHigh
  <2>1. /\ active_object' = [active_object EXCEPT ![2] = this] /\ pc = "thisHigh"
        /\ pc' = "unmask"
        /\ UNCHANGED <<rxMask, late, this>>
    BY <1>9 DEF ThisHigh, Store
  <2>2. DOMAIN active_object = {1, 2}
    BY DEF SoftTypes
  <2>3. /\ active_object'[2] = this /\ active_object'[1] = active_object[1]
        /\ DOMAIN active_object' = {1, 2}
    BY <2>1, <2>2
  <2> USE <1>1, <2>1, <2>3 DEF Waiting, Parked, Owners, Listening
  <2>4. SoftTypes'
    BY DEF SoftTypes, ring
  <2>5. Pointer'
    BY DEF SoftTypes, Pointer
  <2>6. Taken' /\ WholePointer'
    BY DEF Taken, WholePointer
  <2>7. Own'
    BY DEF Own, Pointer
  <2>8. OwnPinOnly'
    BY DEF OwnPinOnly
  <2> QED
    BY <1>2, <2>4, <2>5, <2>6, <2>7, <2>8
<1>10. CASE UnmaskRx
  <2> USE <1>1, <1>10 DEF UnmaskRx, Waiting, Parked, Owners, Listening
  <2>1. SoftTypes' /\ Pointer'
    BY DEF SoftTypes, Pointer, ring
  <2>2. Taken' /\ Own' /\ WholePointer'
    BY DEF SoftTypes, Pointer, Taken, Own, WholePointer, ring
  <2>3. OwnPinOnly'
    BY DEF SoftTypes, Pointer, OwnPinOnly
  <2> QED
    BY <1>2, <2>1, <2>2, <2>3
<1> QED
  BY <1>4, <1>5, <1>6, <1>7, <1>8, <1>9, <1>10

\* The ring is emptied while nothing can be received, and a byte is freed.
LEMMA ResetKeeps == ASSUME SoftInv, Reset PROVE SoftInv'
<1> USE SoftAssumption DEF SoftInv
<1>1. /\ pc = "reset" /\ pc' = "thisLow" /\ tail' = 0 /\ head' = 0 /\ kept' = <<>>
      /\ UNCHANGED <<active_object, buffer, rxMask, rxFlag, line, this, frames, late, tornObject>>
  BY DEF Reset, ResetTail, pinState
<1>2. kept' \in Seq(Owners \X Nat) /\ Len(kept') = 0
  BY <1>1
<1>3. SoftTypes'
  <2>1. head' \in 0 .. RX_BUFF - 1 /\ tail' \in 0 .. RX_BUFF - 1
    BY <1>1
  <2>2. /\ buffer' \in [0 .. RX_BUFF - 1 -> Owners \X Nat] /\ rxMask' \subseteq Objects /\ rxFlag' \in BOOLEAN
        /\ line' \in [Objects -> Owners \X Nat] /\ frames' \in Nat
    BY <1>1 DEF SoftTypes
  <2>3. /\ active_object'[1] \in Owners /\ active_object'[2] \in Owners /\ DOMAIN active_object' = {1, 2}
        /\ this' \in Owners /\ pc' \in Waiting \union Parked
    BY <1>1 DEF SoftTypes, Parked
  <2> QED
    BY <1>2, <2>1, <2>2, <2>3 DEF SoftTypes
<1>4. Pointer' /\ Taken'
  BY <1>1 DEF Pointer, Taken, Waiting, Parked, Listening
<1>5. Own' /\ Lines'
  <2>1. Lines'
    BY <1>1 DEF Lines
  <2>2. \A k \in 1 .. Len(kept') : FALSE
    BY <1>2
  <2>3. Own'
    BY <2>2 DEF Own
  <2> QED
    BY <2>1, <2>3
<1>6. OwnPinOnly' /\ WholePointer'
  BY <1>1 DEF OwnPinOnly, WholePointer, Waiting, Parked, Listening
<1>7. Ordered'
  <2>1. Between(head', tail') = 0
    BY <1>1 DEF Between
  <2>2. \A k \in 1 .. Len(kept') : FALSE
    BY <1>2
  <2> QED
    BY <1>2, <2>1, <2>2 DEF Ordered
<1>8. RingOrder'
  <2>1. (SoftTypes => (RingOrder <=> Ordered))'
    BY OrderedIsRing, PTL
  <2> QED
    BY <1>3, <1>7, <2>1
<1> QED
  BY <1>3, <1>4, <1>5, <1>6, <1>8

\* read() gives its slot back: the byte was the first of those saved.
LEMMA FreeKeeps == ASSUME SoftInv, Free PROVE SoftInv'
<1> USE SoftAssumption DEF SoftInv, pinState, Free
<1>1. Ordered
  BY OrderedIsRing
<1>2. Ordered' /\ head' \in 0 .. RX_BUFF - 1 /\ kept # <<>>
  BY <1>1, TakeKeeps DEF Taken
<1>3. kept \in Seq(Owners \X Nat) /\ kept' = Tail(kept)
  BY DEF SoftTypes
<1>4. /\ kept' \in Seq(Owners \X Nat) /\ Len(kept') = Len(kept) - 1 /\ Len(kept) \in Nat
      /\ \A k \in 1 .. Len(kept') : kept'[k] = kept[k + 1]
  BY <1>2, <1>3
<1>5. SoftTypes' /\ Pointer' /\ Taken' /\ Lines' /\ OwnPinOnly' /\ WholePointer'
  BY <1>2, <1>4 DEF SoftTypes, Pointer, Taken, Lines, OwnPinOnly, WholePointer, Waiting, Parked,
     Listening, Owners
<1>6. Own'
  <2>1. pc = "free" /\ pc' = "idle" /\ active_object' = active_object
    OBVIOUS
  <2>2. ASSUME Listening # NULL, NEW k \in 1 .. Len(kept')
        PROVE  kept'[k][1] = Listening
    <3>1. k \in Nat /\ k + 1 \in 1 .. Len(kept) /\ kept'[k] = kept[k + 1]
      BY <1>4
    <3>2. \A l \in 1 .. Len(kept) : kept[l][1] = Listening
      BY <2>1, <2>2 DEF Own, Waiting
    <3> QED
      BY <3>1, <3>2
  <2> QED
    BY <2>1, <2>2 DEF Own, Listening
<1>7. RingOrder'
  <2>1. (SoftTypes => (RingOrder <=> Ordered))'
    BY OrderedIsRing, PTL
  <2> QED
    BY <1>2, <1>5, <2>1
<1> QED
  BY <1>5, <1>6, <1>7

\* Frames come and go.
LEMMA LineKeeps == ASSUME SoftInv, NEW o \in Objects, StartBit(o) \/ StopBit(o) PROVE SoftInv'
<1> USE SoftAssumption DEF SoftInv
<1>1. /\ UNCHANGED <<active_object, ring, rxMask, pc, this, kept, late, tornObject>>
      /\ (rxFlag' => rxFlag \/ rxMask # {}) /\ rxFlag' \in BOOLEAN /\ frames' \in Nat
  <2>1. CASE StartBit(o)
    <3>1. frames' \in Nat
      BY <2>1 DEF StartBit, SoftTypes
    <3>2. rxFlag' <=> (rxFlag \/ o \in rxMask)
      BY <2>1 DEF StartBit
    <3>3. rxFlag' \in BOOLEAN
      BY <2>1, Zenon DEF StartBit
    <3> QED
      BY <2>1, <3>1, <3>2, <3>3 DEF StartBit
  <2>2. CASE StopBit(o)
    BY <2>2 DEF StopBit, SoftTypes
  <2> QED
    BY <2>1, <2>2
<1>2. line' \in [Objects -> Owners \X Nat] /\ Lines'
  <2>1. Quiet \in Owners \X Nat /\ <<o, frames + 1>> \in Owners \X Nat /\ <<o, frames + 1>>[1] = o
    BY DEF Quiet, Owners, SoftTypes
  <2>2. line' = [line EXCEPT ![o] = Quiet] \/ line' = [line EXCEPT ![o] = <<o, frames + 1>>]
    BY DEF StartBit, StopBit
  <2> QED
    BY <2>1, <2>2, SMTT(30) DEF SoftTypes, Lines
<1>3. SoftTypes' /\ Pointer' /\ Taken' /\ Own' /\ WholePointer'
  BY <1>1, <1>2 DEF SoftTypes, Pointer, Taken, Own, WholePointer, ring, Listening
<1>4. OwnPinOnly'
  BY <1>1 DEF OwnPinOnly, Listening
<1>5. RingOrder'
  BY <1>1, RingUntouched
<1> QED
  BY <1>2, <1>3, <1>4, <1>5

\* The handler receives for the object that listens.
LEMMA HandlerKeeps == ASSUME SoftInv, handle_interrupt PROVE SoftInv'
<1> USE SoftAssumption DEF SoftInv
<1> DEFINE o == active_object[1]
<1>1. /\ UNCHANGED <<active_object, begun, pc, this, frames, late>> /\ rxFlag
      /\ tornObject' = (tornObject \/ active_object[1] # active_object[2])
  BY DEF handle_interrupt
<1>2. ~late => pc \in Waiting /\ Listening # NULL /\ rxMask = {o} /\ ~tornObject'
  BY <1>1 DEF OwnPinOnly, SoftTypes, Pointer, WholePointer, Listening, Waiting, Parked
<1>3. WholePointer' /\ Pointer'
  BY <1>1, <1>2 DEF WholePointer, Pointer, Listening
<1>4. CASE UNCHANGED <<ring, line, kept, rxMask>> /\ rxFlag' = FALSE
  <2>1. SoftTypes' /\ Taken' /\ Own' /\ Lines' /\ OwnPinOnly'
    BY <1>1, <1>4 DEF SoftTypes, Taken, Own, Lines, OwnPinOnly, ring, Listening
  <2> QED
    BY <1>3, <1>4, <2>1, RingUntouched
<1>5. CASE /\ o # NULL /\ o = active_object[2] /\ line[o] # Quiet
           /\ line' = [line EXCEPT ![o] = Quiet] /\ rxFlag' \in BOOLEAN /\ rxMask' = rxMask \union {o}
           /\ \/ /\ Room /\ buffer' = [buffer EXCEPT ![tail] = line[o]] /\ tail' = NextTail
                 /\ kept' = Append(kept, line[o]) /\ UNCHANGED <<head, overflow>>
              \/ UNCHANGED <<buffer, tail, head, kept>>
  <2>1. o \in Objects /\ line[o] \in Owners \X Nat /\ line[o][1] = o
    BY <1>5 DEF SoftTypes, Owners, Lines
  <2>2. Quiet \in Owners \X Nat
    BY DEF Quiet, Owners
  <2>3. line' \in [Objects -> Owners \X Nat] /\ Lines'
    BY <1>5, <2>1, <2>2 DEF SoftTypes, Lines
  <2>4. OwnPinOnly'
    BY <1>1, <1>2, <1>5 DEF OwnPinOnly, Listening
  <2>5. CASE /\ Room /\ buffer' = [buffer EXCEPT ![tail] = line[o]] /\ tail' = NextTail
             /\ kept' = Append(kept, line[o]) /\ UNCHANGED <<head, overflow>>
    <3>1. Ordered' /\ head # tail'
      BY <2>1, <2>5, AddKeeps, OrderedIsRing
    <3>2. NextTail \in 0 .. RX_BUFF - 1
      BY DEF NextTail, SoftTypes
    <3>3. kept' \in Seq(Owners \X Nat)
      BY <2>1, <2>5 DEF SoftTypes
    <3>4. SoftTypes' /\ Taken'
      BY <1>1, <1>5, <2>1, <2>3, <2>5, <3>1, <3>2, <3>3 DEF SoftTypes, Taken
    <3>5. Own'
      <4>1. Len(kept') = Len(kept) + 1 /\ Len(kept) \in Nat
            /\ \A k \in 1 .. Len(kept') : kept'[k] = IF k <= Len(kept) THEN kept[k] ELSE line[o]
        BY <2>1, <2>5, SMTT(30) DEF SoftTypes
      <4>2. pc \in {"thisLow", "thisHigh", "unmask"} => this = o
        BY <1>5 DEF Pointer
      <4> QED
        <5>1. ASSUME \A k \in 1 .. Len(kept) : kept[k][1] = o
              PROVE  \A k \in 1 .. Len(kept') : kept'[k][1] = o
          <6> TAKE k \in 1 .. Len(kept')
          <6>1. kept'[k] = IF k <= Len(kept) THEN kept[k] ELSE line[o]
            BY <4>1
          <6>2. k <= Len(kept) => k \in 1 .. Len(kept)
            BY <4>1
          <6> HIDE DEF o
          <6> QED
            BY <2>1, <5>1, <6>1, <6>2
        <5>2. pc \in Waiting /\ Listening # NULL => \A k \in 1 .. Len(kept) : kept[k][1] = o
          BY DEF Own, Listening
        <5>3. pc \in {"thisLow", "thisHigh", "unmask"} => \A k \in 1 .. Len(kept) : kept[k][1] = o
          BY <4>2 DEF Own
        <5>4. pc' = pc /\ this' = this /\ active_object'[1] = o /\ active_object[1] = o
          BY <1>1
        <5> HIDE DEF o
        <5> QED
          <6>1. pc' \in Waiting /\ Listening' # NULL => \A k \in 1 .. Len(kept') : kept'[k][1] = Listening'
            BY <5>1, <5>2, <5>4 DEF Listening
          <6>2. pc' \in {"thisLow", "thisHigh", "unmask"} => \A k \in 1 .. Len(kept') : kept'[k][1] = this'
            BY <4>2, <5>1, <5>3, <5>4
          <6> QED
            BY <6>1, <6>2 DEF Own
    <3>6. RingOrder'
      <4>1. (SoftTypes => (RingOrder <=> Ordered))'
        BY OrderedIsRing, PTL
      <4> QED
        BY <3>1, <3>4, <4>1
    <3> QED
      BY <1>3, <2>3, <2>4, <3>4, <3>5, <3>6
  <2>6. CASE UNCHANGED <<buffer, tail, head, kept>>
    <3>1. SoftTypes' /\ Taken' /\ Own'
      BY <1>1, <1>5, <2>1, <2>3, <2>6 DEF SoftTypes, Taken, Own, Listening
    <3>2. RingOrder'
      BY <2>6 DEF RingOrder, available
    <3> QED
      BY <1>3, <2>3, <2>4, <3>1, <3>2
  <2> QED
    BY <1>5, <2>5, <2>6
<1> QED
  BY <1>4, <1>5 DEF handle_interrupt, recv

\* Every step of the sketch, the lines and the handler keeps the invariant.
LEMMA SoftKeeps == ASSUME SoftInv, [HandlersNext]_handlerVars PROVE SoftInv'
<1>1. CASE SoftNext
  BY <1>1, CallKeeps, StepKeeps, ResetKeeps, FreeKeeps, LineKeeps, HandlerKeeps DEF SoftNext, Sketch
<1>2. CASE UNCHANGED softVars
  <2> USE <1>2 DEF softVars, ring, pinState, SoftInv
  <2>1. SoftTypes' /\ Pointer' /\ Taken' /\ Own' /\ Lines' /\ OwnPinOnly'
    BY DEF SoftTypes, Pointer, Taken, Own, Lines, OwnPinOnly, Listening
  <2>2. RingOrder' /\ WholePointer'
    BY DEF RingOrder, available, WholePointer
  <2> QED
    BY <2>1, <2>2
<1> QED
  BY <1>1, <1>2 DEF HandlersNext, handlerVars

\* The invariant says what is promised of read() and available().
LEMMA SoftIsTrue == SoftInv => ReceivedTrue
<1> SUFFICES ASSUME SoftInv PROVE ReceivedTrue
  OBVIOUS
<1>1. RingOrder /\ WholePointer /\ MaskFollows
  BY DEF SoftInv, MaskFollows, OwnPinOnly, Waiting
<1>2. Fresh
  <2> SUFFICES ASSUME pc = "idle", Listening # NULL, NEW k \in 1 .. available
               PROVE  buffer[(head + k - 1) % RX_BUFF][1] = Listening
    BY DEF Fresh
  <2> QED
    BY <1>1 DEF SoftInv, RingOrder, Own, Waiting
<1> QED
  BY <1>1, <1>2 DEF ReceivedTrue

\* What an object reads was received, in order, by itself since it listens, although the
\* handler comes between the two bytes of the pointer, and between the read and the free
\* of a slot: for any objects and any size of the buffer.
THEOREM ReceivedAlwaysTrue == HandlersSpec => []ReceivedTrue
<1>1. HandlersInit => SoftInv
  BY SoftStarts DEF HandlersInit
<1>2. SoftInv /\ [HandlersNext]_handlerVars => SoftInv'
  BY SoftKeeps
<1> QED
  BY <1>1, <1>2, SoftIsTrue, PTL DEF HandlersSpec

-----------------------------------------------------------------------------
(* External interrupts and SPI *)

Places == {"idle", "high", "load", "store", "enable"}
Functions == Callbacks \union {"nothing"}

\* In a transaction that masks interrupts one by one
Masked == inTx /\ interruptMode = 1

MaskTypes ==
    /\ EICRA \in [INTS -> SUBSET {0, 1}] /\ modes \in [INTS -> SUBSET {0, 1}]
    /\ tmp \in [INTS -> SUBSET {0, 1}]
    /\ intFunc \in [INTS -> Functions \X Functions]
    /\ EIMSK \subseteq INTS /\ (Masked => interruptSave \subseteq INTS)
    /\ I \in BOOLEAN /\ want \in BOOLEAN /\ inTx \in BOOLEAN
    /\ interruptMode \in 0 .. 2 /\ place \in Places
    /\ ~Idle => args[1] \in INTS /\ args[2] \in Functions /\ args[3] \in SUBSET {0, 1}

\* A registered interrupt is one that transactions mask.
Known ==
    /\ 255 \in registered => interruptMode = 2
    /\ \A n \in registered \intersect INTS :
          interruptMode = 2 \/ (interruptMode = 1 /\ n \in interruptMask)
Covered(n) == 255 \in registered \/ n \in registered

\* What endTransaction() will make of EIMSK
Standing == IF Masked THEN interruptSave ELSE EIMSK

\* Callbacks that use the bus, now or after the transaction, are registered.
BusCallbacks ==
    \A n \in INTS : intFunc[n] = Both("spi") /\ (n \in EIMSK \/ n \in Standing) => Covered(n)

\* In a transaction none of them runs.
Excluded ==
    inTx => IF interruptMode = 2 THEN ~I
            ELSE \A n \in EIMSK : intFunc[n] # Both("spi")

\* The callback that attachInterrupt() stores
Attaching ==
    /\ ~Idle /\ args[2] = "spi" => ~inTx /\ Covered(args[1])
    /\ place \in {"load", "store", "enable"} =>
          args[2] # "nothing" /\ intFunc[args[1]] \in {Both(args[2]), Both("nothing")}

\* A callback in halves is not called: interrupts are off, or this one is.
Halves ==
    /\ \A n \in INTS : intFunc[n][1] # intFunc[n][2] => place = "high" /\ n = args[1]
    /\ place = "high" => IF args[2] = "nothing" THEN args[1] \notin EIMSK ELSE ~I
    /\ place = "high" => intFunc[args[1]][1] = args[2]

\* The I bit is what the sketch wants but for attachInterrupt() and transactions, which
\* remember it.
Remembered ==
    /\ ~(place = "high" /\ args[2] # "nothing") => (I <=> Restored)
    /\ inTx /\ interruptMode = 2 => (7 \in interruptSave <=> want)

AsAttached == \A n \in INTS \ undone : n \in Standing <=> n \in attached

\* The register image of EICRA has the modes of the other interrupts.
Image == place = "store" => \A n \in INTS \ (lost \union {args[1]}) : tmp[n] = modes[n]

MaskInv ==
    /\ MaskTypes /\ Known /\ BusCallbacks /\ Excluded /\ Attaching /\ Halves /\ Remembered
    /\ AsAttached /\ Image /\ BusMine /\ WholeCallback /\ ModesKept

\* The parts of the invariant, as the steps need them
LEMMA InvParts ==
    ASSUME MaskInv
    PROVE  /\ BusMine /\ WholeCallback /\ ModesKept
           /\ \A n \in INTS : /\ intFunc[n] \in Functions \X Functions
                              /\ intFunc[n][1] \in Functions /\ intFunc[n][2] \in Functions
                              /\ intFunc[n] = <<intFunc[n][1], intFunc[n][2]>>
BY DEF MaskInv, MaskTypes

\* attachInterrupt() begins: interrupts go off before the pointer is stored (WInterrupts.c:77).
LEMMA AttachKeeps ==
    ASSUME MaskInv, NEW n \in INTS, NEW f \in Callbacks, NEW mode \in Triggers,
           attachInterrupt(n, f, mode)
    PROVE  MaskInv'
<1> USE MasksAssumption DEF MaskInv, ext, spi, asked, Idle, Both, attachInterrupt
<1>1. MaskTypes'
  <2>1. intFunc' = [intFunc EXCEPT ![n] = <<f, intFunc[n][2]>>]
    BY DEF StoreLow
  <2>2. <<f, intFunc[n][2]>> \in Functions \X Functions
    BY InvParts DEF Functions
  <2>3. intFunc' \in [INTS -> Functions \X Functions]
    BY <2>1, <2>2 DEF MaskTypes
  <2>4. args'[1] = n /\ args'[2] = f /\ args'[3] = mode /\ f \in Functions /\ mode \in SUBSET {0, 1}
    BY DEF Functions
  <2> QED
    BY <2>3, <2>4 DEF MaskTypes, Masked, Places
<1>2. Known' /\ BusCallbacks' /\ Excluded' /\ Attaching' /\ Halves'
  BY DEF Known, BusCallbacks, Excluded, Attaching, Halves, Covered, Standing, Masked, MaskTypes,
     Functions, Callbacks, StoreLow
<1>3. Remembered' /\ AsAttached' /\ Image' /\ BusMine' /\ WholeCallback' /\ ModesKept'
  BY DEF Remembered, Restored, AsAttached, Standing, Masked, Image, BusMine, WholeCallback,
     ModesKept, Callbacks
<1> QED
  BY <1>1, <1>2, <1>3

\* detachInterrupt() masks the interrupt first (WInterrupts.c:276).
LEMMA DetachKeeps == ASSUME MaskInv, NEW n \in INTS, detachInterrupt(n) PROVE MaskInv'
<1> USE MasksAssumption DEF MaskInv, ext, spi, asked, Idle, Both, detachInterrupt
<1>1. MaskTypes'
  <2>1. intFunc' = [intFunc EXCEPT ![n] = <<"nothing", intFunc[n][2]>>]
    BY DEF StoreLow
  <2>2. <<"nothing", intFunc[n][2]>> \in Functions \X Functions
    BY InvParts DEF Functions
  <2>3. intFunc' \in [INTS -> Functions \X Functions]
    BY <2>1, <2>2 DEF MaskTypes
  <2>4. args'[1] = n /\ args'[2] = "nothing" /\ args'[3] = {} /\ "nothing" \in Functions
    BY DEF Functions
  <2> QED
    BY <2>3, <2>4 DEF MaskTypes, Masked, Places
<1>2. Known' /\ BusCallbacks' /\ Excluded' /\ Attaching' /\ Halves'
  BY DEF Known, BusCallbacks, Excluded, Attaching, Halves, Covered, Standing, Masked, MaskTypes,
     Functions, StoreLow
<1>3. Remembered' /\ AsAttached' /\ Image' /\ BusMine' /\ WholeCallback' /\ ModesKept'
  BY DEF Remembered, Restored, AsAttached, Standing, Masked, Image, BusMine, WholeCallback,
     ModesKept, Asks, MaskTypes
<1> QED
  BY <1>1, <1>2, <1>3

\* The rest of attachInterrupt() and detachInterrupt()
LEMMA HighKeeps == ASSUME MaskInv, StoreHigh PROVE MaskInv'
<1> USE MasksAssumption DEF MaskInv, ext, spi, asked, Idle, Both
<1> DEFINE a == args[1]  f == args[2]
<1>1. /\ place = "high" /\ a \in INTS /\ f \in Functions /\ intFunc[a][1] = f
      /\ intFunc' = [intFunc EXCEPT ![a] = Both(f)]
      /\ intFunc'[a] = Both(f) /\ Both(f) \in Functions \X Functions
  <2>1. place = "high" /\ a \in INTS /\ f \in Functions /\ intFunc[a][1] = f
    BY DEF StoreHigh, Halves, MaskTypes
  <2>2. intFunc' = [intFunc EXCEPT ![a] = <<@[1], f>>]
    BY DEF StoreHigh
  <2>3. intFunc' = [intFunc EXCEPT ![a] = Both(f)]
    BY <2>1, <2>2
  <2> QED
    BY <2>1, <2>3 DEF MaskTypes
<1>2. CASE f = "nothing"
  <2>1. place' = "idle" /\ I' = I
    BY <1>2 DEF StoreHigh
  <2>2. MaskTypes'
    BY <1>1, <2>1 DEF MaskTypes, Masked, Places, StoreHigh
  <2>3. Known' /\ BusCallbacks' /\ Excluded' /\ Attaching' /\ Halves'
    BY <1>1, <1>2, <2>1 DEF StoreHigh, Known, BusCallbacks, Excluded, Attaching, Halves, Covered,
       Standing, Masked, MaskTypes
  <2>4. Remembered' /\ AsAttached' /\ Image' /\ BusMine' /\ WholeCallback' /\ ModesKept'
    BY <1>1, <1>2, <2>1 DEF StoreHigh, Remembered, Restored, AsAttached, Standing, Masked, Image,
       BusMine, WholeCallback, ModesKept
  <2> QED
    BY <2>2, <2>3, <2>4
<1>3. CASE f # "nothing"
  <2>1. place' = "load" /\ I' = Restored /\ args' = args
    BY <1>3 DEF StoreHigh
  <2>2. MaskTypes'
    <3>1. I' \in BOOLEAN
      BY <2>1 DEF Restored, MaskTypes
    <3> QED
      BY <1>1, <2>1, <3>1 DEF MaskTypes, Masked, Places, StoreHigh
  <2>3. Known' /\ Attaching' /\ Halves'
    BY <1>1, <1>3, <2>1 DEF StoreHigh, Known, Attaching, Halves, Covered, MaskTypes
  <2>4. BusCallbacks'
    <3>1. f = "spi" => Covered(a)
      BY <1>1 DEF Attaching
    <3> QED
      BY <1>1, <2>1, <3>1 DEF StoreHigh, BusCallbacks, Covered, Standing, Masked, MaskTypes
  <2>5. Excluded'
    <3>1. inTx => f # "spi"
      BY <1>1 DEF Attaching
    <3>2. inTx /\ interruptMode = 2 => ~I'
      BY <2>1 DEF Restored
    <3> QED
      BY <1>1, <2>1, <3>1, <3>2 DEF StoreHigh, Excluded, MaskTypes
  <2>6. Remembered'
    <3>1. Restored' = Restored /\ UNCHANGED <<inTx, interruptMode, interruptSave, want>>
      BY DEF StoreHigh, Restored
    <3>2. I' <=> Restored'
      BY <2>1, <3>1, Zenon
    <3> QED
      BY <3>1, <3>2 DEF Remembered
  <2>7. AsAttached' /\ Image' /\ BusMine' /\ WholeCallback' /\ ModesKept'
    BY <1>1, <1>3, <2>1 DEF StoreHigh, Remembered, Restored, AsAttached, Standing, Masked, Image,
       BusMine, WholeCallback, ModesKept
  <2> QED
    BY <2>2, <2>3, <2>4, <2>5, <2>6, <2>7
<1> QED
  BY <1>2, <1>3

\* The trigger mode is stored by a load and a store of EICRA.
LEMMA ModeKeeps == ASSUME MaskInv, LoadMode \/ StoreMode PROVE MaskInv'
<1> USE MasksAssumption DEF MaskInv, ext, spi, asked, Idle
<1>1. CASE LoadMode
  <2>1. MaskTypes' /\ Known' /\ BusCallbacks' /\ Excluded' /\ Attaching' /\ Halves'
    BY <1>1 DEF LoadMode, MaskTypes, Places, Known, BusCallbacks, Excluded, Attaching, Halves,
       Covered, Standing, Masked
  <2>2. Remembered' /\ AsAttached' /\ Image' /\ BusMine' /\ WholeCallback' /\ ModesKept'
    BY <1>1 DEF LoadMode, Remembered, Restored, AsAttached, Standing, Masked, Image, BusMine,
       WholeCallback, ModesKept
  <2> QED
    BY <2>1, <2>2
<1>2. CASE StoreMode
  <2>1. MaskTypes'
    BY <1>2 DEF StoreMode, SetBits, MaskTypes, Masked, Places
  <2>2. Known' /\ BusCallbacks' /\ Excluded' /\ Attaching' /\ Halves'
    BY <1>2 DEF StoreMode, Known, BusCallbacks, Excluded, Attaching, Halves, Covered, Standing, Masked
  <2>3. Remembered' /\ AsAttached' /\ Image' /\ BusMine' /\ WholeCallback'
    BY <1>2 DEF StoreMode, Remembered, Restored, AsAttached, Standing, Masked, Image, BusMine,
       WholeCallback
  <2>4. ModesKept'
    BY <1>2 DEF StoreMode, SetBits, ModesKept, Image, MaskTypes
  <2> QED
    BY <2>1, <2>2, <2>3, <2>4
<1> QED
  BY <1>1, <1>2

\* attachInterrupt() ends: the interrupt is on.
LEMMA EnableKeeps == ASSUME MaskInv, EnableInt PROVE MaskInv'
<1> USE MasksAssumption DEF MaskInv, ext, spi, asked, Idle, EnableInt, Both
<1>1. MaskTypes' /\ Known' /\ Attaching' /\ Halves'
  BY DEF MaskTypes, Masked, Places, Known, Attaching, Halves, Covered
<1>2. BusCallbacks' /\ Excluded'
  BY DEF BusCallbacks, Excluded, Attaching, Covered, Standing, Masked, MaskTypes
<1>3. Remembered' /\ AsAttached' /\ Image' /\ BusMine' /\ WholeCallback' /\ ModesKept'
  BY DEF Remembered, Restored, AsAttached, Standing, Masked, Image, BusMine, WholeCallback,
     ModesKept, Asks, MaskTypes
<1> QED
  BY <1>1, <1>2, <1>3

\* Registration changes neither masks nor callbacks.
LEMMA RegisterKeeps ==
    ASSUME MaskInv,
           spiBegin \/ spiEnd \/ \E n \in Numbers : usingInterrupt(n) \/ notUsingInterrupt(n)
    PROVE  MaskInv'
<1> USE MasksAssumption DEF MaskInv, ext, spi, SpiCall, Idle, SpiIdle, Both
<1>1. /\ UNCHANGED <<ext, I, place, args, tmp, inTx, attached, modes, want, undone, lost, torn>>
      /\ ~inTx /\ Idle /\ intruded' = intruded
  BY DEF spiBegin, spiEnd, usingInterrupt, notUsingInterrupt
<1>2. interruptMode' \in 0 .. 2
  BY DEF MaskTypes, spiBegin, spiEnd, usingInterrupt, notUsingInterrupt, LastEnd
<1>3. MaskTypes'
  BY <1>1, <1>2 DEF MaskTypes, Masked
<1>4. Known' /\ BusCallbacks'
  <2>1. CASE spiBegin
    BY <2>1 DEF spiBegin, Known, BusCallbacks, Covered, Standing, Masked
  <2>2. CASE spiEnd
    BY <1>1, <2>2 DEF spiEnd, LastEnd, SpiCallbacks, Known, BusCallbacks, Covered, Standing, Masked
  <2>3. ASSUME NEW n \in Numbers, usingInterrupt(n) PROVE Known' /\ BusCallbacks'
    BY <1>1, <2>3 DEF usingInterrupt, Known, BusCallbacks, Covered, Standing, Masked, MaskTypes
  <2>4. ASSUME NEW n \in Numbers, notUsingInterrupt(n) PROVE Known' /\ BusCallbacks'
    BY <1>1, <2>4 DEF notUsingInterrupt, SpiCallbacks, Known, BusCallbacks, Covered, Standing,
       Masked, MaskTypes
  <2> QED
    BY <2>1, <2>2, <2>3, <2>4
<1>5. Excluded' /\ Attaching' /\ Halves' /\ Remembered' /\ AsAttached' /\ Image'
  BY <1>1 DEF Excluded, Attaching, Halves, Remembered, Restored, AsAttached, Standing, Masked, Image
<1>6. BusMine' /\ WholeCallback' /\ ModesKept'
  BY <1>1 DEF BusMine, WholeCallback, ModesKept
<1> QED
  BY <1>3, <1>4, <1>5, <1>6

\* A transaction begins: registered interrupts are masked.
LEMMA BeginKeeps == ASSUME MaskInv, beginTransaction PROVE MaskInv'
<1> USE MasksAssumption DEF MaskInv, ext, spi, asked, Idle, SpiIdle, Both
<1>1. /\ UNCHANGED <<EICRA, intFunc, initialized, interruptMode, interruptMask, place, args, tmp,
                     asked, torn>>
      /\ ~inTx /\ inTx' /\ Idle /\ intruded' = FALSE
  BY DEF beginTransaction
<1>2. /\ interruptMode = 1 => interruptSave' = EIMSK /\ EIMSK' = EIMSK \ interruptMask /\ I' = I
      /\ interruptMode = 2 => interruptSave' = SREG /\ EIMSK' = EIMSK /\ I' = FALSE
      /\ interruptMode = 0 => EIMSK' = EIMSK /\ I' = I
  BY DEF beginTransaction
<1>3. interruptMode \in 0 .. 2 /\ I \in BOOLEAN /\ EIMSK \subseteq INTS
  BY DEF MaskTypes
<1>4. EIMSK' \subseteq INTS /\ I' \in BOOLEAN /\ inTx' \in BOOLEAN
  <2>1. CASE interruptMode = 0
    BY <1>1, <1>2, <1>3, <2>1
  <2>2. CASE interruptMode = 1
    BY <1>1, <1>2, <1>3, <2>2
  <2>3. CASE interruptMode = 2
    BY <1>1, <1>2, <1>3, <2>3
  <2> QED
    BY <1>3, <2>1, <2>2, <2>3
<1>5. MaskTypes'
  BY <1>1, <1>2, <1>3, <1>4 DEF MaskTypes, Masked
<1>6. Known' /\ Attaching' /\ Halves' /\ Image' /\ BusMine' /\ WholeCallback' /\ ModesKept'
  BY <1>1, <1>4 DEF Known, Attaching, Halves, Image, BusMine, WholeCallback, ModesKept
<1>7. Standing' = Standing /\ Standing = EIMSK
  BY <1>1, <1>2, <1>3 DEF Standing, Masked
<1>8. BusCallbacks' /\ AsAttached'
  BY <1>1, <1>2, <1>3, <1>7 DEF BusCallbacks, Covered, AsAttached
<1>9. Excluded'
  BY <1>1, <1>2, <1>3 DEF Excluded, BusCallbacks, Covered, Known
<1>10. Remembered'
  BY <1>1, <1>2, <1>3 DEF Remembered, Restored, SREG
<1> QED
  BY <1>5, <1>6, <1>8, <1>9, <1>10

\* It ends: what the transaction remembered is what the program wants.
LEMMA EndKeeps == ASSUME MaskInv, endTransaction PROVE MaskInv'
<1> USE MasksAssumption DEF MaskInv, ext, spi, asked, Idle, Both, endTransaction
<1>1. EIMSK' = Standing
  BY DEF Standing, Masked
<1>2. EIMSK' \subseteq INTS
  BY <1>1 DEF Standing, MaskTypes
<1>3. I' \in BOOLEAN
  <2>1. CASE interruptMode = 2
    <3>1. I' = (7 \in interruptSave)
      BY <2>1
    <3>2. (7 \in interruptSave) \in BOOLEAN
      BY SMT
    <3> QED
      BY <3>1, <3>2, Zenon
  <2>2. CASE interruptMode # 2
    BY <2>2 DEF MaskTypes
  <2> QED
    BY <2>1, <2>2
<1>4. MaskTypes'
  BY <1>2, <1>3 DEF MaskTypes, Masked
<1>5. Standing' = Standing
  BY <1>1 DEF Standing, Masked
<1>6. Known' /\ BusCallbacks' /\ Excluded' /\ Attaching' /\ AsAttached'
  BY <1>1, <1>5 DEF Known, BusCallbacks, Covered, Excluded, Attaching, AsAttached
<1>7. Halves' /\ Image' /\ BusMine' /\ WholeCallback' /\ ModesKept'
  BY DEF Halves, Image, BusMine, WholeCallback, ModesKept
<1>8. Remembered'
  BY DEF Remembered, Restored, MaskTypes
<1> QED
  BY <1>4, <1>6, <1>7, <1>8

\* No handler that uses the bus runs in a transaction, and none in halves.
LEMMA IntKeeps == ASSUME MaskInv, NEW n \in INTS, INT(n) PROVE MaskInv'
<1> USE MasksAssumption DEF MaskInv, ext, Idle, Both
<1>1. /\ UNCHANGED <<I, initialized, interruptMode, interruptMask, place, args, tmp, inTx,
                     registered, want>>
      /\ I /\ n \in EIMSK
  BY DEF INT
<1>2. intFunc[n][1] = intFunc[n][2] /\ (place = "high" => n # args[1] \/ args[2] = "nothing")
  BY <1>1 DEF Halves
<1>3. place = "high" => n # args[1]
  BY <1>1 DEF Halves
<1>4. ~torn'
  BY <1>2 DEF INT, WholeCallback
<1>5. CASE intFunc[n] = Both("spi")
  <2>1. ~inTx
    BY <1>1, <1>5 DEF Excluded
  <2>2. UsesBus
    BY <1>5 DEF INT
  <2>3. UNCHANGED <<ext, attached, modes, undone, lost>> /\ ~intruded' /\ ~inTx'
    BY <1>1, <2>1, <2>2 DEF UsesBus
  <2>4. MaskTypes' /\ Known' /\ BusCallbacks' /\ Excluded' /\ Attaching' /\ Halves'
    BY <1>1, <2>1, <2>3 DEF MaskTypes, Known, BusCallbacks, Excluded, Attaching, Halves, Covered,
       Standing, Masked
  <2>5. Remembered' /\ AsAttached' /\ Image' /\ BusMine' /\ WholeCallback' /\ ModesKept'
    BY <1>1, <1>4, <2>1, <2>3 DEF Remembered, Restored, AsAttached, Standing, Masked, Image,
       BusMine, WholeCallback, ModesKept
  <2> QED
    BY <2>4, <2>5
<1>6. CASE intFunc[n] = Both("flip")
  <2>1. Flips(n)
    BY <1>6 DEF INT
  <2>2. PICK mode \in Triggers : EICRA' = [EICRA EXCEPT ![n] = mode] /\ modes' = [modes EXCEPT ![n] = mode]
    BY <2>1 DEF Flips
  <2>3. /\ EIMSK' = EIMSK /\ attached' = attached \union {n} /\ undone' = Asks(n)
        /\ UNCHANGED <<intFunc, interruptSave, intruded>>
        /\ lost' = IF place = "store" /\ args[1] # n THEN lost \union {n} ELSE lost \ {n}
    BY <1>1, <2>1 DEF Flips
  <2>4. MaskTypes' /\ Known' /\ BusCallbacks' /\ Excluded' /\ Attaching' /\ Halves'
    BY <1>1, <2>2, <2>3 DEF MaskTypes, Known, BusCallbacks, Excluded, Attaching, Halves, Covered,
       Standing, Masked
  <2>5. AsAttached'
    BY <1>1, <2>3 DEF AsAttached, Standing, Masked, Asks, MaskTypes
  <2>6. Image' /\ ModesKept'
    BY <1>1, <2>2, <2>3 DEF Image, ModesKept, MaskTypes
  <2>7. Remembered' /\ BusMine' /\ WholeCallback'
    BY <1>1, <1>4, <2>3 DEF Remembered, Restored, BusMine, WholeCallback
  <2> QED
    BY <2>4, <2>5, <2>6, <2>7
<1>7. CASE intFunc[n] = Both("once")
  <2>1. Detaches(n)
    BY <1>7 DEF INT
  <2>2. /\ EIMSK' = EIMSK \ {n} /\ attached' = attached \ {n} /\ undone' = Asks(n)
        /\ intFunc' = [intFunc EXCEPT ![n] = Both("nothing")]
        /\ UNCHANGED <<EICRA, interruptSave, intruded, modes, lost>>
    BY <2>1 DEF Detaches
  <2>3. Both("nothing") \in Functions \X Functions
    BY DEF Functions
  <2>4. MaskTypes'
    BY <1>1, <2>2, <2>3 DEF MaskTypes, Masked
  <2>5. \A k \in INTS : intFunc'[k] = IF k = n THEN Both("nothing") ELSE intFunc[k]
    BY <2>2 DEF MaskTypes
  <2>6. Known' /\ BusCallbacks' /\ Excluded' /\ Attaching' /\ Halves'
    BY <1>1, <1>3, <2>2, <2>5 DEF MaskTypes, Known, BusCallbacks, Excluded, Attaching, Halves,
       Covered, Standing, Masked
  <2>7. AsAttached'
    BY <1>1, <2>2 DEF AsAttached, Standing, Masked, Asks, MaskTypes
  <2>8. Remembered' /\ Image' /\ BusMine' /\ WholeCallback' /\ ModesKept'
    BY <1>1, <1>4, <2>2 DEF Remembered, Restored, Image, BusMine, WholeCallback, ModesKept
  <2> QED
    BY <2>4, <2>6, <2>7, <2>8
<1>8. CASE UNCHANGED <<ext, interruptSave, intruded, attached, modes, undone, lost>>
  <2>1. MaskTypes' /\ Known' /\ BusCallbacks' /\ Excluded' /\ Attaching' /\ Halves'
    BY <1>1, <1>8 DEF MaskTypes, Known, BusCallbacks, Excluded, Attaching, Halves, Covered,
       Standing, Masked
  <2>2. Remembered' /\ AsAttached' /\ Image' /\ BusMine' /\ WholeCallback' /\ ModesKept'
    BY <1>1, <1>4, <1>8 DEF Remembered, Restored, AsAttached, Standing, Masked, Image,
       BusMine, WholeCallback, ModesKept
  <2> QED
    BY <2>1, <2>2
<1> QED
  BY <1>5, <1>6, <1>7, <1>8 DEF INT

\* interrupts() and noInterrupts()
LEMMA SwitchKeeps == ASSUME MaskInv, NEW on \in BOOLEAN, Interrupts(on) PROVE MaskInv'
<1> USE MasksAssumption DEF MaskInv, ext, spi, Idle, SpiIdle, Interrupts
<1>1. MaskTypes' /\ Known' /\ BusCallbacks' /\ Excluded' /\ Attaching' /\ Halves'
  BY DEF MaskTypes, Known, BusCallbacks, Excluded, Attaching, Halves, Covered, Standing, Masked
<1>2. Remembered' /\ AsAttached' /\ Image' /\ BusMine' /\ WholeCallback' /\ ModesKept'
  BY DEF Remembered, Restored, AsAttached, Standing, Masked, Image, BusMine, WholeCallback, ModesKept
<1> QED
  BY <1>1, <1>2

\* Nothing is attached or registered at first.
LEMMA MaskStarts == MaskInit => MaskInv
<1> SUFFICES ASSUME MaskInit PROVE MaskInv
  OBVIOUS
<1> USE DEF MaskInit, Idle
<1>1. MaskTypes
  <2>1. Both("nothing") \in Functions \X Functions
    BY DEF Both, Functions
  <2>2. I \in BOOLEAN /\ want \in BOOLEAN /\ inTx \in BOOLEAN /\ ~inTx
    BY Zenon
  <2> QED
    BY <2>1, <2>2 DEF MaskTypes, Masked, Places
<1>2. Known /\ BusCallbacks /\ Excluded /\ Attaching /\ Halves
  BY DEF Known, BusCallbacks, Excluded, Attaching, Halves, Both, Standing, Masked
<1>3. Remembered /\ AsAttached /\ Image /\ BusMine /\ WholeCallback /\ ModesKept
  BY DEF Remembered, Restored, AsAttached, Standing, Masked, Image, BusMine, WholeCallback, ModesKept
<1> QED
  BY <1>1, <1>2, <1>3 DEF MaskInv

\* Every step of the sketch and of the handlers keeps the invariant.
LEMMA MaskKeeps == ASSUME MaskInv, [HandlersNext]_handlerVars PROVE MaskInv'
<1>1. CASE MaskNext
  BY <1>1, AttachKeeps, DetachKeeps, HighKeeps, ModeKeeps, EnableKeeps, RegisterKeeps, BeginKeeps,
     EndKeeps, IntKeeps, SwitchKeeps DEF MaskNext, Calls
<1>2. CASE UNCHANGED maskVars
  <2> USE <1>2 DEF maskVars, ext, spi, asked, MaskInv
  <2>1. MaskTypes' /\ Known' /\ BusCallbacks' /\ Excluded' /\ Attaching' /\ Halves'
    BY DEF MaskTypes, Known, BusCallbacks, Excluded, Attaching, Halves, Covered, Standing, Masked, Idle
  <2>2. Remembered' /\ AsAttached' /\ Image' /\ BusMine' /\ WholeCallback' /\ ModesKept'
    BY DEF Remembered, Restored, AsAttached, Standing, Masked, Image, BusMine, WholeCallback, ModesKept
  <2> QED
    BY <2>1, <2>2
<1> QED
  BY <1>1, <1>2 DEF HandlersNext, handlerVars

\* Masks, triggers and callbacks are those the sketch set, whatever handlers attach, detach
\* or switch off between any two steps of attachInterrupt(), detachInterrupt() and SPI
\* transactions: for any interrupts, registered or not.
THEOREM MasksAlwaysKept == HandlersSpec => []MasksKept
<1>1. HandlersInit => MaskInv
  BY MaskStarts DEF HandlersInit
<1>2. MaskInv /\ [HandlersNext]_handlerVars => MaskInv'
  BY MaskKeeps
<1>3. MaskInv => MasksKept
  BY DEF MaskInv, MasksKept, MasksRestored, Remembered, Restored, AsAttached, Standing, Masked,
     MaskTypes, Idle
<1> QED
  BY <1>1, <1>2, <1>3, PTL DEF HandlersSpec

-----------------------------------------------------------------------------
(* Digital pins *)

Duty_(p)  == IF p \in com THEN ocr[p] ELSE 0
Level_(p) == IF p \in PORT THEN 1 ELSE 0
Agrees(p) == driven[p].pwm = Duty_(p) /\ driven[p].level = Level_(p)

\* Where each call may be
VerbPlaces(f) ==
    {"load", "store", "done"} \union
    (IF f = "write" THEN {"port", "output"} ELSE IF f = "pwm" THEN {"duty"} ELSE {})

LevelTypes ==
    /\ driven \in [Outputs -> [pwm : Nat, level : {0, 1}]] /\ ocr \in [Outputs -> Nat]
    /\ verb.val \in Nat /\ masked \in BOOLEAN
    /\ next_ # "idle" => /\ verb.f \in {"write", "read", "pwm"} /\ verb.pin \in Outputs
                         /\ next_ \in VerbPlaces(verb.f)
    /\ next_ # "idle" /\ verb.f = "write" => verb.val \in {0, 1}

\* The pin at work is not settled; the others are.
Open(p) == next_ # "idle" /\ p = verb.pin
Settled == \A p \in Outputs \ crossed : Open(p) \/ Agrees(p)

\* What the sketch has loaded is what it will find, for other pins.
ComLoaded  == next_ = "store" => \A p \in Outputs \ crossed : Open(p) \/ (p \in loaded <=> p \in com)
PortLoaded == next_ = "output" => masked /\ loaded = PORT

\* How far the pin at work has come
Underway ==
    \A p \in Outputs \ crossed : Open(p) =>
        /\ verb.f = "write" =>
              /\ driven[p].pwm = 0 /\ driven[p].level = verb.val
              /\ next_ \in {"port", "output", "done"} => p \notin com
              /\ next_ = "done" => Level_(p) = verb.val
        /\ verb.f = "read" =>
              /\ driven[p].pwm = 0 /\ driven[p].level = Level_(p)
              /\ next_ = "done" => p \notin com
        /\ verb.f = "pwm" =>
              /\ driven[p].pwm = verb.val /\ driven[p].level = Level_(p)
              /\ next_ \in {"duty", "done"} => p \in com
              /\ next_ = "done" => ocr[p] = verb.val

LevelInv == LevelTypes /\ Settled /\ ComLoaded /\ PortLoaded /\ Underway

\* One bit of a register is set or cleared, and no other.
LEMMA WithIs ==
    ASSUME NEW s, NEW p, NEW v, NEW q
    PROVE  q \in With(s, p, v) <=> IF q = p THEN v # 0 ELSE q \in s
BY DEF With

\* At first no pin is driven.
LEMMA LevelStarts == LevelInit => LevelInv
<1> SUFFICES ASSUME LevelInit PROVE LevelInv
  OBVIOUS
<1> USE DEF LevelInit
<1>1. driven \in [Outputs -> [pwm : Nat, level : {0, 1}]] /\ \A p \in Outputs : Agrees(p)
  BY DEF Actual, Agrees, Duty_, Level_
<1>2. ocr \in [Outputs -> Nat] /\ verb.val \in Nat /\ masked \in BOOLEAN
  BY DEF NoVerb
<1>3. LevelTypes
  BY <1>1, <1>2 DEF LevelTypes
<1>4. Settled /\ ComLoaded /\ PortLoaded /\ Underway
  BY <1>1 DEF Settled, ComLoaded, PortLoaded, Underway, Open
<1> QED
  BY <1>3, <1>4 DEF LevelInv

\* pinMode() and digitalToggle() are one step.
LEMMA DirectionKeeps ==
    ASSUME LevelInv, NEW pin \in Outputs,
           digitalToggle(pin) \/ \E mode \in {"INPUT", "INPUT_PULLUP", "OUTPUT"} : pinMode(pin, mode)
    PROVE  LevelInv'
<1> USE DEF LevelInv
<1>1. next_ = "idle" /\ UNCHANGED <<com, ocr, masked, verb, next_, loaded, crossed>>
  BY DEF digitalToggle, pinMode
<1>2. PICK high \in {0, 1} :
        \/ UNCHANGED <<PORT, driven>>
        \/ /\ PORT' = With(PORT, pin, high) /\ driven' = [driven EXCEPT ![pin].level = high]
        \/ /\ PORT' = With(PORT, pin, high) /\ driven' = [driven EXCEPT ![pin].level = 1 - @]
           /\ high = IF pin \in PORT THEN 0 ELSE 1
  <2>1. CASE digitalToggle(pin)
    BY <2>1 DEF digitalToggle
  <2>2. ASSUME NEW mode \in {"INPUT", "INPUT_PULLUP", "OUTPUT"}, pinMode(pin, mode)
        PROVE  \E high \in {0, 1} : \/ UNCHANGED <<PORT, driven>>
                                    \/ PORT' = With(PORT, pin, high) /\ driven' = [driven EXCEPT ![pin].level = high]
    BY <2>2 DEF pinMode
  <2> QED
    BY <2>1, <2>2
<1>3. driven' \in [Outputs -> [pwm : Nat, level : {0, 1}]]
  BY <1>2 DEF LevelTypes
<1>4. LevelTypes'
  BY <1>1, <1>3 DEF LevelTypes
<1>5. \A p \in Outputs \ crossed : Agrees(p)'
  <2> TAKE p \in Outputs \ crossed
  <2>1. Agrees(p)
    BY <1>1 DEF Settled, Open
  <2>2. Duty_(p)' = Duty_(p)
    BY <1>1 DEF Duty_
  <2>3. CASE UNCHANGED <<PORT, driven>>
    BY <2>1, <2>2, <2>3 DEF Agrees, Level_
  <2>4. CASE PORT' = With(PORT, pin, high) /\ ~UNCHANGED <<PORT, driven>>
    <3>1. Level_(p)' = IF p = pin THEN high ELSE Level_(p)
      BY <2>4, WithIs DEF Level_
    <3>2. CASE driven' = [driven EXCEPT ![pin].level = high]
      BY <2>1, <2>2, <3>1, <3>2 DEF Agrees, LevelTypes
    <3>3. CASE driven' = [driven EXCEPT ![pin].level = 1 - @] /\ high = IF pin \in PORT THEN 0 ELSE 1
      <4>1. driven'[p].pwm = driven[p].pwm
            /\ driven'[p].level = IF p = pin THEN 1 - driven[p].level ELSE driven[p].level
        BY <3>3 DEF LevelTypes
      <4> QED
        BY <2>1, <2>2, <3>1, <3>3, <4>1 DEF Agrees, Level_
    <3> QED
      BY <1>2, <2>4, <3>2, <3>3
  <2> QED
    BY <1>2, <2>3, <2>4
<1>6. Settled' /\ ComLoaded' /\ PortLoaded' /\ Underway'
  BY <1>1, <1>5 DEF Settled, ComLoaded, PortLoaded, Underway, Open
<1> QED
  BY <1>4, <1>6

\* A call begins: the pin is at work, and what it was told is known.
LEMMA VerbKeeps ==
    ASSUME LevelInv, NEW pin \in Outputs,
           \/ digitalRead(pin) \/ \E high \in {0, 1} : digitalWrite(pin, high)
           \/ \E duty \in Duties : analogWrite(pin, duty)
    PROVE  LevelInv'
<1> USE PinsAssumption DEF LevelInv
<1>1. PICK f \in {"read", "write", "pwm"}, val \in Nat, was \in [pwm : Nat, level : {0, 1}] :
        /\ Calls_(f, pin, val) /\ driven' = [driven EXCEPT ![pin] = was]
        /\ f = "write" => val \in {0, 1} /\ was.pwm = 0 /\ was.level = val
        /\ f = "read" => was.pwm = 0 /\ was.level = driven[pin].level
        /\ f = "pwm" => was.pwm = val /\ was.level = driven[pin].level
  <2>1. driven[pin] \in [pwm : Nat, level : {0, 1}]
    BY DEF LevelTypes
  <2>2. CASE digitalRead(pin)
    <3> WITNESS "read" \in {"read", "write", "pwm"}, 0 \in Nat
    <3> DEFINE w == [driven[pin] EXCEPT !.pwm = 0]
    <3>1. w \in [pwm : Nat, level : {0, 1}] /\ w.pwm = 0 /\ w.level = driven[pin].level
      BY <2>1
    <3> USE <3>1
    <3> WITNESS w \in [pwm : Nat, level : {0, 1}]
    <3> QED
      BY <2>2 DEF digitalRead, LevelTypes
  <2>3. ASSUME NEW high \in {0, 1}, digitalWrite(pin, high)
        PROVE  \E w \in [pwm : Nat, level : {0, 1}] :
                  /\ Calls_("write", pin, high) /\ driven' = [driven EXCEPT ![pin] = w]
                  /\ w.pwm = 0 /\ w.level = high
    <3> DEFINE w == [pwm |-> 0, level |-> high]
    <3>1. w \in [pwm : Nat, level : {0, 1}]
      OBVIOUS
    <3> WITNESS w \in [pwm : Nat, level : {0, 1}]
    <3> QED
      BY <2>3 DEF digitalWrite
  <2>4. ASSUME NEW duty \in Duties, analogWrite(pin, duty), duty \in {0, 255}
        PROVE  \E w \in [pwm : Nat, level : {0, 1}], v \in {0, 1} :
                  /\ Calls_("write", pin, v) /\ driven' = [driven EXCEPT ![pin] = w]
                  /\ w.pwm = 0 /\ w.level = v
    <3> DEFINE v == IF duty = 255 THEN 1 ELSE 0
               w == [pwm |-> 0, level |-> v]
    <3>1. w \in [pwm : Nat, level : {0, 1}] /\ v \in {0, 1}
      OBVIOUS
    <3>2. duty \div 255 = v /\ (IF duty = 255 THEN 1 ELSE duty) = v
      BY <2>4
    <3> WITNESS w \in [pwm : Nat, level : {0, 1}], v \in {0, 1}
    <3> QED
      BY <2>4, <3>2, ZenonT(30) DEF analogWrite
  <2>5. ASSUME NEW duty \in Duties, analogWrite(pin, duty), duty \notin {0, 255}
        PROVE  \E w \in [pwm : Nat, level : {0, 1}] :
                  /\ Calls_("pwm", pin, duty) /\ driven' = [driven EXCEPT ![pin] = w]
                  /\ w.pwm = duty /\ w.level = driven[pin].level
    <3> DEFINE w == [driven[pin] EXCEPT !.pwm = duty]
    <3>1. w \in [pwm : Nat, level : {0, 1}] /\ w.pwm = duty /\ w.level = driven[pin].level
      BY <2>1
    <3> USE <3>1
    <3> WITNESS w \in [pwm : Nat, level : {0, 1}]
    <3> QED
      BY <2>5 DEF analogWrite, LevelTypes
  <2> QED
    BY <2>2, <2>3, <2>4, <2>5
<1>2. /\ next_ = "idle" /\ next_' = "load" /\ UNCHANGED <<com, ocr, PORT, masked, loaded>>
      /\ verb'.f = f /\ verb'.pin = pin /\ verb'.val = val
      /\ crossed' = IF f = "write" THEN crossed \ {pin} ELSE crossed
  BY <1>1 DEF Calls_
<1>3. LevelTypes'
  <2>1. driven' \in [Outputs -> [pwm : Nat, level : {0, 1}]]
    BY <1>1 DEF LevelTypes
  <2> QED
    BY <1>1, <1>2, <2>1 DEF LevelTypes, VerbPlaces
<1>4. \A p \in Outputs : /\ Duty_(p)' = Duty_(p) /\ Level_(p)' = Level_(p)
                         /\ driven'[p] = IF p = pin THEN was ELSE driven[p]
  BY <1>1, <1>2 DEF Duty_, Level_, LevelTypes
<1>5. \A p \in Outputs \ crossed : Agrees(p)
  BY <1>2 DEF Settled, Open
<1>6. Settled'
  <2> SUFFICES ASSUME NEW p \in Outputs \ crossed', p # pin PROVE Agrees(p)'
    BY <1>2 DEF Settled, Open
  <2> QED
    BY <1>2, <1>4, <1>5 DEF Agrees
<1>7. Underway'
  <2>1. f # "write" => pin \in crossed' \/ Agrees(pin)
    BY <1>2, <1>5
  <2> QED
    BY <1>1, <1>2, <1>4, <2>1 DEF Underway, Open, Agrees
<1>8. ComLoaded' /\ PortLoaded'
  BY <1>2 DEF ComLoaded, PortLoaded
<1> QED
  BY <1>3, <1>6, <1>7, <1>8

\* The steps of a call
LEMMA VerbStepKeeps ==
    ASSUME LevelInv, LoadCom \/ StoreCom \/ Duty \/ LoadPort \/ StorePort \/ Done
    PROVE  LevelInv'
<1> USE DEF LevelInv
<1>1. UNCHANGED <<driven, crossed>>
  BY DEF LoadCom, StoreCom, Duty, LoadPort, StorePort, Done
<1>2. CASE LoadCom
  <2> USE <1>1, <1>2 DEF LoadCom
  <2>1. LevelTypes'
    BY DEF LevelTypes, VerbPlaces
  <2>2. Settled' /\ ComLoaded' /\ PortLoaded'
    BY DEF Settled, ComLoaded, PortLoaded, Open, Agrees, Duty_, Level_
  <2>3. Underway'
    BY DEF Underway, Open, Level_
  <2> QED
    BY <2>1, <2>2, <2>3
<1>3. CASE StoreCom
  <2> USE <1>1
  <2>1. /\ next_ = "store" /\ com' = With(loaded, verb.pin, IF verb.f = "pwm" THEN 1 ELSE 0)
        /\ verb.f = "write" => next_' = "port"
        /\ verb.f = "pwm" => next_' = "duty"
        /\ verb.f = "read" => next_' = "done"
        /\ UNCHANGED <<ocr, PORT, masked, verb>>
    BY <1>3 DEF StoreCom
  <2>2. verb.f \in {"write", "read", "pwm"} /\ verb.pin \in Outputs /\ next_' \in {"port", "duty", "done"}
    BY <2>1 DEF LevelTypes
  <2>3. \A p : p \in com' <=> IF p = verb.pin THEN verb.f = "pwm" ELSE p \in loaded
    BY <2>1, WithIs
  <2>4. \A p \in Outputs \ crossed : p # verb.pin => (p \in com' <=> p \in com)
    BY <2>1, <2>3 DEF ComLoaded, Open
  <2>5. LevelTypes'
    BY <2>1, <2>2 DEF LevelTypes, VerbPlaces
  <2>6. Settled'
    BY <2>1, <2>2, <2>4 DEF Settled, Open, Agrees, Duty_, Level_
  <2>7. Underway'
    BY <2>1, <2>2, <2>3 DEF Underway, Open, Level_
  <2>8. ComLoaded' /\ PortLoaded'
    BY <2>2 DEF ComLoaded, PortLoaded
  <2> QED
    BY <2>5, <2>6, <2>7, <2>8
<1>4. CASE Duty
  <2> USE <1>1
  <2>1. /\ next_ = "duty" /\ next_' = "done" /\ ocr' = [ocr EXCEPT ![verb.pin] = verb.val]
        /\ UNCHANGED <<com, PORT, masked, verb>>
    BY <1>4 DEF Duty
  <2>2. verb.f = "pwm" /\ verb.pin \in Outputs
    BY <2>1 DEF LevelTypes, VerbPlaces
  <2>3. \A p \in Outputs : ocr'[p] = IF p = verb.pin THEN verb.val ELSE ocr[p]
    BY <2>1 DEF LevelTypes
  <2>4. LevelTypes'
    BY <2>1, <2>2 DEF LevelTypes, VerbPlaces
  <2>5. Settled'
    BY <2>1, <2>3 DEF Settled, Open, Agrees, Duty_, Level_
  <2>6. Underway'
    BY <2>1, <2>2, <2>3 DEF Underway, Open, Level_
  <2>7. ComLoaded' /\ PortLoaded'
    BY <2>1 DEF ComLoaded, PortLoaded
  <2> QED
    BY <2>4, <2>5, <2>6, <2>7
<1>5. CASE LoadPort
  <2>1. /\ next_ = "port" /\ next_' = "output" /\ masked' = TRUE /\ loaded' = PORT
        /\ UNCHANGED <<com, ocr, PORT, verb>>
    BY <1>5 DEF LoadPort, cli
  <2>2. verb.f = "write"
    BY <2>1 DEF LevelTypes, VerbPlaces
  <2>3. LevelTypes'
    BY <1>1, <2>1, <2>2 DEF LevelTypes, VerbPlaces
  <2>4. Settled' /\ ComLoaded' /\ PortLoaded'
    BY <1>1, <2>1 DEF Settled, ComLoaded, PortLoaded, Open, Agrees, Duty_, Level_
  <2>5. Underway'
    BY <1>1, <2>1, <2>2 DEF Underway, Open, Level_
  <2> QED
    BY <2>3, <2>4, <2>5
<1>6. CASE StorePort
  <2>1. /\ next_ = "output" /\ next_' = "done" /\ PORT' = With(PORT, verb.pin, verb.val) /\ masked' = FALSE
        /\ UNCHANGED <<com, ocr, verb>>
    BY <1>6 DEF StorePort, PortLoaded
  <2>2. verb.f = "write" /\ verb.pin \in Outputs /\ verb.val \in {0, 1}
    BY <2>1 DEF LevelTypes, VerbPlaces
  <2>3. \A p : p \in PORT' <=> IF p = verb.pin THEN verb.val # 0 ELSE p \in PORT
    BY <2>1, WithIs
  <2>4. LevelTypes'
    BY <1>1, <2>1, <2>2 DEF LevelTypes, VerbPlaces
  <2>5. Settled'
    BY <1>1, <2>1, <2>3 DEF Settled, Open, Agrees, Duty_, Level_
  <2>6. Underway'
    BY <1>1, <2>1, <2>2, <2>3 DEF Underway, Open, Level_
  <2>7. ComLoaded' /\ PortLoaded'
    BY <2>1 DEF ComLoaded, PortLoaded
  <2> QED
    BY <2>4, <2>5, <2>6, <2>7
<1>7. CASE Done
  <2>1. /\ next_ = "done" /\ next_' = "idle" /\ UNCHANGED <<com, ocr, PORT, masked>> /\ verb'.val = 0
    BY <1>7 DEF Done, NoVerb
  <2>2. LevelTypes'
    BY <1>1, <2>1 DEF LevelTypes
  <2>3. \A p \in Outputs \ crossed : Agrees(p)
    <3> SUFFICES ASSUME NEW p \in Outputs \ crossed, p = verb.pin PROVE Agrees(p)
      BY DEF Settled, Open
    <3>1. verb.f \in {"write", "read", "pwm"}
      BY <2>1 DEF LevelTypes
    <3> QED
      BY <2>1, <3>1 DEF Underway, Open, Agrees, Duty_
  <2>4. Settled' /\ ComLoaded' /\ PortLoaded' /\ Underway'
    BY <1>1, <2>1, <2>3 DEF Settled, ComLoaded, PortLoaded, Underway, Open, Agrees, Duty_, Level_
  <2> QED
    BY <2>2, <2>4
<1> QED
  BY <1>2, <1>3, <1>4, <1>5, <1>6, <1>7

\* A handler's call: what it touches under the sketch is crossed.
LEMMA LevelHandlerKeeps ==
    ASSUME LevelInv, NEW pin \in Outputs, NEW val \in Nat, NEW pwm \in BOOLEAN,
           pwm \/ val \in {0, 1}, LevelHandler(pin, val, pwm)
    PROVE  LevelInv'
<1> USE DEF LevelInv
<1>1. /\ ~masked /\ UNCHANGED <<masked, verb, next_, loaded>>
      /\ com' = With(com, pin, IF pwm THEN 1 ELSE 0)
      /\ pwm => ocr' = [ocr EXCEPT ![pin] = val] /\ PORT' = PORT
      /\ ~pwm => PORT' = With(PORT, pin, val) /\ ocr' = ocr
      /\ pwm => driven' = [driven EXCEPT ![pin] = [@ EXCEPT !.pwm = val]]
      /\ ~pwm => driven' = [driven EXCEPT ![pin] = [pwm |-> 0, level |-> val]]
      /\ crossed' = IF Crosses(pin) THEN crossed \union {pin} ELSE IF pwm THEN crossed ELSE crossed \ {pin}
  BY DEF LevelHandler
<1>2. LevelTypes'
  <2>1. driven' \in [Outputs -> [pwm : Nat, level : {0, 1}]]
    BY <1>1 DEF LevelTypes
  <2>2. ocr' \in [Outputs -> Nat]
    BY <1>1 DEF LevelTypes
  <2> QED
    BY <1>1, <2>1, <2>2 DEF LevelTypes
<1>3. \A p \in Outputs : p \notin crossed' => p = pin \/ p \notin crossed
  BY <1>1
<1>4. \A p \in Outputs : p # pin => /\ p \in com' <=> p \in com
                                    /\ p \in PORT' <=> p \in PORT
                                    /\ ocr'[p] = ocr[p] /\ driven'[p] = driven[p]
  BY <1>1, WithIs DEF LevelTypes
<1>5. pin \notin crossed' => pin # verb.pin
  BY <1>1 DEF Crosses
<1>6. pin \notin crossed' /\ pwm => pin \notin crossed
  BY <1>1
<1>7. pin \notin crossed' => Agrees(pin)'
  <2>1. CASE pwm
    <3>1. pin \in com' /\ ocr'[pin] = val /\ PORT' = PORT /\ driven'[pin].pwm = val
          /\ driven'[pin].level = driven[pin].level
      BY <1>1, <2>1, WithIs DEF LevelTypes
    <3> QED
      BY <1>5, <1>6, <2>1, <3>1 DEF Settled, Open, Agrees, Duty_, Level_
  <2>2. CASE ~pwm
    <3>1. pin \notin com' /\ (pin \in PORT' <=> val # 0) /\ driven'[pin].pwm = 0 /\ driven'[pin].level = val
      BY <1>1, <2>2, WithIs DEF LevelTypes
    <3> QED
      BY <2>2, <3>1 DEF Agrees, Duty_, Level_
  <2> QED
    BY <2>1, <2>2
<1>8. Settled'
  <2> SUFFICES ASSUME NEW p \in Outputs \ crossed', ~Open(p)', p # pin PROVE Agrees(p)'
    BY <1>7 DEF Settled
  <2>1. p \in Outputs \ crossed /\ ~Open(p)
    BY <1>1, <1>3 DEF Open
  <2> QED
    BY <1>4, <2>1 DEF Settled, Agrees, Duty_, Level_
<1>9. ComLoaded'
  <2> SUFFICES ASSUME next_ = "store", NEW p \in Outputs \ crossed', ~Open(p)'
               PROVE  p \in loaded <=> p \in com'
    BY <1>1 DEF ComLoaded
  <2>1. CASE p # pin
    BY <1>1, <1>3, <1>4, <2>1 DEF ComLoaded, Open
  <2>2. CASE p = pin
    BY <1>1, <2>2 DEF ComLoaded, Open, Crosses
  <2> QED
    BY <2>1, <2>2
<1>10. PortLoaded'
  BY <1>1 DEF PortLoaded
<1>11. Underway'
  BY <1>1, <1>3, <1>4, <1>5 DEF Underway, Open, Level_
<1> QED
  BY <1>2, <1>8, <1>9, <1>10, <1>11

\* Every step of the sketch and of the handlers keeps the invariant.
LEMMA LevelKeeps == ASSUME LevelInv, [HandlersNext]_handlerVars PROVE LevelInv'
<1>1. CASE LevelNext
  <2>1. ASSUME NEW pin \in Outputs, NEW high \in {0, 1}, LevelHandler(pin, high, FALSE) PROVE LevelInv'
    BY <2>1, LevelHandlerKeeps
  <2>2. ASSUME NEW pin \in Outputs, NEW duty \in Duties, LevelHandler(pin, duty, TRUE) PROVE LevelInv'
    <3>1. duty \in Nat /\ TRUE \in BOOLEAN
      BY PinsAssumption
    <3> QED
      BY <2>2, <3>1, LevelHandlerKeeps, Zenon
  <2>3. ASSUME NEW pin \in Outputs,
               digitalToggle(pin) \/ \E mode \in {"INPUT", "INPUT_PULLUP", "OUTPUT"} : pinMode(pin, mode)
        PROVE  LevelInv'
    BY <2>3, DirectionKeeps
  <2>4. ASSUME NEW pin \in Outputs,
               \/ digitalRead(pin) \/ \E high \in {0, 1} : digitalWrite(pin, high)
               \/ \E duty \in Duties : analogWrite(pin, duty)
        PROVE  LevelInv'
    BY <2>4, VerbKeeps
  <2>5. CASE LoadCom \/ StoreCom \/ Duty \/ LoadPort \/ StorePort \/ Done
    BY <2>5, VerbStepKeeps
  <2>6. ASSUME NEW pin \in Outputs,
               \/ \E mode \in {"INPUT", "INPUT_PULLUP", "OUTPUT"} : pinMode(pin, mode)
               \/ digitalToggle(pin) \/ digitalRead(pin)
               \/ \E high \in {0, 1} : digitalWrite(pin, high) \/ LevelHandler(pin, high, FALSE)
               \/ \E duty \in Duties : analogWrite(pin, duty) \/ (duty \notin {0, 255} /\ LevelHandler(pin, duty, TRUE))
        PROVE  LevelInv'
    BY <2>1, <2>2, <2>3, <2>4, <2>6
  <2> QED
    BY <1>1, <2>5, <2>6, Zenon DEF LevelNext
<1>2. CASE UNCHANGED levelVars
  <2> USE <1>2 DEF levelVars
  <2>1. LevelTypes' /\ ComLoaded' /\ PortLoaded'
    BY DEF LevelInv, LevelTypes, ComLoaded, PortLoaded, Open
  <2>2. Settled' /\ Underway'
    BY DEF LevelInv, Settled, Underway, Open, Agrees, Duty_, Level_
  <2> QED
    BY <2>1, <2>2 DEF LevelInv
<1> QED
  BY <1>1, <1>2 DEF HandlersNext, handlerVars

\* Between calls no pin is open, so each is what it was told.
LEMMA LevelIsObeyed == LevelInv => Obeyed
<1> SUFFICES ASSUME LevelInv, next_ = "idle", NEW p \in Outputs \ crossed PROVE Actual(p) = driven[p]
  BY DEF Obeyed
<1>1. Agrees(p) /\ driven[p] \in [pwm : Nat, level : {0, 1}]
  BY DEF LevelInv, Settled, Open, LevelTypes
<1> QED
  BY <1>1 DEF Actual, Agrees, Duty_, Level_

\* Between calls each pin is what digitalWrite(), analogWrite(), digitalRead() or
\* digitalToggle() last made it, although handlers write other pins of its port and timer
\* between the load and the store of TCCR: for any pins and duties.
THEOREM PinsAlwaysObey == HandlersSpec => []Obeyed
<1>1. HandlersInit => LevelInv
  BY LevelStarts DEF HandlersInit
<1>2. LevelInv /\ [HandlersNext]_handlerVars => LevelInv'
  BY LevelKeeps
<1> QED
  BY <1>1, <1>2, LevelIsObeyed, PTL DEF HandlersSpec

-----------------------------------------------------------------------------
(* The uDSC coprocessor, and the digits of a number *)

\* Induction over the natural numbers, as a fact about sets
LEMMA SetInduction ==
    ASSUME NEW S, 0 \in S, \A n \in Nat : n \in S => n + 1 \in S
    PROVE  \A n \in Nat : n \in S
<1> DEFINE T == {n \in Nat : n \notin S}
           R == {ss \in Nat \X Nat : ss[1] < ss[2]}
<1>1. IsWellFoundedOn(R, Nat)
  BY NatLessThanWellFounded DEF OpToRel
<1>2. SUFFICES ASSUME T # {} PROVE FALSE
  OBVIOUS
<1>3. PICK m \in T : \A n \in T : <<n, m>> \notin R
  <2>1. T \subseteq Nat
    OBVIOUS
  <2> HIDE DEF R, T
  <2> QED
    BY <1>1, <1>2, <2>1, WFMin
<1>4. m # 0 /\ m - 1 \in Nat
  OBVIOUS
<1>5. m - 1 \in S
  <2>1. <<m - 1, m>> \in R
    BY <1>4
  <2> QED
    BY <1>3, <1>4, <2>1
<1> QED
  BY <1>4, <1>5

LEMMA QuotientIs ==
    ASSUME NEW p \in Nat, p > 0, NEW n \in Int, NEW q \in Int, NEW r \in 0 .. p - 1, n = p * q + r
    PROVE  n \div p = q /\ n % p = r
<1> DEFINE s == n \div p  t == n % p
<1>1. s \in Int /\ t \in 0 .. p - 1 /\ n = p * s + t
  OBVIOUS
<1> HIDE DEF s, t
<1>2. ~(q < s)
  <2> SUFFICES ASSUME q < s PROVE FALSE
    OBVIOUS
  <2>1. p * (s - q - 1) >= 0 /\ p * (s - q - 1) = p * s - p * q - p
    BY <1>1
  <2> QED
    BY <1>1, <2>1
<1>3. ~(s < q)
  <2> SUFFICES ASSUME s < q PROVE FALSE
    OBVIOUS
  <2>1. p * (q - s - 1) >= 0 /\ p * (q - s - 1) = p * q - p * s - p
    BY <1>1
  <2> QED
    BY <1>1, <2>1
<1>4. s = q
  BY <1>1, <1>2, <1>3
<1>5. t = r
  BY <1>1, <1>4
<1> QED
  BY <1>4, <1>5 DEF s, t

LEMMA QuotientBounds ==
    ASSUME NEW p \in Nat, p > 0, NEW n \in Nat
    PROVE  n \div p \in 0 .. n
<1> DEFINE s == n \div p  t == n % p
<1>1. s \in Int /\ t \in 0 .. p - 1 /\ n = p * s + t
  OBVIOUS
<1> HIDE DEF s, t
<1>2. s >= 0
  <2> SUFFICES ASSUME s < 0 PROVE FALSE
    BY <1>1
  <2>1. p * (-s - 1) >= 0 /\ p * (-s - 1) = -(p * s) - p
    BY <1>1
  <2>2. p * s \in Int
    BY <1>1
  <2> QED
    BY <1>1, <2>1, <2>2
<1>3. s <= n
  <2>1. (p - 1) * s >= 0 /\ (p - 1) * s = p * s - s
    BY <1>1, <1>2
  <2>2. p * s \in Int
    BY <1>1
  <2> QED
    BY <1>1, <2>1, <2>2
<1> QED
  BY <1>1, <1>2, <1>3 DEF s

LEMMA DivisionIs ==
    ASSUME NEW x \in Nat, NEW y \in Nat, y # 0
    PROVE  (x \div y) * y + (x % y) = x /\ x % y < y
<1> DEFINE s == x \div y  t == x % y
<1>1. s \in Int /\ t \in 0 .. y - 1 /\ x = y * s + t
  OBVIOUS
<1> HIDE DEF s, t
<1>2. s * y + t = x /\ t < y
  BY <1>1
<1> QED
  BY <1>2 DEF s, t

\* Half of the words, and a quarter of the long words
Half   == U16 \div 2
Square == Half * Half

LEMMA DspConstants ==
    /\ Half \in Nat /\ Half > 0 /\ U16 \in Nat /\ U16 = 2 * Half
    /\ Square \in Nat /\ Half <= Square
    /\ U16 * U16 = 4 * Square /\ (U16 * U16) \div 2 = 2 * Square
    /\ BYTE_ \in 1 .. U16 /\ DECIMAL \in 2 .. BYTE_ /\ Bases \subseteq 1 .. BYTE_
<1>1. U16 \in Nat /\ U16 > 0 /\ U16 % 2 = 0 /\ U16 = 2 * Half + (U16 % 2) /\ Half \in Int
  BY DspAssumption DEF Half
<1>2. Half \in Nat /\ Half > 0 /\ U16 = 2 * Half
  BY <1>1
<1> HIDE DEF Half
<1>3. Square \in Nat /\ Half <= Square
  <2>1. Half * (Half - 1) >= 0 /\ Half * (Half - 1) = Half * Half - Half
    BY <1>2
  <2>2. Half * Half \in Nat
    BY <1>2
  <2> QED
    BY <1>2, <2>1, <2>2 DEF Square
<1>4. U16 * U16 = 4 * Square
  <2>1. (2 * Half) * (2 * Half) = 4 * (Half * Half)
    BY <1>2
  <2> QED
    BY <1>2, <2>1 DEF Square
<1>5. (U16 * U16) \div 2 = 2 * Square
  BY <1>3, <1>4
<1> QED
  BY <1>1, <1>2, <1>3, <1>4, <1>5, DspAssumption

\* The types, and the conversions between words and numbers, with these
LEMMA DspShapes ==
    /\ Word = 0 .. 2 * Half - 1 /\ ULong = 0 .. 4 * Square - 1 /\ Short = -Half .. Half - 1
    /\ \A l : SLong(l) = IF l < 2 * Square THEN l ELSE l - 4 * Square
    /\ \A n : AsLong(n) = n % (4 * Square)
    /\ \A w : Signed(w) = IF w < Half THEN w ELSE w - 2 * Half
    /\ \A d : TooLarge(d) <=> d >= 2 * Square
    /\ \A v : sat16(v) = IF v > Half - 1 THEN Half - 1 ELSE IF v < -Half THEN -Half ELSE v
<1>1. U16 \div 2 = Half
  BY DEF Half
<1> QED
  BY <1>1, DspConstants DEF Word, ULong, Short, SLong, AsLong, Signed, TooLarge, sat16

\* A number that fits is itself after the accumulator.
LEMMA LongIs ==
    ASSUME NEW n \in -(2 * Square) .. 2 * Square - 1
    PROVE  AsLong(n) \in ULong /\ SLong(AsLong(n)) = n
<1> DEFINE m == 4 * Square
<1>1. m \in Nat /\ m > 0 /\ m = 4 * Square /\ Square \in Nat
  BY DspConstants
<1>2. AsLong(n) = n % m /\ ULong = 0 .. m - 1
  BY DspShapes
<1>3. \A l \in Int : SLong(l) = IF l < 2 * Square THEN l ELSE l - m
  BY DspShapes
<1> HIDE DEF m
<1>4. CASE n >= 0
  <2>1. n \in 0 .. m - 1 /\ n = m * 0 + n
    BY <1>1, <1>4
  <2>2. AsLong(n) = n
    BY <1>1, <1>2, <2>1, QuotientIs
  <2>3. SLong(n) = n
    BY <1>1, <1>3, <1>4
  <2> QED
    BY <1>2, <2>1, <2>2, <2>3, Zenon
<1>5. CASE n < 0
  <2>1. n + m \in 0 .. m - 1 /\ n = m * (-1) + (n + m)
    BY <1>1, <1>5
  <2>2. AsLong(n) = n + m
    BY <1>1, <1>2, <2>1, QuotientIs
  <2>3. SLong(n + m) = n
    <3> DEFINE l == n + m
    <3>1. l \in Int /\ ~(l < 2 * Square) /\ l - m = n
      BY <1>1, <1>5
    <3> HIDE DEF l
    <3>2. SLong(l) = n
      BY <1>3, <3>1
    <3> QED
      BY <3>2 DEF l
  <2> QED
    BY <1>2, <2>1, <2>2, <2>3, Zenon
<1> QED
  BY <1>4, <1>5

\* The complement, as -d and mulNegative() have it
LEMMA ComplementIs ==
    ASSUME NEW n \in ULong
    PROVE  AsLong(-n) = IF n = 0 THEN 0 ELSE 4 * Square - n
<1> DEFINE m == 4 * Square
<1>1. m \in Nat /\ m > 0
  BY DspConstants
<1>2. n \in 0 .. m - 1 /\ AsLong(-n) = (-n) % m
  BY DspShapes
<1> HIDE DEF m
<1>3. CASE n = 0
  <2>0. n \in 0 .. m - 1 /\ n <= 0 /\ m * 0 = 0
    BY <1>1, <1>2, <1>3
  <2>1. -n \in 0 .. m - 1 /\ -n = m * 0 + (-n) /\ -n = n
    BY <1>1, <2>0
  <2>2. (-n) % m = -n
    BY <1>1, <2>1, QuotientIs
  <2> QED
    BY <1>2, <1>3, <2>1, <2>2
<1>4. CASE n # 0
  <2>1. m - n \in 0 .. m - 1 /\ -n = m * (-1) + (m - n)
    BY <1>1, <1>2, <1>4
  <2>2. (-n) % m = m - n
    BY <1>1, <2>1, QuotientIs
  <2> QED
    BY <1>2, <1>4, <2>2 DEF m
<1> QED
  BY <1>3, <1>4

LEMMA NegativeIs ==
    ASSUME NEW n \in ULong
    PROVE  (AsLong(-n) + n) % (U16 * U16) = 0
<1> DEFINE m == 4 * Square
<1>1. m \in Nat /\ m > 0 /\ U16 * U16 = m
  BY DspConstants
<1>2. n \in Int /\ AsLong(-n) = IF n = 0 THEN 0 ELSE m - n
  <2>1. n \in 0 .. m - 1
    BY DspShapes
  <2> QED
    BY <2>1, ComplementIs
<1> HIDE DEF m
<1>3. 0 % m = 0 /\ m % m = 0
  <2>1. 0 = m * 0 + 0 /\ m = m * 1 + 0 /\ 0 \in 0 .. m - 1
    BY <1>1
  <2> QED
    BY <1>1, <2>1, QuotientIs
<1>4. AsLong(-n) + n = IF n = 0 THEN 0 ELSE m
  BY <1>1, <1>2
<1> QED
  BY <1>1, <1>3, <1>4

\* Saturation gives the nearest number there is.
LEMMA SaturatedIs == ASSUME NEW v \in Int PROVE sat16(v) = Nearest(v)
<1> USE DspConstants, DspShapes
<1> DEFINE Near(s) == \A t \in Short : Magnitude(v - s) <= Magnitude(v - t)
<1>1. sat16(v) \in Short /\ Near(sat16(v))
  BY DEF Magnitude
<1>2. ASSUME NEW s \in Short, Near(s) PROVE s = sat16(v)
  <2>1. Magnitude(v - s) <= Magnitude(v - sat16(v))
    BY <1>1, <1>2
  <2> QED
    BY <2>1 DEF Magnitude
<1>3. Nearest(v) = CHOOSE s \in Short : Near(s)
  BY DEF Nearest
<1> HIDE DEF Near
<1> QED
  BY <1>1, <1>2, <1>3

LEMMA SignedIs == ASSUME NEW w \in Word PROVE Signed(w) \in Short
BY DspConstants, DspShapes

LEMMA ProductIs ==
    /\ \A x, y \in Word : x * y \in ULong
    /\ \A a, b \in Short : a * b \in -Square .. Square
<1> USE DspConstants, DspShapes
<1>1. ASSUME NEW x \in Word, NEW y \in Word PROVE x * y \in ULong
  <2>1. x \in Nat /\ y \in Nat /\ x < U16 /\ y < U16
    OBVIOUS
  <2>2. x * y >= 0 /\ (U16 - x) * y >= 0 /\ U16 * (U16 - y) >= U16
    BY <2>1
  <2>3. (U16 - x) * y = U16 * y - x * y /\ U16 * (U16 - y) = U16 * U16 - U16 * y
    BY <2>1
  <2>4. x * y \in Int /\ U16 * y \in Int
    BY <2>1
  <2> QED
    BY <2>2, <2>3, <2>4
<1>2. ASSUME NEW a \in Short, NEW b \in Short PROVE a * b \in -Square .. Square
  <2>1. a \in Int /\ b \in Int /\ Half - a >= 0 /\ Half + a >= 0 /\ Half - b >= 0 /\ Half + b >= 0
    OBVIOUS
  <2> DEFINE h == Half
  <2> DEFINE p == h * b  q == a * h  r == a * b
  <2>2. h \in Int /\ h * h = Square /\ p \in Int /\ q \in Int /\ r \in Int
    BY <2>1 DEF Square
  <2>3. Square + p - q - r >= 0
    <3>1. (h - a) * (h + b) >= 0 /\ (h - a) * (h + b) = h * h + p - q - r
      BY <2>1
    <3> QED
      BY <2>2, <3>1
  <2>4. Square - p + q - r >= 0
    <3>1. (h + a) * (h - b) >= 0 /\ (h + a) * (h - b) = h * h - p + q - r
      BY <2>1
    <3> QED
      BY <2>2, <3>1
  <2>5. Square - p - q + r >= 0
    <3>1. (h - a) * (h - b) >= 0 /\ (h - a) * (h - b) = h * h - p - q + r
      BY <2>1
    <3> QED
      BY <2>2, <3>1
  <2>6. Square + p + q + r >= 0
    <3>1. (h + a) * (h + b) >= 0 /\ (h + a) * (h + b) = h * h + p + q + r
      BY <2>1
    <3> QED
      BY <2>2, <3>1
  <2> HIDE DEF p, q, r
  <2>7. r \in -Square .. Square
    BY <2>2, <2>3, <2>4, <2>5, <2>6
  <2> QED
    BY <2>7 DEF r
<1> QED
  BY <1>1, <1>2

\* C's quotient and remainder, for each pair of signs
LEMMA TruncatedIs ==
    ASSUME NEW a \in Short, NEW b \in Short, b # 0
    PROVE  /\ Quotient(a, b) \in -U16 .. U16 /\ Remainder(a, b) = a - Quotient(a, b) * b
           /\ Remainder(a, b) \in Short
           /\ Magnitude(Remainder(a, b)) < Magnitude(b) /\ Remainder(a, b) * a >= 0
<1> USE DspConstants, DspShapes
<1> DEFINE m == Magnitude(a)  n == Magnitude(b)  k == m \div n  r == m % n
<1>1. /\ m \in 0 .. Half /\ n \in 1 .. Half /\ a \in Int /\ b \in Int
      /\ a = (IF a < 0 THEN -m ELSE m) /\ b = (IF b < 0 THEN -n ELSE n)
  BY DEF Magnitude
<1> HIDE DEF m, n
<1>2. k \in Int /\ r \in 0 .. n - 1 /\ m = n * k + r
  BY <1>1
<1> HIDE DEF k, r
<1>3. k >= 0
  <2> SUFFICES ASSUME k < 0 PROVE FALSE
    BY <1>2
  <2>1. n * (-k - 1) >= 0 /\ n * (-k - 1) = -(n * k) - n
    BY <1>1, <1>2
  <2>2. n * k \in Int
    BY <1>1, <1>2
  <2> QED
    BY <1>1, <1>2, <2>1, <2>2
<1>4. k <= m
  <2>1. (n - 1) * k >= 0 /\ (n - 1) * k = n * k - k
    BY <1>1, <1>2, <1>3
  <2>2. n * k \in Int
    BY <1>1, <1>2
  <2> QED
    BY <1>1, <1>2, <2>1, <2>2
<1>5. Quotient(a, b) = IF (a < 0) = (b < 0) THEN k ELSE -k
  BY DEF Quotient, k, m, n
<1>6. Quotient(a, b) \in -U16 .. U16
  BY <1>1, <1>2, <1>3, <1>4, <1>5
<1>7. Remainder(a, b) = IF a < 0 THEN -r ELSE r
  <2>1. Remainder(a, b) = a - b * Quotient(a, b)
    BY DEF Remainder
  <2>2. n * k \in Int /\ n * (-k) = -(n * k) /\ (-n) * k = -(n * k) /\ (-n) * (-k) = n * k
    BY <1>1, <1>2
  <2>3. CASE a < 0 /\ b < 0
    BY <1>1, <1>2, <1>5, <2>1, <2>2, <2>3
  <2>4. CASE a < 0 /\ b >= 0
    BY <1>1, <1>2, <1>5, <2>1, <2>2, <2>4
  <2>5. CASE a >= 0 /\ b < 0
    BY <1>1, <1>2, <1>5, <2>1, <2>2, <2>5
  <2>6. CASE a >= 0 /\ b >= 0
    BY <1>1, <1>2, <1>5, <2>1, <2>2, <2>6
  <2> QED
    BY <1>1, <2>3, <2>4, <2>5, <2>6
<1>8. Remainder(a, b) \in Short /\ Magnitude(Remainder(a, b)) < n
  BY <1>1, <1>2, <1>7 DEF Magnitude
<1>9. Remainder(a, b) * a >= 0
  <2>1. r * m >= 0 /\ (-r) * (-m) = r * m
    BY <1>1, <1>2
  <2> QED
    BY <1>1, <1>2, <1>7, <2>1
<1>10. Remainder(a, b) = a - Quotient(a, b) * b
  <2>1. b * Quotient(a, b) = Quotient(a, b) * b
    BY <1>1, <1>6
  <2> QED
    BY <2>1 DEF Remainder
<1> QED
  BY <1>6, <1>8, <1>9, <1>10 DEF n

Multiplying == {"mul", "mulNegative", "add", "sub", "times"}
Printing    == {"print", "printSigned"}
Software_   == {"quotient", "remainder"}

\* What Exact says of an answer, printing apart
Right(op, x, y, r) ==
    LET a == Signed(x)  b == Signed(y)
    IN  CASE op = "mul" -> r = x * y
          [] op = "mulNegative" -> (r + x * y) % (U16 * U16) = 0
          [] op = "add" -> r = Nearest(a + b)
          [] op = "sub" -> r = Nearest(a - b)
          [] op = "times" -> r = Nearest(a * b)
          [] op = "divmod" -> /\ r[3] = (y = 0)
                              /\ y # 0 => r[1] * y + r[2] = x /\ r[2] < y
          [] OTHER -> y # 0 => \E q \in -U16 .. U16 :
                LET d == x - q * y
                IN  /\ Magnitude(d) < Magnitude(y) /\ d * x >= 0
                    /\ r = IF op = "quotient" THEN Nearest(q) ELSE d

\* What a command is to leave in the accumulator, if nobody comes between
Raw(op, x, y) ==
    CASE op \in {"mul", "mulNegative"} -> x * y
      [] op = "add" -> AsLong(Signed(x) + Signed(y))
      [] op = "sub" -> AsLong(Signed(x) - Signed(y))
      [] op = "times" -> AsLong(Signed(x) * Signed(y))
      [] op = "divmod" -> IF y = 0 THEN 0 ELSE x \div y

\* The digits s, read with the number v before them, are n.
Reads(b, s, v, n) ==
    \E f \in [0 .. Len(s) -> Int] :
        /\ f[0] = v /\ f[Len(s)] = n
        /\ \A k \in 1 .. Len(s) : f[k] = b * f[k - 1] + s[k]

DspTypes ==
    /\ DSX \in Word /\ DSY \in Word /\ DA \in ULong /\ DSUEN \in BOOLEAN /\ clobbered \in BOOLEAN
    /\ work \in {"idle", "load", "command", "read", "return", "digits"}

\* What each call was asked for, ...
Given ==
    /\ work \in {"load", "command", "read"} => sum.op \in Multiplying \union {"divmod"}
    /\ work \in {"load", "command", "read"} /\ sum.op = "divmod" => sum.x < 2 * Square
    /\ work = "digits" => sum.op \in Printing
    /\ work = "return" => sum.op \in Multiplying \union {"divmod"} \union Software_ \union Printing
    /\ sum.op \in Multiplying => sum.x \in Word /\ sum.y \in Word
    /\ sum.op = "divmod" => sum.x \in ULong /\ sum.y \in Word
    /\ sum.op \in Printing => sum.x \in ULong /\ sum.y \in Bases

\* ... what it has loaded and computed so far, ...
SoFar ==
    ~clobbered =>
        /\ work = "command" =>
              DSY = sum.y /\ (IF sum.op = "divmod" THEN DA = sum.x ELSE DSX = sum.x)
        /\ work = "read" => /\ DA = Raw(sum.op, sum.x, sum.y)
                            /\ sum.op = "divmod" /\ sum.y # 0 => DSY = sum.x % sum.y
        /\ work = "return" /\ sum.op \notin Printing => Right(sum.op, sum.x, sum.y, answer_)

\* ... and the digits it has made, before which stands what is left of the number.
Told_ == IF answer_ THEN -SLong(sum.x) ELSE sum.x
Digits ==
    /\ work = "digits" =>
          /\ rest \in ULong /\ digits \in Seq(0 .. Base - 1) /\ Reads(Base, digits, rest, Told_)
          /\ digits # <<>> => rest > 0
    /\ work = "return" /\ sum.op \in Printing =>
          /\ digits \in Seq(0 .. Base - 1) /\ Reads(Base, digits, 0, Told_)
          /\ digits # <<>> /\ (digits[1] = 0 => Len(digits) = 1)

Disabled == work \in {"idle", "digits", "return"} => ~DSUEN

DspInv == DspTypes /\ Given /\ SoFar /\ Digits /\ Disabled

LEMMA DspStarts == DspInit => DspInv
<1> SUFFICES ASSUME DspInit PROVE DspInv
  OBVIOUS
<1>1. 0 \in Word /\ 0 \in ULong
  BY DspConstants, DspShapes
<1>2. work = "idle" /\ sum.op = "none" /\ DSX = 0 /\ DSY = 0 /\ DA = 0 /\ DSUEN = FALSE /\ clobbered = FALSE
  BY DEF DspInit, Nothing
<1> QED
  BY <1>1, <1>2
     DEF DspInv, DspTypes, Given, SoFar, Digits, Disabled, Multiplying, Printing, Software_

\* A call with operands of its own types
Typed(c) ==
    \/ c.op \in Multiplying /\ c.x \in Word /\ c.y \in Word
    \/ c.op = "divmod" /\ c.x \in ULong /\ c.y \in Word
    \/ c.op \in Software_ /\ c.x \in Short /\ c.y \in Short

LEMMA QuotientRight ==
    ASSUME NEW op \in Software_, NEW a \in Short, NEW b \in Short
    PROVE  Right(op, a, b, IF op = "quotient" THEN Divided(a, b) ELSE Left(a, b))
<1>1. SUFFICES ASSUME b # 0
      PROVE  \E q \in -U16 .. U16 :
                LET d == a - q * b
                IN  /\ Magnitude(d) < Magnitude(b) /\ d * a >= 0
                    /\ (IF op = "quotient" THEN Divided(a, b) ELSE Left(a, b))
                       = IF op = "quotient" THEN Nearest(q) ELSE d
  BY DEF Right, Software_
<1> DEFINE q == Quotient(a, b)  d == Remainder(a, b)
<1>2. /\ q \in -U16 .. U16 /\ d = a - q * b /\ d \in Short
      /\ Magnitude(d) < Magnitude(b) /\ d * a >= 0
  BY <1>1, TruncatedIs
<1>3. Divided(a, b) = sat16(q) /\ Left(a, b) = sat16(d)
  BY <1>1 DEF Divided, Left
<1> HIDE DEF q, d
<1>4. Divided(a, b) = Nearest(q) /\ Left(a, b) = d
  <2>1. sat16(q) = Nearest(q)
    BY <1>2, DspConstants, SaturatedIs
  <2>2. sat16(d) = d
    BY <1>2, DspConstants, DspShapes
  <2> QED
    BY <1>3, <2>1, <2>2
<1> QED
  BY <1>2, <1>4

\* What the library computes without the coprocessor is right, ...
LEMMA ComputedRight ==
    ASSUME NEW c, Typed(c), Software(c)
    PROVE  Right(c.op, c.x, c.y, Computed(c))
<1>1. CASE c.op = "mul"
  BY <1>1 DEF Right, Computed
<1>2. CASE c.op = "mulNegative"
  <2>1. c.x * c.y \in ULong
    BY <1>2, ProductIs DEF Typed, Software_
  <2>2. (AsLong(-(c.x * c.y)) + c.x * c.y) % (U16 * U16) = 0
    BY <2>1, NegativeIs
  <2> QED
    BY <1>2, <2>2 DEF Right, Computed
<1>3. CASE c.op = "divmod"
  <2>1. c.x \in Nat /\ c.y \in Nat
    BY <1>3, DspConstants, DspShapes DEF Typed, Multiplying, Software_
  <2>2. Computed(c) = IF c.y = 0 THEN <<0, 0, TRUE>> ELSE <<c.x \div c.y, c.x % c.y, FALSE>>
    BY <1>3 DEF Computed
  <2>3. c.y # 0 => (c.x \div c.y) * c.y + (c.x % c.y) = c.x /\ c.x % c.y < c.y
    BY <2>1, DivisionIs
  <2>4. CASE c.y = 0
    <3>1. Computed(c)[3] = TRUE
      BY <2>2, <2>4
    <3> QED
      BY <1>3, <2>4, <3>1 DEF Right
  <2>5. CASE c.y # 0
    <3> DEFINE q == c.x \div c.y  d == c.x % c.y
    <3>1. q * c.y + d = c.x /\ d < c.y
      BY <2>3, <2>5
    <3>2. Computed(c) = <<q, d, FALSE>>
      BY <2>2, <2>5
    <3> HIDE DEF q, d
    <3>3. Computed(c)[1] = q /\ Computed(c)[2] = d /\ Computed(c)[3] = FALSE
      BY <3>2
    <3> QED
      BY <1>3, <2>5, <3>1, <3>3 DEF Right
  <2> QED
    BY <2>4, <2>5
<1>4. CASE c.op \in Software_
  <2>1. Computed(c) = IF c.op = "quotient" THEN Divided(c.x, c.y) ELSE Left(c.x, c.y)
    BY <1>4 DEF Computed, Software_
  <2>2. c.x \in Short /\ c.y \in Short
    BY <1>4 DEF Typed, Multiplying, Software_
  <2> QED
    BY <1>4, <2>1, <2>2, QuotientRight
<1> QED
  BY <1>1, <1>2, <1>3, <1>4 DEF Software, Software_

\* ... and so is what it makes of the accumulator.
LEMMA FetchedRight ==
    ASSUME sum.op \in Multiplying \union {"divmod"},
           sum.op \in Multiplying => sum.x \in Word /\ sum.y \in Word,
           sum.op = "divmod" => sum.x \in ULong /\ sum.y \in Word,
           DA = Raw(sum.op, sum.x, sum.y), sum.op = "divmod" /\ sum.y # 0 => DSY = sum.x % sum.y
    PROVE  Right(sum.op, sum.x, sum.y, Fetched(sum.op))
<1> DEFINE x == sum.x  y == sum.y  a == Signed(x)  b == Signed(y)
<1>1. CASE sum.op = "mul"
  BY <1>1 DEF Right, Raw, Fetched
<1>2. CASE sum.op = "mulNegative"
  <2>1. x * y \in ULong /\ DA = x * y
    BY <1>2, ProductIs DEF Raw, Multiplying
  <2>2. (AsLong(-DA) + x * y) % (U16 * U16) = 0
    BY <2>1, NegativeIs
  <2> QED
    BY <1>2, <2>2 DEF Right, Fetched
<1>3. CASE sum.op \in {"add", "sub", "times"}
  <2>1. a \in Short /\ b \in Short
    BY <1>3, SignedIs DEF Multiplying
  <2> HIDE DEF a, b
  <2> DEFINE v == CASE sum.op = "add" -> a + b [] sum.op = "sub" -> a - b [] sum.op = "times" -> a * b
  <2>2. v \in -(2 * Square) .. 2 * Square - 1
    <3>1. a + b \in -(2 * Square) .. 2 * Square - 1 /\ a - b \in -(2 * Square) .. 2 * Square - 1
      BY <2>1, DspConstants, DspShapes
    <3>2. a * b \in -(2 * Square) .. 2 * Square - 1
      <4>1. a * b \in -Square .. Square
        BY <2>1, ProductIs
      <4> QED
        BY <4>1, DspConstants
    <3> QED
      BY <1>3, <3>1, <3>2
  <2>3. DA = AsLong(v)
    BY <1>3 DEF Raw, a, b
  <2>4. Right(sum.op, x, y, Nearest(v))
    BY <1>3 DEF Right, a, b
  <2> HIDE DEF v
  <2>5. sat16(SLong(DA)) = Nearest(v)
    <3>1. v \in Int
      BY <2>2, DspConstants
    <3> QED
      BY <2>2, <2>3, <3>1, LongIs, SaturatedIs
  <2>6. Fetched(sum.op) = sat16(SLong(DA))
    BY <1>3 DEF Fetched
  <2> QED
    BY <2>4, <2>5, <2>6
<1>4. CASE sum.op = "divmod"
  <2>1. x \in Nat /\ y \in Nat
    BY <1>4, DspConstants, DspShapes
  <2>2. Fetched("divmod")[1] = DA /\ Fetched("divmod")[2] = DSY /\ Fetched("divmod")[3] = (y = 0)
    BY DEF Fetched
  <2>3. y # 0 => (x \div y) * y + (x % y) = x /\ x % y < y
    BY <2>1, DivisionIs
  <2>4. y # 0 => DA = x \div y /\ DSY = x % y
    BY <1>4 DEF Raw
  <2> QED
    BY <1>4, <2>2, <2>3, <2>4 DEF Right
<1> QED
  BY <1>1, <1>2, <1>3, <1>4 DEF Multiplying

LEMMA CallBegins == ASSUME DspInv, NEW c, Typed(c), Begin(c) PROVE DspInv'
<1> USE DEF DspInv
<1>1. work = "idle" /\ sum' = c /\ clobbered' = FALSE /\ UNCHANGED <<DSX, DSY, DA, rest, digits>>
  BY DEF Begin, printVars
<1>2. c.op \in Multiplying \union {"divmod"} \union Software_ /\ c.op \notin Printing
  BY DEF Typed, Multiplying, Software_, Printing
<1>3. CASE Software(c)
  <2>1. answer_' = Computed(c) /\ work' = "return" /\ DSUEN' = DSUEN
    BY <1>3 DEF Begin
  <2>2. Right(c.op, c.x, c.y, Computed(c))
    BY <1>3, ComputedRight
  <2>3. DspTypes' /\ Disabled'
    BY <1>1, <2>1 DEF DspTypes, Disabled
  <2>4. Given'
    BY <1>1, <1>2, <2>1 DEF Given, Typed, Multiplying, Software_, Printing
  <2>5. SoFar' /\ Digits'
    BY <1>1, <1>2, <2>1, <2>2 DEF SoFar, Digits
  <2> QED
    BY <2>3, <2>4, <2>5
<1>4. CASE ~Software(c)
  <2>1. answer_' = answer_ /\ work' = "load" /\ DSUEN' = TRUE
    BY <1>4 DEF Begin
  <2>2. c.op \in Multiplying \union {"divmod"} /\ (c.op = "divmod" => c.x < 2 * Square)
    BY <1>2, <1>4, DspConstants, DspShapes DEF Software, Software_, Typed, Multiplying
  <2>3. DspTypes' /\ Disabled'
    BY <1>1, <2>1 DEF DspTypes, Disabled
  <2>4. Given'
    BY <1>1, <1>2, <2>1, <2>2 DEF Given, Typed, Multiplying, Software_, Printing
  <2>5. SoFar' /\ Digits'
    BY <2>1 DEF SoFar, Digits
  <2> QED
    BY <2>3, <2>4, <2>5
<1> QED
  BY <1>3, <1>4

LEMMA LoadKeeps == ASSUME DspInv, Load PROVE DspInv'
<1> USE DEF DspInv, Load, printVars
<1>1. DspTypes'
  <2>1. CASE sum.op = "divmod"
    BY <2>1 DEF DspTypes, Given
  <2>2. CASE sum.op # "divmod"
    <3>1. sum.op \in Multiplying
      BY <2>2 DEF Given
    <3> QED
      BY <2>2, <3>1 DEF DspTypes, Given
  <2> QED
    BY <2>1, <2>2
<1>2. Given' /\ Disabled' /\ Digits'
  BY DEF Given, Disabled, Digits
<1>3. SoFar'
  BY DEF SoFar
<1> QED
  BY <1>1, <1>2, <1>3

\* The accumulator divides a dividend that the chip does not take as negative.
LEMMA CommandedIs ==
    ASSUME DspTypes, NEW op \in Multiplying \union {"divmod"}
    PROVE  Commanded(op) \in ULong /\ CommandedY(op) \in Word
<1>1. DSX \in Word /\ DSY \in Word /\ DA \in ULong
  BY DEF DspTypes
<1>2. CASE op \in {"mul", "mulNegative"}
  BY <1>1, <1>2, ProductIs DEF Commanded, CommandedY
<1>3. CASE op \in {"add", "sub", "times"}
  <2> DEFINE a == Signed(DSX)  b == Signed(DSY)
  <2>1. a \in Short /\ b \in Short
    BY <1>1, SignedIs
  <2> HIDE DEF a, b
  <2>2. a + b \in -(2 * Square) .. 2 * Square - 1 /\ a - b \in -(2 * Square) .. 2 * Square - 1
    BY <2>1, DspConstants, DspShapes
  <2>3. a * b \in -(2 * Square) .. 2 * Square - 1
    <3>1. a * b \in -Square .. Square
      BY <2>1, ProductIs
    <3> QED
      BY <3>1, DspConstants
  <2>4. AsLong(a + b) \in ULong /\ AsLong(a - b) \in ULong /\ AsLong(a * b) \in ULong
    BY <2>2, <2>3, LongIs
  <2> QED
    BY <1>1, <1>3, <2>4 DEF Commanded, CommandedY, a, b
<1>4. CASE op = "divmod"
  <2> DEFINE d == Magnitude(SLong(DA))
  <2>1. d \in 0 .. 2 * Square
    BY <1>1, DspConstants, DspShapes DEF Magnitude
  <2>2. CASE DSY = 0
    BY <1>1, <1>4, <2>2, DspConstants, DspShapes DEF Commanded, CommandedY
  <2>3. CASE DSY # 0
    <3>1. DSY \in Nat /\ DSY > 0 /\ DSY < U16
      BY <1>1, <2>3, DspConstants, DspShapes
    <3> HIDE DEF d
    <3>2. d \div DSY \in Int /\ d % DSY \in 0 .. DSY - 1 /\ d = DSY * (d \div DSY) + (d % DSY)
      BY <2>1, <3>1, DspConstants
    <3>3. d \div DSY \in 0 .. 2 * Square
      BY <2>1, <3>1, <3>2, DspConstants, QuotientBounds
    <3>4. d \div DSY \in ULong /\ d % DSY \in Word
      <4> DEFINE q == d \div DSY  e == d % DSY
      <4>1. q \in 0 .. 2 * Square /\ e \in 0 .. DSY - 1
        BY <3>2, <3>3
      <4> HIDE DEF q, e
      <4>2. q \in ULong /\ e \in Word
        BY <3>1, <4>1, DspConstants, DspShapes
      <4> QED
        BY <4>2 DEF q, e
    <3>5. Commanded("divmod") = d \div DSY /\ CommandedY("divmod") = d % DSY
      BY <2>3 DEF Commanded, CommandedY, d
    <3> QED
      BY <1>4, <3>4, <3>5
  <2> QED
    BY <2>2, <2>3
<1> QED
  BY <1>2, <1>3, <1>4 DEF Multiplying

LEMMA CommandKeeps == ASSUME DspInv, Command PROVE DspInv'
<1> USE DEF DspInv
<1>1. /\ work = "command" /\ work' = "read" /\ DA' = Commanded(sum.op) /\ DSY' = CommandedY(sum.op)
      /\ UNCHANGED <<DSX, DSUEN, sum, answer_, rest, digits, clobbered>>
  BY DEF Command, printVars
<1>2. sum.op \in Multiplying \union {"divmod"}
  BY <1>1 DEF Given
<1>3. DspTypes'
  BY <1>1, <1>2, CommandedIs DEF DspTypes
<1>4. Given' /\ Disabled' /\ Digits'
  BY <1>1 DEF Given, Disabled, Digits
<1>5. SoFar'
  <2> SUFFICES ASSUME ~clobbered
        PROVE  /\ Commanded(sum.op) = Raw(sum.op, sum.x, sum.y)
               /\ sum.op = "divmod" /\ sum.y # 0 => CommandedY(sum.op) = sum.x % sum.y
    BY <1>1 DEF SoFar
  <2>1. DSY = sum.y /\ (IF sum.op = "divmod" THEN DA = sum.x ELSE DSX = sum.x)
    BY <1>1 DEF SoFar
  <2>2. CASE sum.op = "divmod"
    <3>1. sum.x \in ULong /\ sum.x < 2 * Square
      BY <1>1, <2>2 DEF Given
    <3>2. Magnitude(SLong(sum.x)) = sum.x
      BY <3>1, DspConstants, DspShapes DEF Magnitude
    <3> QED
      BY <2>1, <2>2, <3>2 DEF Commanded, CommandedY, Raw
  <2>3. CASE sum.op \in Multiplying
    BY <2>1, <2>3 DEF Commanded, Raw, Multiplying
  <2> QED
    BY <1>2, <2>2, <2>3
<1> QED
  BY <1>3, <1>4, <1>5

LEMMA ReadKeeps == ASSUME DspInv, Read PROVE DspInv'
<1> USE DEF DspInv
<1>1. /\ work = "read" /\ work' = "return" /\ answer_' = Fetched(sum.op) /\ DSUEN' = FALSE
      /\ UNCHANGED <<DSX, DSY, DA, sum, rest, digits, clobbered>>
  BY DEF Read, printVars
<1>2. sum.op \in Multiplying \union {"divmod"} /\ sum.op \notin Printing
  BY <1>1 DEF Given, Multiplying, Printing
<1>3. DspTypes' /\ Disabled'
  BY <1>1 DEF DspTypes, Disabled
<1>4. Given' /\ Digits'
  BY <1>1, <1>2 DEF Given, Digits
<1>5. SoFar'
  <2> SUFFICES ASSUME ~clobbered PROVE Right(sum.op, sum.x, sum.y, Fetched(sum.op))
    BY <1>1 DEF SoFar
  <2>1. DA = Raw(sum.op, sum.x, sum.y) /\ (sum.op = "divmod" /\ sum.y # 0 => DSY = sum.x % sum.y)
    BY <1>1 DEF SoFar
  <2> QED
    BY <1>2, <2>1, FetchedRight DEF Given
<1> QED
  BY <1>3, <1>4, <1>5

LEMMA ReturnKeeps == ASSUME DspInv, Return PROVE DspInv'
<1>1. 0 \in Word
  BY DspConstants, DspShapes
<1>2. /\ work = "return" /\ work' = "idle" /\ sum'.op = "none" /\ DSX' = 0 /\ DSY' = 0
      /\ UNCHANGED <<DA, DSUEN, clobbered>>
  BY DEF Return, Nothing
<1> QED
  BY <1>1, <1>2
     DEF DspInv, DspTypes, Given, SoFar, Digits, Disabled, Multiplying, Printing, Software_

\* A handler between two steps leaves the coprocessor off, and its operands behind.
LEMMA DspHandlerKeeps == ASSUME DspInv, DspHandler PROVE DspInv'
<1> USE DEF DspInv, DspHandler, printVars
<1>1. DspTypes'
  <2>1. 1 \in Word /\ 2 \in ULong
    BY DspConstants, DspShapes
  <2> QED
    BY <2>1 DEF DspTypes
<1>2. Given' /\ Disabled'
  BY DEF Given, Disabled
<1>3. Digits'
  BY DEF Digits, Base, Told_, SLong
<1>4. SoFar'
  BY DEF SoFar
<1> QED
  BY <1>1, <1>2, <1>3, <1>4

-----------------------------------------------------------------------------
(* Printed numbers *)

LEMMA BaseIs == ASSUME sum.y \in Bases PROVE Base \in 2 .. BYTE_
<1>1. BYTE_ \in 1 .. U16 /\ U16 \in Nat /\ DECIMAL \in 2 .. BYTE_
  BY DspConstants
<1>2. sum.y \in 1 .. BYTE_
  BY DspConstants
<1> QED
  BY <1>1, <1>2 DEF Base

\* print() of a number that is negative prints its complement, which is what it is.
LEMMA PrintBegins ==
    ASSUME DspInv, NEW op \in Printing, NEW n \in ULong, NEW base \in Bases, print(op, n, base)
    PROVE  DspInv'
<1> USE DEF DspInv
<1> DEFINE c == [op |-> op, x |-> n, y |-> base]
<1>1. /\ work = "idle" /\ work' = "digits" /\ sum' = c /\ clobbered' = FALSE
      /\ answer_' = Minus(c) /\ rest' = (IF answer_' THEN AsLong(-n) ELSE n) /\ digits' = <<>>
      /\ UNCHANGED <<DSX, DSY, DA, DSUEN>>
  BY DEF print
<1>2. c.op = op /\ c.x = n /\ c.y = base
  OBVIOUS
<1> HIDE DEF c
<1>3. DspTypes' /\ Disabled'
  BY <1>1 DEF DspTypes, Disabled
<1>4. Given'
  BY <1>1, <1>2 DEF Given, Multiplying, Printing
<1>5. SoFar'
  BY <1>1 DEF SoFar
<1>6. Digits'
  <2> DEFINE v == rest'
  <2>1. Minus(c) => SLong(n) < 0
    BY <1>2 DEF Minus
  <2>2. v \in ULong /\ v = IF Minus(c) THEN -SLong(n) ELSE n
    <3>1. CASE Minus(c)
      <4>1. n >= 2 * Square /\ SLong(n) = n - 4 * Square
        BY <2>1, <3>1, DspConstants, DspShapes
      <4>2. v = 4 * Square - n
        BY <1>1, <3>1, <4>1, DspConstants, DspShapes, ComplementIs
      <4> QED
        BY <3>1, <4>1, <4>2, DspConstants, DspShapes
    <3>2. CASE ~Minus(c)
      BY <1>1, <3>2
    <3> QED
      BY <3>1, <3>2
  <2>3. v = Told_'
    <3>1. Told_' = IF answer_' THEN -SLong(sum'.x) ELSE sum'.x
      BY DEF Told_, SLong
    <3> QED
      BY <1>1, <1>2, <2>2, <3>1
  <2> HIDE DEF v
  <2>4. Reads(Base', <<>>, v, v)
    <3> DEFINE f == [k \in {0} |-> v]
    <3>1. v \in Int
      BY <2>2, DspConstants, DspShapes
    <3>2. Len(<<>>) = 0 /\ 0 .. 0 = {0} /\ 1 .. 0 = {}
      OBVIOUS
    <3>3. f \in [0 .. Len(<<>>) -> Int] /\ f[0] = v /\ f[Len(<<>>)] = v
      BY <3>1, <3>2
    <3> HIDE DEF f
    <3> QED
      BY <3>2, <3>3 DEF Reads
  <2>5. digits' \in Seq(0 .. Base' - 1)
    BY <1>1
  <2> QED
    BY <1>1, <2>2, <2>3, <2>4, <2>5 DEF Digits, v
<1> QED
  BY <1>3, <1>4, <1>5, <1>6

\* One more digit in front, and the rest divided: the number stays.
LEMMA ReadsOn ==
    ASSUME NEW b \in Nat, NEW s \in Seq(Int), NEW q \in Int, NEW d \in Int, NEW n,
           Reads(b, s, b * q + d, n)
    PROVE  Reads(b, <<d>> \o s, q, n)
<1>1. PICK f \in [0 .. Len(s) -> Int] :
         f[0] = b * q + d /\ f[Len(s)] = n /\ \A k \in 1 .. Len(s) : f[k] = b * f[k - 1] + s[k]
  BY DEF Reads
<1> DEFINE t == <<d>> \o s
           g == [k \in 0 .. Len(s) + 1 |-> IF k = 0 THEN q ELSE f[k - 1]]
<1>2. /\ Len(s) \in Nat /\ Len(t) = Len(s) + 1 /\ t[1] = d
      /\ \A k \in 2 .. Len(s) + 1 : t[k] = s[k - 1]
  OBVIOUS
<1>3. /\ g \in [0 .. Len(s) + 1 -> Int] /\ g[0] = q
      /\ \A k \in 1 .. Len(s) + 1 : g[k] = f[k - 1]
  BY <1>2
<1> HIDE DEF g, t
<1>4. g[Len(s) + 1] = n
  BY <1>1, <1>2, <1>3
<1>5. ASSUME NEW k \in 1 .. Len(s) + 1 PROVE g[k] = b * g[k - 1] + t[k]
  <2>1. CASE k = 1
    BY <1>1, <1>2, <1>3, <2>1
  <2>2. CASE k # 1
    <3>1. k \in 2 .. Len(s) + 1 /\ k - 1 \in 1 .. Len(s) /\ k - 1 \in 1 .. Len(s) + 1
      BY <1>2, <2>2
    <3>2. g[k] = f[k - 1] /\ g[k - 1] = f[k - 1 - 1] /\ t[k] = s[k - 1]
      BY <1>2, <1>3, <3>1
    <3>3. f[k - 1] = b * f[k - 1 - 1] + s[k - 1]
      BY <1>1, <3>1
    <3> QED
      BY <3>2, <3>3
  <2> QED
    BY <2>1, <2>2
<1>6. Reads(b, t, q, n)
  BY <1>2, <1>3, <1>4, <1>5 DEF Reads
<1> QED
  BY <1>6 DEF t

\* Digits before which nothing is left show the number.
LEMMA ShownIs ==
    ASSUME NEW b \in Nat, digits \in Seq(Int), NEW n, Reads(b, digits, 0, n)
    PROVE  Shown(b) = n
<1> DEFINE l == Len(digits)
           Fits(u) == u = [k \in 0 .. l |-> IF k = 0 THEN 0 ELSE b * u[k - 1] + digits[k]]
<1>1. PICK f \in [0 .. l -> Int] :
         f[0] = 0 /\ f[l] = n /\ \A k \in 1 .. l : f[k] = b * f[k - 1] + digits[k]
  BY DEF Reads
<1>2. Shown(b) = (CHOOSE u : Fits(u))[l]
  BY DEF Shown
<1>3. l \in Nat
  OBVIOUS
<1> HIDE DEF l
<1>4. Fits(f)
  <2>1. ASSUME NEW k \in 0 .. l PROVE f[k] = IF k = 0 THEN 0 ELSE b * f[k - 1] + digits[k]
    BY <1>1, <1>3
  <2>2. f = [k \in 0 .. l |-> f[k]]
    OBVIOUS
  <2> QED
    BY <2>1, <2>2
<1>5. ASSUME NEW u, Fits(u) PROVE u[l] = f[l]
  <2> DEFINE S == {k \in Nat : k <= l => u[k] = f[k]}
  <2>1. \A k \in 0 .. l : u[k] = IF k = 0 THEN 0 ELSE b * u[k - 1] + digits[k]
    BY <1>5
  <2> HIDE DEF Fits
  <2>2. 0 \in S
    BY <1>1, <1>3, <2>1
  <2>3. ASSUME NEW k \in Nat, k \in S PROVE k + 1 \in S
    <3> SUFFICES ASSUME k + 1 <= l PROVE u[k + 1] = f[k + 1]
      OBVIOUS
    <3>1. u[k] = f[k] /\ k + 1 \in 1 .. l /\ k + 1 \in 0 .. l /\ k + 1 - 1 = k /\ k + 1 # 0
      BY <1>3, <2>3
    <3>2. u[k + 1] = b * u[k + 1 - 1] + digits[k + 1]
      BY <2>1, <3>1
    <3>3. f[k + 1] = b * f[k + 1 - 1] + digits[k + 1]
      BY <1>1, <3>1
    <3> QED
      BY <3>1, <3>2, <3>3
  <2> HIDE DEF S
  <2>4. \A k \in Nat : k \in S
    BY <2>2, <2>3, SetInduction
  <2> QED
    BY <1>3, <2>4 DEF S
<1> HIDE DEF Fits
<1>6. (CHOOSE u : Fits(u))[l] = f[l]
  BY <1>4, <1>5
<1> QED
  BY <1>1, <1>2, <1>6

LEMMA PrintKeeps == ASSUME DspInv, printNumber PROVE DspInv'
<1> USE DEF DspInv
<1> DEFINE q == rest \div Base  d == rest % Base
<1>1. work = "digits" /\ sum.op \in Printing /\ sum.x \in ULong /\ sum.y \in Bases
  BY DEF printNumber, Given
<1>2. Base \in 2 .. BYTE_ /\ Base \in Nat /\ Base' = Base /\ Told_' = Told_
  <2>1. Base \in 2 .. BYTE_
    BY <1>1, BaseIs
  <2>2. UNCHANGED <<sum, answer_>>
    BY DEF printNumber
  <2> QED
    BY <2>1, <2>2, DspConstants DEF Base, Told_, SLong
<1>3. rest \in ULong /\ rest \in Nat /\ digits \in Seq(0 .. Base - 1) /\ Reads(Base, digits, rest, Told_)
      /\ (digits # <<>> => rest > 0)
  BY <1>1, DspConstants, DspShapes DEF Digits
<1>4. q \in 0 .. rest /\ q \in ULong /\ d \in 0 .. Base - 1 /\ d \in Word /\ rest = Base * q + d
  <2>1. q \in Int /\ d \in 0 .. Base - 1 /\ rest = Base * q + d
    BY <1>2, <1>3
  <2>2. q \in 0 .. rest
    BY <1>2, <1>3, QuotientBounds
  <2> QED
    BY <1>2, <1>3, <2>1, <2>2, DspConstants, DspShapes
<1>5. /\ rest' = q /\ digits' = <<d>> \o digits
      /\ work' = (IF q = 0 THEN "return" ELSE "digits")
      /\ UNCHANGED <<DSX, sum, answer_, clobbered>>
      /\ DA' \in ULong /\ DSY' \in Word /\ DSUEN' = FALSE
  <2>1. CASE TooLarge(rest)
    <3>1. DSUEN' = DSUEN /\ DSUEN = FALSE /\ DSY' = DSY /\ DA' = DA
      BY <1>1, <2>1 DEF printNumber, Disabled, DspTypes
    <3> QED
      BY <2>1, <3>1 DEF printNumber, DspTypes
  <2>2. CASE ~TooLarge(rest)
    <3>1. Magnitude(SLong(rest)) = rest
      BY <1>3, <2>2, DspConstants, DspShapes DEF Magnitude
    <3>2. DA' = q /\ DSY' = d
      BY <2>2, <3>1 DEF printNumber
    <3> QED
      BY <1>4, <2>2, <3>2 DEF printNumber
  <2> QED
    BY <2>1, <2>2
<1> HIDE DEF q, d
<1>6. DspTypes' /\ Disabled'
  BY <1>5 DEF DspTypes, Disabled
<1>7. Given'
  BY <1>1, <1>5 DEF Given, Multiplying, Printing
<1>8. SoFar'
  BY <1>1, <1>5 DEF SoFar
<1>9. Digits'
  <2>1. Reads(Base, digits', q, Told_)
    <3>1. digits \in Seq(Int) /\ q \in Int /\ d \in Int /\ Base * q + d = rest
      <4>1. 0 .. Base - 1 \subseteq Int
        BY <1>2
      <4> QED
        BY <1>2, <1>3, <1>4, <4>1
    <3> QED
      BY <1>2, <1>3, <1>5, <3>1, ReadsOn
  <2>2. digits' \in Seq(0 .. Base - 1) /\ digits' # <<>> /\ digits'[1] = d /\ Len(digits') = Len(digits) + 1
    BY <1>3, <1>4, <1>5
  <2>3. CASE q = 0
    <3>1. digits'[1] = 0 => Len(digits') = 1
      <4> SUFFICES ASSUME d = 0 PROVE Len(digits) = 0
        BY <2>2
      <4>1. rest = 0
        BY <1>2, <1>4, <2>3
      <4> QED
        BY <1>3, <4>1
    <3> QED
      BY <1>2, <1>5, <2>1, <2>2, <2>3, <3>1 DEF Digits
  <2>4. CASE q # 0
    BY <1>2, <1>4, <1>5, <2>1, <2>2, <2>4 DEF Digits
  <2> QED
    BY <2>3, <2>4
<1> QED
  BY <1>6, <1>7, <1>8, <1>9

-----------------------------------------------------------------------------

LEMMA DspKeeps == ASSUME DspInv, [HandlersNext]_handlerVars PROVE DspInv'
<1>1. CASE DspNext
  <2>1. ASSUME NEW op \in {"mul", "mulNegative"}, NEW x \in Word, NEW y \in Word, multiply(op, x, y)
        PROVE  DspInv'
    <3> DEFINE c == [op |-> op, x |-> x, y |-> y]
    <3>1. Typed(c) /\ Begin(c)
      BY <2>1 DEF Typed, Multiplying, multiply
    <3> QED
      BY <3>1, CallBegins
  <2>2. ASSUME NEW op \in {"add", "sub", "times"}, NEW x \in Word, NEW y \in Word, DSP16(op, x, y)
        PROVE  DspInv'
    <3> DEFINE c == [op |-> op, x |-> x, y |-> y]
    <3>1. Typed(c) /\ Begin(c)
      BY <2>2 DEF Typed, Multiplying, DSP16
    <3> QED
      BY <3>1, CallBegins
  <2>3. ASSUME NEW d \in ULong, NEW v \in Word, divmod(d, v) PROVE DspInv'
    <3> DEFINE c == [op |-> "divmod", x |-> d, y |-> v]
    <3>1. Typed(c) /\ Begin(c)
      BY <2>3 DEF Typed, divmod
    <3> QED
      BY <3>1, CallBegins
  <2>4. ASSUME NEW op \in {"quotient", "remainder"}, NEW a \in Short, NEW b \in Short, divide(op, a, b)
        PROVE  DspInv'
    <3> DEFINE c == [op |-> op, x |-> a, y |-> b]
    <3>1. Typed(c) /\ Begin(c)
      BY <2>4 DEF Typed, Software_, divide
    <3> QED
      BY <3>1, CallBegins
  <2>5. ASSUME NEW op \in {"print", "printSigned"}, NEW n \in ULong, NEW base \in Bases, print(op, n, base)
        PROVE  DspInv'
    BY <2>5, PrintBegins DEF Printing
  <2> QED
    BY <1>1, <2>1, <2>2, <2>3, <2>4, <2>5, PrintKeeps, LoadKeeps, CommandKeeps, ReadKeeps,
       ReturnKeeps, DspHandlerKeeps DEF DspNext
<1>2. CASE UNCHANGED dspVars
  <2> USE <1>2 DEF dspVars, DspInv
  <2>1. DspTypes' /\ Given' /\ Disabled'
    BY DEF DspTypes, Given, Disabled
  <2>2. SoFar'
    BY DEF SoFar
  <2>3. Digits'
    BY DEF Digits, Base, Told_, SLong
  <2> QED
    BY <2>1, <2>2, <2>3
<1> QED
  BY <1>1, <1>2 DEF HandlersNext, handlerVars

LEMMA DspIsExact == DspInv => Computes
<1> SUFFICES ASSUME DspInv PROVE Exact /\ Off
  BY DEF Computes
<1>1. Off
  BY DEF DspInv, Disabled, DspTypes, Off
<1>2. Exact
  <2> SUFFICES ASSUME work = "return", ~clobbered PROVE Exact
    BY DEF Exact
  <2>1. CASE sum.op \in Printing
    <3>1. /\ digits \in Seq(0 .. Base - 1) /\ Reads(Base, digits, 0, Told_) /\ Base \in Nat
          /\ (digits[1] = 0 => Len(digits) = 1)
      BY <2>1, BaseIs, DspConstants DEF DspInv, Digits, Given
    <3>2. digits \in Seq(Int)
      <4>1. 0 .. Base - 1 \subseteq Int
        BY <3>1
      <4> QED
        BY <3>1, <4>1
    <3>3. Shown(Base) = (IF answer_ THEN -SLong(sum.x) ELSE sum.x)
      BY <3>1, <3>2, ShownIs DEF Told_
    <3>4. \A k \in DOMAIN digits : digits[k] < Base
      BY <3>1
    <3> QED
      BY <2>1, <3>1, <3>3, <3>4 DEF Exact, Printing
  <2>2. CASE sum.op \notin Printing
    <3>1. Right(sum.op, sum.x, sum.y, answer_)
      BY <2>2 DEF DspInv, SoFar
    <3>2. sum.op \in Multiplying \union {"divmod"} \union Software_
      BY <2>2 DEF DspInv, Given
    <3> QED
      BY <2>2, <3>1, <3>2 DEF Exact, Right, Printing
  <2> QED
    BY <2>1, <2>2
<1> QED
  BY <1>1, <1>2

\* DSP16 saturates, products, quotients and remainders are exact, on the boundaries between
\* bytes and words and between dividends that the chip takes as positive and as negative
\* (udsc.h:113), and a printed number shows its value, whatever its base and its number of
\* digits, although a handler may use the coprocessor: for every width of a word.
THEOREM AlwaysComputes == HandlersSpec => []Computes
<1>1. HandlersInit => DspInv
  BY DspStarts DEF HandlersInit
<1>2. DspInv /\ [HandlersNext]_handlerVars => DspInv'
  BY DspKeeps
<1> QED
  BY <1>1, <1>2, DspIsExact, PTL DEF HandlersSpec

-----------------------------------------------------------------------------
(* Types.  What the invariants above do not need of them is kept beside them. *)

\* The masks of SPI are of external interrupts, and of the I bit.
MaskRest == interruptMask \subseteq INTS /\ interruptSave \subseteq INTS \union {7}

LEMMA MaskRestKeeps ==
    ASSUME MaskInv, MaskRest, [HandlersNext]_handlerVars
    PROVE  MaskRest'
<1> USE DEF MaskRest
<1>1. EIMSK \subseteq INTS
  BY DEF MaskInv, MaskTypes
<1>2. CASE UNCHANGED <<interruptMask, interruptSave>>
  BY <1>2
<1>3. CASE MaskNext /\ ~UNCHANGED <<interruptMask, interruptSave>>
  <2>1. ASSUME NEW n \in Numbers, usingInterrupt(n) \/ notUsingInterrupt(n) PROVE MaskRest'
    BY <2>1 DEF usingInterrupt, notUsingInterrupt
  <2>2. CASE beginTransaction
    BY <1>1, <2>2 DEF beginTransaction, SREG
  <2>3. CASE endTransaction
    BY <2>3 DEF endTransaction
  <2>4. ASSUME NEW n \in INTS, INT(n) PROVE MaskRest'
    <3>1. interruptMask' = interruptMask /\ (interruptSave' = interruptSave \/ UsesBus)
      BY <2>4 DEF INT, Flips, Detaches
    <3>2. CASE UsesBus
      BY <1>1, <3>1, <3>2 DEF UsesBus
    <3> QED
      BY <3>1, <3>2
  <2>5. CASE spiEnd \/ spiBegin \/ \E on \in BOOLEAN : Interrupts(on)
    BY <1>3, <2>5 DEF spiEnd, spiBegin, Interrupts, spi
  <2>6. CASE StoreHigh \/ LoadMode \/ StoreMode \/ EnableInt
    BY <1>3, <2>6 DEF StoreHigh, LoadMode, StoreMode, EnableInt, spi
  <2>7. ASSUME NEW n \in INTS,
               detachInterrupt(n) \/ \E f \in Callbacks, mode \in Triggers : attachInterrupt(n, f, mode)
        PROVE  MaskRest'
    BY <1>3, <2>7 DEF detachInterrupt, attachInterrupt, spi
  <2> QED
    BY <1>3, <2>1, <2>2, <2>3, <2>4, <2>5, <2>6, <2>7 DEF MaskNext, Calls
<1>4. CASE UNCHANGED maskVars
  BY <1>4 DEF maskVars, spi
<1> QED
  BY <1>2, <1>3, <1>4 DEF HandlersNext, handlerVars

\* The table has no more entries than slots, and the handler goes no further than
\* behind the last.
TableRest == Len(table) <= SLOTS /\ PCMSK \subseteq Pins /\ i <= SLOTS + 1

\* What pinChangeAttach() and pinChangeDetach() leave of the table's length
LEMMA TableLength ==
    ASSUME TableTypes, TableRest, NEW p \in Pins,
           pinChangeDetach(p) \/ \E mode \in Modes, f \in Actions : pinChangeAttach(p, mode, f)
    PROVE  Len(table') <= SLOTS
<1> DEFINE n == Len(table)
<1>1. n \in Nat /\ DOMAIN table = 1 .. n /\ SLOTS \in Nat /\ n <= SLOTS
  BY SlotsAre, PinAssumption DEF TableRest
<1>2. ASSUME pinChangeDetach(p) PROVE Len(table') <= SLOTS
  <2>1. CASE p \notin Attached
    BY <1>1, <1>2, <2>1 DEF pinChangeDetach
  <2>2. CASE p \in Attached
    <3> DEFINE k == CHOOSE s \in Slots(p) : TRUE
               t == [table EXCEPT ![k] = Move(k, table[Len(table)])]
    <3>1. table' = Front(t)
      BY <1>2, <2>2 DEF pinChangeDetach
    <3>2. n > 0
      BY <1>1, <2>2 DEF Attached
    <3>3. Len(t) = n
      <4>1. DOMAIN t = 1 .. n
        BY <1>1
      <4> HIDE DEF t
      <4> QED
        BY <1>1, <4>1
    <3> HIDE DEF t
    <3>4. Len(SubSeq(t, 1, n - 1)) = n - 1
      BY <1>1, <3>2, <3>3
    <3> QED
      BY <1>1, <3>1, <3>3, <3>4 DEF Front
  <2> QED
    BY <2>1, <2>2
<1>3. ASSUME NEW mode \in Modes, NEW f \in Actions, pinChangeAttach(p, mode, f)
      PROVE  Len(table') <= SLOTS
  <2> DEFINE entry == [pin |-> p, mode |-> mode, cb |-> f, last |-> level[p]]
  <2>1. CASE p \in Attached
    <3> DEFINE t == [k \in DOMAIN table |-> IF k \in Slots(p) THEN entry ELSE table[k]]
    <3>1. table' = t
      BY <1>3, <2>1 DEF pinChangeAttach
    <3>2. DOMAIN t = 1 .. n
      BY <1>1
    <3> HIDE DEF t
    <3> QED
      BY <1>1, <3>1, <3>2
  <2>2. CASE p \notin Attached /\ n = SLOTS
    BY <1>1, <1>3, <2>2 DEF pinChangeAttach
  <2>3. CASE p \notin Attached /\ n # SLOTS
    <3>1. table' = Append(table, entry)
      BY <1>3, <2>3 DEF pinChangeAttach
    <3>2. table \in Seq(Entries) /\ entry \in Entries
      BY DEF TableTypes, Entries
    <3> HIDE DEF entry
    <3>3. Len(table') = n + 1
      BY <3>1, <3>2
    <3>4. n + 1 <= SLOTS
      <4> HIDE DEF n
      <4> QED
        BY <1>1, <2>3
    <3> QED
      BY <3>3, <3>4
  <2> QED
    BY <2>1, <2>2, <2>3
<1> QED
  BY <1>2, <1>3

LEMMA TableRestKeeps ==
    ASSUME TableInv, TableRest, [HandlersNext]_handlerVars
    PROVE  TableRest'
<1> USE DEF TableRest
<1>1. Len(table) \in Nat /\ SLOTS \in Nat \ {0} /\ TableTypes /\ AtEntry /\ i \in Nat /\ adding \subseteq Pins
  BY SlotsAre, PinAssumption DEF TableInv, TableTypes
<1>2. ASSUME NEW p \in Pins, SketchDetach(p) PROVE TableRest'
  <2>1. pinChangeDetach(p) /\ i' = i
    BY <1>2 DEF SketchDetach
  <2>2. PCMSK' \subseteq Pins
    BY <2>1 DEF pinChangeDetach
  <2> QED
    BY <1>1, <2>1, <2>2, TableLength
<1>3. ASSUME NEW p \in Pins, NEW mode \in Modes, NEW f \in Actions, SketchAttach(p, mode, f)
      PROVE  TableRest'
  <2>1. pinChangeAttach(p, mode, f) /\ i' = i /\ PCMSK' = PCMSK
    BY <1>3 DEF SketchAttach
  <2> QED
    BY <1>1, <2>1, TableLength
<1>4. CASE Round
  <2>1. i <= Len(table) /\ i' \in {i, i + 1} /\ PCMSK' = PCMSK
    BY <1>4 DEF Round
  <2>2. table' = [table EXCEPT ![i] = [table[i] EXCEPT !.last = Looks(table[i])]]
    BY <1>4 DEF Round, Look
  <2>3. DOMAIN table' = DOMAIN table
    BY <2>2
  <2>4. Len(table') = Len(table)
    BY <1>1, <2>3 DEF TableTypes
  <2> QED
    BY <1>1, <2>1, <2>4
<1>5. CASE Callback
  <2>1. i \in 1 .. Len(table) /\ i' = i + 1
    BY <1>1, <1>5 DEF Callback, AtEntry
  <2>2. CASE cb = "detach"
    <3>1. pinChangeDetach(table[i].pin) /\ table[i].pin \in Pins
      BY <1>1, <1>5, <2>1, <2>2, SlotsAre DEF Callback, Entries
    <3>2. PCMSK' \subseteq Pins
      BY <3>1 DEF pinChangeDetach
    <3> QED
      BY <1>1, <2>1, <3>1, <3>2, TableLength
  <2>3. CASE cb # "detach"
    <3>1. PCMSK' = PCMSK /\ \E p \in Pins, mode \in Modes : pinChangeAttach(p, mode, "plain")
      BY <1>5, <2>3 DEF Callback
    <3> QED
      BY <1>1, <2>1, <3>1, TableLength DEF Actions
  <2> QED
    BY <2>2, <2>3
<1>6. CASE Unmask \/ pcint_handle \/ HandlerDone \/ \E p \in Pins : Toggle(p)
  BY <1>1, <1>6 DEF Unmask, pcint_handle, HandlerDone, Toggle
<1>7. CASE UNCHANGED pinVars
  BY <1>7 DEF pinVars
<1> QED
  BY <1>2, <1>3, <1>4, <1>5, <1>6, <1>7 DEF HandlersNext, handlerVars, PinNext

\* The registers of the pins are of its port, and the duties those that were asked for.
LevelRest ==
    /\ com \subseteq Outputs /\ PORT \subseteq Outputs /\ DDR \subseteq Outputs /\ loaded \subseteq Outputs
    /\ \A p \in Outputs : ocr[p] \in Duties \union {0}
    /\ next_ # "idle" /\ verb.f = "pwm" => verb.val \in Duties

LEMMA LevelRestKeeps ==
    ASSUME LevelInv, LevelRest, [HandlersNext]_handlerVars
    PROVE  LevelRest'
<1> USE DEF LevelRest
<1>1. LevelTypes
  BY DEF LevelInv
<1>2. ASSUME NEW s \in SUBSET Outputs, NEW p \in Outputs, NEW v PROVE With(s, p, v) \subseteq Outputs
  BY DEF With
<1>3. ASSUME NEW p \in Outputs, NEW mode \in {"INPUT", "INPUT_PULLUP", "OUTPUT"}, pinMode(p, mode)
      PROVE  LevelRest'
  BY <1>2, <1>3 DEF pinMode
<1>4. ASSUME NEW p \in Outputs, digitalToggle(p) PROVE LevelRest'
  BY <1>2, <1>4 DEF digitalToggle
<1>5. ASSUME NEW p \in Outputs, digitalRead(p) \/ \E high \in {0, 1} : digitalWrite(p, high)
      PROVE  LevelRest'
  BY <1>5 DEF digitalRead, digitalWrite, Calls_
<1>6. ASSUME NEW p \in Outputs, NEW duty \in Duties, analogWrite(p, duty) PROVE LevelRest'
  BY <1>6 DEF analogWrite, Calls_
<1>7. ASSUME NEW p \in Outputs, NEW v, NEW pwm \in BOOLEAN, pwm => v \in Duties, LevelHandler(p, v, pwm)
      PROVE  LevelRest'
  <2>1. UNCHANGED <<verb, next_, loaded>> /\ com' \subseteq Outputs
    BY <1>2, <1>7 DEF LevelHandler
  <2>2. CASE pwm
    BY <1>1, <1>7, <2>1, <2>2 DEF LevelHandler, LevelTypes
  <2>3. CASE ~pwm
    BY <1>2, <1>7, <2>1, <2>3 DEF LevelHandler
  <2> QED
    BY <2>2, <2>3
<1>8. CASE LoadCom
  BY <1>8 DEF LoadCom
<1>9. CASE StoreCom
  BY <1>1, <1>2, <1>9 DEF StoreCom, LevelTypes
<1>10. CASE Duty
  BY <1>1, <1>10 DEF Duty, LevelTypes, VerbPlaces
<1>11. CASE LoadPort \/ StorePort \/ Done
  BY <1>1, <1>2, <1>11 DEF LoadPort, StorePort, Done, LevelTypes
<1>12. CASE UNCHANGED levelVars
  BY <1>12 DEF levelVars
<1>13. ASSUME NEW p \in Outputs,
              \/ \E mode \in {"INPUT", "INPUT_PULLUP", "OUTPUT"} : pinMode(p, mode)
              \/ digitalToggle(p) \/ digitalRead(p)
              \/ \E high \in {0, 1} : digitalWrite(p, high) \/ LevelHandler(p, high, FALSE)
              \/ \E duty \in Duties : analogWrite(p, duty) \/ (duty \notin {0, 255} /\ LevelHandler(p, duty, TRUE))
       PROVE  LevelRest'
  BY <1>3, <1>4, <1>5, <1>6, <1>7, <1>13
<1>14. CASE LevelNext
  BY <1>8, <1>9, <1>10, <1>11, <1>13, <1>14, Zenon DEF LevelNext
<1> QED
  BY <1>12, <1>14 DEF HandlersNext, handlerVars

TypesInv ==
    MaskInv /\ TableInv /\ SoftInv /\ LevelInv /\ DspInv /\ MaskRest /\ TableRest /\ LevelRest

\* Every variable has its type: masks are of external interrupts, the pin-change table is
\* never longer than its slots nor the handler's index behind them, the ring's indices
\* stay in the ring, and registers keep their width, for any pins, slots and widths.
THEOREM HandlersWellTyped == HandlersSpec => []TypeOK
<1>1. HandlersInit => TypesInv
  <2> SUFFICES ASSUME HandlersInit PROVE TypesInv
    OBVIOUS
  <2>1. MaskInv /\ TableInv /\ SoftInv /\ LevelInv /\ DspInv
    BY MaskStarts, TableStarts, SoftStarts, LevelStarts, DspStarts DEF HandlersInit
  <2>2. MaskRest
    BY DEF HandlersInit, MaskInit, MaskRest
  <2>3. TableRest
    BY PinAssumption DEF HandlersInit, PinInit, TableRest
  <2>4. LevelRest
    BY DEF HandlersInit, LevelInit, LevelRest
  <2> QED
    BY <2>1, <2>2, <2>3, <2>4 DEF TypesInv
<1>2. TypesInv /\ [HandlersNext]_handlerVars => TypesInv'
  BY MaskKeeps, TableKeeps, SoftKeeps, LevelKeeps, DspKeeps, MaskRestKeeps, TableRestKeeps,
     LevelRestKeeps DEF TypesInv
<1>3. TypesInv => TypeOK
  <2> SUFFICES ASSUME TypesInv PROVE TypeOK
    OBVIOUS
  <2> USE DEF TypesInv
  <2>1. EIMSK \subseteq INTS /\ (\A n \in INTS : EICRA[n] \subseteq {0, 1}) /\ interruptMode \in 0 .. 2
    BY DEF MaskInv, MaskTypes
  <2>2. i \in 0 .. SLOTS + 1 /\ Len(table) <= SLOTS /\ PCMSK \subseteq Pins
    BY PinAssumption DEF TableInv, TableTypes, TableRest
  <2>3. head \in 0 .. RX_BUFF - 1 /\ tail \in 0 .. RX_BUFF - 1 /\ rxMask \subseteq Objects
    BY DEF SoftInv, SoftTypes
  <2>4. DSX \in Word /\ DSY \in Word /\ DA \in ULong /\ DSUEN \in BOOLEAN
    BY DEF DspInv, DspTypes
  <2> QED
    BY <2>1, <2>2, <2>3, <2>4 DEF TypeOK, MaskRest, LevelRest
<1> QED
  BY <1>1, <1>2, <1>3, PTL DEF HandlersSpec
=============================================================================
