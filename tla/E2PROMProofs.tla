---------------------------- MODULE E2PROMProofs ----------------------------
(***************************************************************************)
(* Proofs about the address arithmetic of the emulated EEPROM, that the    *)
(* controller's cells are never programmed, that a block accepted is       *)
(* written to its last byte, and that the library is a memory that         *)
(* outlives the loss of power, for every page size.                        *)
(***************************************************************************)
EXTENDS E2PROMProps, TLAPS

\* Division with remainder.
LEMMA DivMod ==
    ASSUME NEW a \in Nat, NEW d \in Nat, d > 0
    PROVE  /\ a \div d \in Nat /\ a % d \in 0 .. d - 1
           /\ a = d * (a \div d) + (a % d)
OBVIOUS

\* Products keep an order.
LEMMA TimesMono ==
    ASSUME NEW p \in Nat, NEW x \in Nat, NEW y \in Nat, x < y
    PROVE  p * x + p <= p * y
<1>1. PICK k \in Nat : y = x + 1 + k
  <2>1. y - x - 1 \in Nat /\ y = x + 1 + (y - x - 1)
    OBVIOUS
  <2> QED
    BY <2>1
<1>2. p * y = p * x + p + p * k
  BY <1>1
<1>3. p * k \in Nat
  BY <1>1
<1> QED
  BY <1>2, <1>3

\* Quotient and remainder are unique.
LEMMA DivModUnique ==
    ASSUME NEW p \in Nat, p > 0, NEW q \in Nat, NEW r \in 0 .. p - 1,
           NEW s \in Nat, NEW t \in 0 .. p - 1, p * q + r = p * s + t
    PROVE  q = s /\ r = t
<1>1. ~(q < s)
  <2> SUFFICES ASSUME q < s PROVE FALSE
    OBVIOUS
  <2>1. p * q + p <= p * s
    BY TimesMono
  <2>2. p * q \in Nat /\ p * s \in Nat
    OBVIOUS
  <2> QED
    BY <2>1, <2>2
<1>2. ~(s < q)
  <2> SUFFICES ASSUME s < q PROVE FALSE
    OBVIOUS
  <2>1. p * s + p <= p * q
    BY TimesMono
  <2>2. p * q \in Nat /\ p * s \in Nat
    OBVIOUS
  <2> QED
    BY <2>1, <2>2
<1>3. q = s
  BY <1>1, <1>2
<1> QED
  BY <1>3

\* So a number that is built from a quotient and a remainder has them.
LEMMA DivModOf ==
    ASSUME NEW p \in Nat, p > 0, NEW q \in Nat, NEW r \in 0 .. p - 1,
           NEW x \in Nat, x = p * q + r
    PROVE  x \div p = q /\ x % p = r
<1> DEFINE s == x \div p
           t == x % p
<1>1. s \in Nat /\ t \in 0 .. p - 1 /\ x = p * s + t
  BY DivMod
<1> HIDE DEF s, t
<1>2. p * q + r = p * s + t
  BY <1>1
<1>3. q = s /\ r = t
  BY <1>1, <1>2, DivModUnique
<1> QED
  BY <1>3 DEF s, t
-----------------------------------------------------------------------------
(* The hole-skipping address map *)

\* What is assumed of the constants.
LEMMA Constants == /\ PAGE \in Nat /\ FREE \in Nat /\ WORD \in Nat /\ U16 \in Nat
                   /\ 0 < FREE /\ FREE < PAGE /\ PAGE <= U16
BY PageAssumption

\* A logical address is a page and a place among its user bytes, and maps to
\* the same place of the same page.
LEMMA RealSplit ==
    ASSUME NEW a \in Nat
    PROVE  /\ a \div FREE \in Nat /\ a % FREE \in 0 .. FREE - 1
           /\ a = FREE * (a \div FREE) + (a % FREE)
           /\ RealAddress(a) = PAGE * (a \div FREE) + (a % FREE)
<1>1. /\ a \div FREE \in Nat /\ a % FREE \in 0 .. FREE - 1
      /\ a = FREE * (a \div FREE) + (a % FREE)
  BY Constants, DivMod
<1>2. CASE a >= FREE
  BY <1>1, <1>2 DEF RealAddress
<1>3. CASE a < FREE
  <2>1. a = FREE * 0 + a /\ a \in 0 .. FREE - 1
    BY <1>3, Constants
  <2>2. a \div FREE = 0 /\ a % FREE = a
    BY <2>1, Constants, DivModOf
  <2>3. PAGE * 0 + a = a
    BY Constants
  <2> QED
    BY <1>1, <1>3, <2>2, <2>3, Constants DEF RealAddress
<1> QED
  BY <1>1, <1>2, <1>3, Constants

\* It never lands on a cell of the controller, and stays inside the partition.
LEMMA RealSafe ==
    ASSUME NEW n \in Nat, NEW a \in Nat, a < FREE * n
    PROVE  RealAddress(a) \in 0 .. PAGE * n - 1 /\ RealAddress(a) % PAGE < FREE
<1> DEFINE q == a \div FREE
           r == a % FREE
<1>1. q \in Nat /\ r \in 0 .. FREE - 1 /\ a = FREE * q + r /\ RealAddress(a) = PAGE * q + r
  BY RealSplit
<1> HIDE DEF q, r
<1>2. q < n
  <2> SUFFICES ASSUME ~(q < n) PROVE FALSE
    OBVIOUS
  <2>1. q = n \/ n < q
    BY <1>1
  <2>2. FREE * n <= FREE * q
    <3>1. n < q => FREE * n + FREE <= FREE * q
      BY <1>1, Constants, TimesMono
    <3>2. FREE * n \in Nat /\ FREE * q \in Nat
      BY <1>1, Constants
    <3> QED
      BY <2>1, <3>1, <3>2, Constants
  <2>3. FREE * n \in Nat /\ FREE * q \in Nat
    BY <1>1, Constants
  <2> QED
    BY <1>1, <2>2, <2>3
<1>3. PAGE * q + PAGE <= PAGE * n
  BY <1>1, <1>2, Constants, TimesMono
<1>4. PAGE * q \in Nat /\ PAGE * n \in Nat
  BY <1>1, Constants
<1>5. RealAddress(a) \in 0 .. PAGE * n - 1
  BY <1>1, <1>3, <1>4, Constants
<1>6. r \in 0 .. PAGE - 1
  BY <1>1, Constants
<1>7. PICK x \in Nat : x = PAGE * q + r
  BY <1>1, <1>4
<1>8. x % PAGE = r
  BY <1>1, <1>6, <1>7, Constants, DivModOf
<1>9. RealAddress(a) = x
  BY <1>1, <1>7
<1>10. x % PAGE < FREE
  BY <1>1, <1>8, Constants
<1> QED
  BY <1>5, <1>9, <1>10, Zenon

\* Two logical addresses never share a cell.
THEOREM RealInjective ==
    ASSUME NEW a \in Nat, NEW b \in Nat, RealAddress(a) = RealAddress(b)
    PROVE  a = b
<1> DEFINE q == a \div FREE
           r == a % FREE
           s == b \div FREE
           t == b % FREE
<1>1. q \in Nat /\ r \in 0 .. FREE - 1 /\ a = FREE * q + r /\ RealAddress(a) = PAGE * q + r
  BY RealSplit
<1>2. s \in Nat /\ t \in 0 .. FREE - 1 /\ b = FREE * s + t /\ RealAddress(b) = PAGE * s + t
  BY RealSplit
<1> HIDE DEF q, r, s, t
<1>3. r \in 0 .. PAGE - 1 /\ t \in 0 .. PAGE - 1
  BY <1>1, <1>2, Constants
<1>4. q = s /\ r = t
  BY <1>1, <1>2, <1>3, Constants, DivModUnique
<1> QED
  BY <1>1, <1>2, <1>4

-----------------------------------------------------------------------------
(* No call programs a cell of the controller *)

\* Whenever a program command may be under way, it is aimed at a user cell.
Aimed == pc \in {"flags", "command", "wait"} \/ busy =>
            eear \in 0 .. PhysicalSize - 1 /\ eear % PAGE < FREE

Shape ==
    /\ pages \in Nat
    /\ DOMAIN todo = {"op", "at", "real", "data"} /\ todo.at \in Nat
    /\ DOMAIN cells = 0 .. PhysicalSize - 1

Reserve == Shape /\ Aimed /\ ReservedKept

\* A fresh partition holds zeros.
LEMMA ReserveInit == Init => Reserve
<1> SUFFICES ASSUME Init PROVE Reserve
  OBVIOUS
<1>1. pages \in Nat
  BY DEF Init, Partition
<1> QED
  BY <1>1 DEF Init, Reserve, Shape, Aimed, ReservedKept

\* An accessible address is the address of a user cell, in either mode.
LEMMA CellSafe ==
    ASSUME NEW a \in Nat, NEW real, pages \in Nat, Accessible(a, real)
    PROVE  Cell(a, real) \in 0 .. PhysicalSize - 1 /\ Cell(a, real) % PAGE < FREE
<1>1. CASE real
  BY <1>1, Constants DEF Accessible, Cell, PhysicalSize
<1>2. CASE ~real
  <2>1. a < FREE * pages
    BY <1>2 DEF Accessible, LogicalSize
  <2>2. RealAddress(a) \in 0 .. PAGE * pages - 1 /\ RealAddress(a) % PAGE < FREE
    BY <2>1, RealSafe
  <2> QED
    BY <1>2, <2>2 DEF Cell, PhysicalSize
<1> QED
  BY <1>1, <1>2

\* Swapping in a page with a new user byte keeps the rest of it.
LEMMA WrittenKeeps ==
    ASSUME Reserve, busy
    PROVE  DOMAIN Written = DOMAIN cells /\ \A x \in DOMAIN Written : x % PAGE >= FREE => Written[x] = 0
<1>1. eear % PAGE < FREE /\ eear \in 0 .. PhysicalSize - 1
  BY DEF Reserve, Aimed
<1>2. DOMAIN Written = DOMAIN cells
  BY DEF Written
<1>3. ASSUME NEW x \in DOMAIN cells, x % PAGE >= FREE PROVE Written[x] = 0
  <2>1. x \in Int /\ x % PAGE \in Int /\ eear % PAGE \in Int
    BY <1>1, Constants DEF Reserve, Shape, PhysicalSize
  <2>2. x # eear
    BY <1>1, <1>3, <2>1, Constants
  <2> QED
    BY <1>3, <2>2 DEF Written, Reserve, ReservedKept
<1> QED
  BY <1>2, <1>3

\* No step of a call, the controller, a handler or the power supply breaks it.
LEMMA ReserveStep == Reserve /\ [Next]_vars => Reserve'
<1> SUFFICES ASSUME Reserve, [Next]_vars PROVE Reserve'
  OBVIOUS
<1> USE DEF Reserve
<1> DEFINE Began(a) == /\ todo'.at = a /\ DOMAIN todo' = {"op", "at", "real", "data"}
                       /\ pc' \in {"idle", "byte"}
                       /\ UNCHANGED <<pages, cells>> /\ UNCHANGED controller
<1>1. ASSUME Shape', pc' \in {"idle", "byte", "off"}, busy' => busy /\ UNCHANGED eear,
             UNCHANGED <<pages, cells>>
      PROVE  Reserve'
  BY <1>1 DEF Aimed, ReservedKept, PhysicalSize
<1>2. ASSUME NEW a \in Nat, Began(a) PROVE Reserve'
  <2>1. Shape'
    BY <1>2 DEF Shape, PhysicalSize
  <2> QED
    BY <1>1, <1>2, <2>1 DEF controller
<1>3. ASSUME NextByte, UNCHANGED <<pages, cells>>, UNCHANGED controller
      PROVE  Reserve'
  <2>1. (todo.at + Width) % U16 \in Nat
    BY Constants DEF Width, Shape
  <2>2. Shape'
    BY <1>3, <2>1 DEF NextByte, Shape, PhysicalSize
  <2> QED
    BY <1>1, <1>3, <2>2 DEF NextByte, controller
<1>4. ASSUME Call PROVE Reserve'
  <2>0. Addresses \subseteq Nat
    BY Constants DEF Addresses
  <2>1. ASSUME NEW a \in Addresses, NEW n \in Addresses, NEW real \in BOOLEAN, Write(a, n, real)
        PROVE  Reserve'
    <3>1. Began(a)
      BY <2>1 DEF Write, Enter
    <3> QED
      BY <1>2, <2>0, <3>1
  <2>2. ASSUME NEW a \in Addresses, NEW words \in Addresses, WriteWords(a, words)
        PROVE  Reserve'
    <3>1. Began(a)
      BY <2>2 DEF WriteWords, Enter
    <3> QED
      BY <1>2, <2>0, <3>1
  <2>3. ASSUME NEW a \in Addresses, NEW words \in Addresses, ReadWords(a, words)
        PROVE  Reserve'
    <3>1. Began(a)
      BY <2>3 DEF ReadWords, Enter
    <3> QED
      BY <1>2, <2>0, <3>1
  <2>4. ASSUME NEW a \in Addresses, NEW n \in 1 .. MaxPut, NEW keep \in SUBSET (1 .. n), Put(a, n, keep)
        PROVE  Reserve'
    <3>1. Began(a)
      BY <2>4 DEF Put, Enter
    <3> QED
      BY <1>2, <2>0, <3>1
  <2>5. ASSUME NEW a \in Addresses, NEW n \in 1 .. MaxPut, NEW whole \in BOOLEAN, ReadBytes(a, n, whole)
        PROVE  Reserve'
    <3>1. Began(a)
      BY <2>5 DEF ReadBytes, Enter
    <3> QED
      BY <1>2, <2>0, <3>1
  <2> QED
    BY <1>4, <2>1, <2>2, <2>3, <2>4, <2>5 DEF Call
<1>5. ASSUME SkipByte PROVE Reserve'
  BY <1>3, <1>5 DEF SkipByte
<1>6. ASSUME LoadByte PROVE Reserve'
  <2>1. eear' \in 0 .. PhysicalSize - 1 /\ eear' % PAGE < FREE
    BY <1>6, CellSafe DEF LoadByte, Shape
  <2> QED
    BY <1>6, <2>1 DEF LoadByte, Shape, Aimed, ReservedKept, PhysicalSize
<1>7. ASSUME Wait PROVE Reserve'
  BY <1>3, <1>7 DEF Wait
<1>8. ASSUME Fetch PROVE Reserve'
  BY <1>3, <1>8 DEF Fetch, controller
<1>9. ASSUME Swap PROVE Reserve'
  BY <1>9, WrittenKeeps DEF Swap, Shape, Aimed, ReservedKept, PhysicalSize
<1>10. ASSUME LosePower PROVE Reserve'
  BY <1>10, WrittenKeeps DEF LosePower, Shape, Aimed, ReservedKept, PhysicalSize
<1>11. ASSUME ReadFlags PROVE Reserve'
  BY <1>11 DEF ReadFlags, Shape, Aimed, ReservedKept, controller, PhysicalSize
<1>12. ASSUME Program PROVE Reserve'
  BY <1>12 DEF Program, Shape, Aimed, ReservedKept, PhysicalSize
<1>13. ASSUME Compare PROVE Reserve'
  <2>1. CASE cells[eear] = Head(todo.data)
    BY <1>3, <1>13, <2>1 DEF Compare, controller
  <2>2. CASE cells[eear] # Head(todo.data)
    <3>1. todo' = [todo EXCEPT !.op = "replace"]
      BY <1>13, <2>2 DEF Compare
    <3>2. DOMAIN todo' = DOMAIN todo /\ todo'.at = todo.at
      BY <3>1 DEF Shape
    <3> QED
      BY <1>1, <1>13, <2>2, <3>2 DEF Compare, Shape, controller, PhysicalSize
  <2> QED
    BY <2>1, <2>2
<1>14. ASSUME Handler PROVE Reserve'
  BY <1>14 DEF Handler, Shape, Aimed, ReservedKept, controller, PhysicalSize
<1>15. ASSUME Restart PROVE Reserve'
  BY <1>15 DEF Restart, Shape, Aimed, ReservedKept, controller, PhysicalSize
<1>16. ASSUME UNCHANGED vars PROVE Reserve'
  BY <1>16 DEF vars, controller, Shape, Aimed, ReservedKept, PhysicalSize
<1> QED
  BY <1>4, <1>5, <1>6, <1>7, <1>8, <1>9, <1>10, <1>11, <1>12, <1>13, <1>14, <1>15, <1>16 DEF Next, Step

\* Whatever addresses and lengths a sketch passes, in logical or real mode, and
\* whenever the power fails, the controller's cells of every page are intact.
THEOREM ReservedAlwaysKept == Spec => []ReservedKept
<1>1. Init => Reserve
  BY ReserveInit
<1>2. Reserve /\ [Next]_vars => Reserve'
  BY ReserveStep
<1>3. Reserve => ReservedKept
  BY DEF Reserve
<1> QED
  BY <1>1, <1>2, <1>3, PTL DEF Spec

-----------------------------------------------------------------------------
(* Blocks that are accepted are done as a whole, and everything has its    *)
(* type.  That the byte under way is the user's follows from what the call *)
(* was accepted for: what is left of it is still within the range that was *)
(* checked, and no 16-bit address wraps inside it.                         *)

InCall == pc \in {"byte", "flags", "command", "wait"}

\* A block of n bytes at a, within one page or within the logical size
Fits(a, n, real) ==
    IF real THEN a < PhysicalSize /\ (a % PAGE) + n <= FREE ELSE a + n <= LogicalSize

\* What is left of an accepted call is still within its range.
Rest ==
    InCall =>
        /\ todo.op = "write" => Fits(todo.at, Len(todo.data), todo.real)
        /\ todo.op = "readword" =>
              /\ ~todo.real /\ todo.at % WORD = 0
              /\ todo.at + Len(todo.data) * WORD <= LogicalSize

\* The partition is inside the address space, and a native access starts on a word.
Sized   == PhysicalSize <= U16
Aligned == pc \in {"flags", "command"} /\ todo.op = "readword" => eear % WORD = 0

Whole == TypeOK /\ Reserve /\ Rest /\ Sized /\ Aligned

\* Multiples of the width of a native access
LEMMA WordMod == ASSUME NEW x \in Nat PROVE x % WORD = 0 <=> \E k \in Nat : x = WORD * k
<1>1. WORD \in Nat /\ WORD > 0
  BY PageAssumption
<1>2. ASSUME x % WORD = 0 PROVE \E k \in Nat : x = WORD * k
  <2>1. x \div WORD \in Nat /\ x = WORD * (x \div WORD) + (x % WORD)
    BY <1>1, DivMod
  <2>2. WORD * (x \div WORD) \in Nat
    BY <1>1, <2>1
  <2> QED
    BY <1>2, <2>1, <2>2
<1>3. ASSUME NEW k \in Nat, x = WORD * k PROVE x % WORD = 0
  <2>1. 0 \in 0 .. WORD - 1 /\ WORD * k \in Nat
    BY <1>1
  <2>2. x = WORD * k + 0
    BY <1>3, <2>1
  <2> QED
    BY <1>1, <2>1, <2>2, DivModOf
<1> QED
  BY <1>2, <1>3

\* A word that starts inside the partition ends inside it.
LEMMA WordFits ==
    ASSUME pages \in Nat, NEW x \in 0 .. PhysicalSize - 1, x % WORD = 0
    PROVE  x + WORD <= PhysicalSize
<1>1. WORD \in Nat /\ PAGE \in Nat
  BY PageAssumption
<1>2. PICK k \in Nat : x = WORD * k
  <2>1. x \in Nat
    BY <1>1 DEF PhysicalSize
  <2> QED
    BY <2>1, WordMod
<1>3. PICK p \in Nat : PAGE = WORD * p
  BY <1>1, WordAssumption, WordMod
<1>4. PICK m \in Nat : m = p * pages /\ PhysicalSize = WORD * m
  <2>1. p * pages \in Nat /\ (WORD * p) * pages = WORD * (p * pages)
    BY <1>1, <1>3
  <2> QED
    BY <1>3, <2>1 DEF PhysicalSize
<1>5. WORD * k \in Nat /\ WORD * m \in Nat /\ WORD * k < WORD * m
  BY <1>1, <1>2, <1>4
<1>6. k < m
  <2> SUFFICES ASSUME ~(k < m) PROVE FALSE
    OBVIOUS
  <2>1. CASE k = m
    BY <1>5, <2>1
  <2>2. CASE m < k
    <3>1. WORD * m + WORD <= WORD * k
      BY <1>1, <2>2, TimesMono
    <3> QED
      BY <1>1, <1>5, <3>1
  <2> QED
    BY <2>1, <2>2
<1>7. WORD * k + WORD <= WORD * m
  BY <1>1, <1>6, TimesMono
<1> QED
  BY <1>2, <1>4, <1>7

\* The address map keeps words whole: pages and their user bytes are multiples of a word.
LEMMA RealWord == ASSUME NEW a \in Nat, a % WORD = 0 PROVE RealAddress(a) % WORD = 0
<1>1. WORD \in Nat /\ PAGE \in Nat /\ FREE \in Nat
  BY PageAssumption
<1> DEFINE q == a \div FREE
           r == a % FREE
<1>2. q \in Nat /\ r \in Nat /\ a = FREE * q + r /\ RealAddress(a) = PAGE * q + r
  BY <1>1, RealSplit
<1> HIDE DEF q, r
<1>3. PICK p \in Nat, f \in Nat, c \in Nat : PAGE = WORD * p /\ FREE = WORD * f /\ a = WORD * c
  <2>1. PICK p \in Nat : PAGE = WORD * p
    BY <1>1, WordAssumption, WordMod
  <2>2. PICK f \in Nat : FREE = WORD * f
    BY <1>1, WordAssumption, WordMod
  <2>3. PICK c \in Nat : a = WORD * c
    BY <1>1, WordMod
  <2> QED
    BY <2>1, <2>2, <2>3
<1>4. f <= p
  <2> SUFFICES ASSUME p < f PROVE FALSE
    BY <1>3
  <2>1. WORD * p + WORD <= WORD * f
    BY <1>1, <1>3, TimesMono
  <2> QED
    BY <1>1, <1>3, <2>1, PageAssumption
<1>5. PICK d \in Nat : p = f + d
  <2>1. p - f \in Nat /\ p = f + (p - f)
    BY <1>3, <1>4
  <2> QED
    BY <2>1
<1>6. PAGE * q = FREE * q + WORD * (d * q)
  BY <1>1, <1>2, <1>3, <1>5
<1>7. PICK e \in Nat : e = d * q
  BY <1>2, <1>5
<1>8. FREE * q \in Nat /\ WORD * e \in Nat /\ WORD * c \in Nat
  BY <1>1, <1>2, <1>3, <1>7
<1>9. RealAddress(a) = WORD * c + WORD * e
  BY <1>2, <1>3, <1>6, <1>7, <1>8
<1>10. WORD * c + WORD * e = WORD * (c + e)
  BY <1>1, <1>3, <1>7
<1>11. RealAddress(a) \in Nat /\ c + e \in Nat
  BY <1>3, <1>7, <1>8, <1>9
<1> QED
  BY <1>9, <1>10, <1>11, WordMod

\* The bytes that a call writes
LEMMA StampType ==
    ASSUME NEW n \in Nat, calls \in Nat PROVE Stamp(n) \in Seq(Nat) /\ Len(Stamp(n)) = n
<1>1. U16 * (calls + 1) \in Nat
  BY PageAssumption
<1> DEFINE x == U16 * (calls + 1)
<1>2. \A k \in 1 .. n : x + k \in Nat
  BY <1>1
<1> HIDE DEF x
<1>3. [k \in 1 .. n |-> x + k] \in Seq(Nat) /\ Len([k \in 1 .. n |-> x + k]) = n
  BY <1>2
<1> QED
  BY <1>3 DEF Stamp, x

\* The address after one that is not the last of its page
LEMMA PageNext ==
    ASSUME NEW a \in Nat, NEW m \in Nat, a < PAGE * m, (a % PAGE) + 1 < PAGE
    PROVE  (a + 1) % PAGE = (a % PAGE) + 1 /\ a + 1 < PAGE * m
<1> DEFINE q == a \div PAGE
           r == a % PAGE
<1>1. PAGE \in Nat /\ PAGE > 0
  BY PageAssumption
<1>2. q \in Nat /\ r \in 0 .. PAGE - 1 /\ a = PAGE * q + r
  BY <1>1, DivMod
<1>3. r + 1 < PAGE
  OBVIOUS
<1> HIDE DEF q, r
<1>4. (a + 1) % PAGE = r + 1
  <2>1. r + 1 \in 0 .. PAGE - 1 /\ a + 1 \in Nat
    BY <1>1, <1>2, <1>3
  <2>2. PAGE * q \in Nat
    BY <1>1, <1>2
  <2>3. a + 1 = PAGE * q + (r + 1)
    BY <1>2, <2>1, <2>2
  <2> QED
    BY <1>1, <1>2, <2>1, <2>3, DivModOf
<1>5. a + 1 < PAGE * m
  <2>1. PAGE * q \in Nat /\ PAGE * m \in Nat
    BY <1>1, <1>2
  <2>2. q < m
    <3> SUFFICES ASSUME ~(q < m) PROVE FALSE
      OBVIOUS
    <3>1. CASE q = m
      BY <1>2, <2>1, <3>1
    <3>2. CASE m < q
      <4>1. PAGE * m + PAGE <= PAGE * q
        BY <1>1, <1>2, <3>2, TimesMono
      <4> QED
        BY <1>1, <1>2, <2>1, <4>1
    <3> QED
      BY <1>2, <3>1, <3>2
  <2>3. PAGE * q + PAGE <= PAGE * m
    BY <1>1, <1>2, <2>2, TimesMono
  <2> QED
    BY <1>1, <1>2, <1>3, <2>1, <2>3
<1> QED
  BY <1>4, <1>5 DEF r

\* The logical size is within the partition.
LEMMA SizesAre ==
    ASSUME pages \in {0, 1, 2, 4, 8}
    PROVE  LogicalSize \in Nat /\ PhysicalSize \in Nat /\ LogicalSize <= PhysicalSize
BY PageAssumption DEF LogicalSize, PhysicalSize

\* The type of what is left of a call
Queue == todo \in [op : Ops, at : 0 .. U16 - 1, real : BOOLEAN, data : Seq(Nat)]

\* What is left of a call after one more byte of it is still within its range:
\* NextByte() of a write, an update, a read or a native read.
LEMMA NextByteKeeps ==
    ASSUME Whole, InCall, NextByte, UNCHANGED pages
    PROVE  Queue' /\ pc' \in {"idle", "byte"} /\ (pc' = "byte" => todo'.data # <<>>) /\ Rest'
<1> USE PageAssumption DEF Whole
<1> DEFINE n == Len(todo.data)
<1>1. /\ todo.op \in Ops /\ todo.at \in 0 .. U16 - 1 /\ todo.real \in BOOLEAN /\ todo.data \in Seq(Nat)
      /\ todo.data # <<>> /\ n \in Nat /\ n > 0 /\ Width \in Nat /\ pages \in {0, 1, 2, 4, 8}
  BY DEF TypeOK, InCall, Width
<1>2. Tail(todo.data) \in Seq(Nat) /\ Len(Tail(todo.data)) = n - 1
  BY <1>1
<1>3. /\ todo'.op = IF todo.op = "replace" THEN "update" ELSE todo.op
      /\ todo'.at = (todo.at + Width) % U16 /\ todo'.real = todo.real /\ todo'.data = Tail(todo.data)
      /\ todo' = [op |-> todo'.op, at |-> todo'.at, real |-> todo'.real, data |-> todo'.data]
      /\ pc' = IF n = 1 THEN "idle" ELSE "byte"
  BY DEF NextByte, LastByte
<1>4. todo'.op \in Ops
  BY <1>1, <1>3 DEF Ops
<1>5. (todo.at + Width) % U16 \in 0 .. U16 - 1
  BY <1>1
<1>6. Queue'
  BY <1>1, <1>2, <1>3, <1>4, <1>5 DEF Queue
<1>7. n # 1 => todo'.data # <<>> /\ Len(todo'.data) = n - 1 /\ n > 1
  <2>1. Len(todo'.data) = n - 1 /\ Len(<<>>) = 0
    BY <1>2, <1>3
  <2> HIDE DEF n
  <2>2. n # 1 => Len(todo'.data) # Len(<<>>) /\ n > 1
    BY <1>1, <2>1
  <2> QED
    BY <2>1, <2>2
<1> HIDE DEF n
<1>8. ASSUME pc' = "byte", NEW at \in Nat, todo.at + Width = at, at < U16 PROVE todo'.at = at
  <2>1. at \in 0 .. U16 - 1
    BY <1>8
  <2>2. at % U16 = at
    BY <2>1
  <2> QED
    BY <1>3, <1>8, <2>2
<1>9. ASSUME pc' = "byte", todo.op = "write" PROVE Fits(todo'.at, n - 1, todo.real)
  <2>1. Width = 1 /\ n > 1 /\ Fits(todo.at, n, todo.real)
    BY <1>3, <1>7, <1>9 DEF Width, Rest, n
  <2>2. PhysicalSize \in Nat /\ LogicalSize \in Nat /\ LogicalSize <= U16 /\ PhysicalSize <= U16
    BY <1>1, SizesAre DEF Sized
  <2>3. CASE todo.real
    <3>1. todo.at \in Nat /\ todo.at < PAGE * pages /\ (todo.at % PAGE) + n <= FREE /\ todo.at % PAGE \in Nat
      BY <1>1, <2>1, <2>3 DEF Fits, PhysicalSize
    <3>2. (todo.at % PAGE) + 1 < PAGE /\ pages \in Nat
      BY <1>1, <2>1, <3>1
    <3>3. (todo.at + 1) % PAGE = (todo.at % PAGE) + 1 /\ todo.at + 1 < PAGE * pages
      BY <3>1, <3>2, PageNext
    <3>4. todo'.at = todo.at + 1
      BY <1>8, <1>9, <2>1, <2>2, <3>1, <3>3 DEF PhysicalSize
    <3> QED
      BY <1>1, <2>1, <2>3, <3>1, <3>3, <3>4 DEF Fits, PhysicalSize
  <2>4. CASE ~todo.real
    <3>1. todo.at + n <= LogicalSize
      BY <2>1, <2>4 DEF Fits
    <3>2. todo'.at = todo.at + 1
      BY <1>1, <1>8, <1>9, <2>1, <2>2, <3>1
    <3> QED
      BY <1>1, <2>4, <3>1, <3>2 DEF Fits
  <2> QED
    BY <1>1, <2>3, <2>4
<1>10. ASSUME pc' = "byte", todo.op = "readword"
       PROVE  ~todo.real /\ todo'.at % WORD = 0 /\ todo'.at + (n - 1) * WORD <= LogicalSize
  <2>1. /\ Width = WORD /\ n > 1 /\ ~todo.real /\ todo.at % WORD = 0
        /\ todo.at + n * WORD <= LogicalSize
    BY <1>3, <1>7, <1>10 DEF Width, Rest, n
  <2>2. LogicalSize \in Nat /\ LogicalSize <= U16
    BY <1>1, SizesAre DEF Sized
  <2>3. PICK w \in Nat : w = (n - 1) * WORD /\ n * WORD = w + WORD /\ w >= WORD
    <3>1. PICK k \in Nat : n = k + 2
      <4>1. n - 2 \in Nat /\ n = (n - 2) + 2
        BY <1>1, <2>1
      <4> QED
        BY <4>1
    <3>2. k * WORD \in Nat /\ (n - 1) * WORD = k * WORD + WORD /\ n * WORD = k * WORD + WORD + WORD
      BY <3>1
    <3> QED
      BY <3>2
  <2>4. todo'.at = todo.at + WORD
    <3>1. todo.at \in Nat /\ WORD \in Nat /\ WORD > 0
      BY <1>1
    <3>2. todo.at + WORD \in Nat /\ todo.at + WORD < U16
      BY <2>1, <2>2, <2>3, <3>1
    <3> QED
      BY <1>8, <1>10, <2>1, <3>2
  <2>5. todo'.at % WORD = 0
    <3>0. todo.at \in Nat
      BY <1>1
    <3>1. PICK k \in Nat : todo.at = WORD * k
      BY <2>1, <3>0, WordMod
    <3>2. todo.at + WORD = WORD * (k + 1) /\ k + 1 \in Nat /\ todo.at + WORD \in Nat
      BY <1>1, <3>1
    <3> QED
      BY <2>4, <3>2, WordMod
  <2> QED
    BY <1>1, <2>1, <2>2, <2>3, <2>4, <2>5
<1>11. Rest'
  <2>1. CASE pc' # "byte"
    BY <1>3, <2>1 DEF Rest, InCall
  <2>2. CASE pc' = "byte" /\ todo.op = "write"
    <3>1. /\ todo'.op = "write" /\ todo'.real = todo.real /\ Len(todo'.data) = n - 1
          /\ Fits(todo'.at, n - 1, todo.real)
      BY <1>3, <1>7, <1>9, <2>2
    <3> QED
      BY <3>1 DEF Rest, Fits, PhysicalSize, LogicalSize
  <2>3. CASE pc' = "byte" /\ todo.op = "readword"
    <3>1. /\ todo'.op = "readword" /\ todo'.real = todo.real /\ Len(todo'.data) = n - 1
          /\ ~todo.real /\ todo'.at % WORD = 0 /\ todo'.at + (n - 1) * WORD <= LogicalSize
      BY <1>3, <1>7, <1>10, <2>3
    <3> QED
      BY <3>1 DEF Rest, LogicalSize
  <2>4. CASE todo.op \notin {"write", "readword"}
    BY <1>3, <2>4 DEF Rest
  <2> QED
    BY <2>1, <2>2, <2>3, <2>4
<1> QED
  BY <1>3, <1>6, <1>7, <1>11

\* The sizes that the partition can have
LEMMA PagesAre == Init => pages \in {0, 1} \/ (pages \in Asked /\ pages \in {2, 4, 8})
<1> SUFFICES ASSUME Init PROVE pages \in {0, 1} \/ (pages \in Asked /\ pages \in {2, 4, 8})
  OBVIOUS
<1>1. PICK asked \in Asked, safe \in Safe : pages = Partition(asked, safe)
  BY DEF Init
<1> DEFINE n == IF safe THEN 1 ELSE asked
<1>2. pages = IF n \in {0, 2, 4, 8} THEN n ELSE 1
  BY <1>1 DEF Partition
<1>3. n = 1 \/ n \in Asked
  OBVIOUS
<1> HIDE DEF n
<1> QED
  BY <1>2, <1>3

\* After power-on no call is under way, and the partition has a legal size.
LEMMA WholeInit == Init => Whole
<1> SUFFICES ASSUME Init PROVE Whole
  OBVIOUS
<1> USE PageAssumption, UseAssumption
<1>2. pages \in {0, 1} \/ (pages \in Asked /\ pages \in {2, 4, 8})
  BY PagesAre
<1>3. Sized
  <2>1. CASE pages \in {0, 1}
    BY <2>1 DEF Sized, PhysicalSize
  <2>2. CASE pages \in Asked /\ pages \in {2, 4, 8}
    <3>1. pages * PAGE <= U16
      BY <2>2
    <3> QED
      BY <2>2, <3>1 DEF Sized, PhysicalSize
  <2> QED
    BY <1>2, <2>1, <2>2
<1>4. TypeOK
  <2>1. cells \in [0 .. PhysicalSize - 1 -> Nat]
    BY DEF Init
  <2>2. <<>> \in Seq(Nat)
    OBVIOUS
  <2>3. todo \in [op : Ops, at : 0 .. U16 - 1, real : BOOLEAN, data : Seq(Nat)]
    BY <2>2 DEF Init, Ops
  <2>4. busy \in BOOLEAN /\ eerie \in BOOLEAN /\ flags \in BOOLEAN
    BY DEF Init
  <2>5. eear \in Nat /\ eedr \in Nat /\ from \in 0 .. U16 - 1 /\ calls \in 0 .. MaxCalls /\ got \in Seq(Nat)
    BY <2>2 DEF Init
  <2> QED
    BY <1>2, <2>1, <2>3, <2>4, <2>5 DEF Init, TypeOK
<1>5. Rest /\ Aligned
  BY DEF Init, Rest, Aligned, InCall
<1> QED
  BY <1>3, <1>4, <1>5, ReserveInit DEF Whole

\* A call that is accepted begins within its range.
LEMMA CallKeepsWhole == ASSUME Whole, Call PROVE TypeOK' /\ Rest' /\ Sized' /\ Aligned'
<1> USE PageAssumption, UseAssumption DEF Whole
<1>1. ASSUME NEW a \in 0 .. U16 - 1, NEW op \in Ops, NEW real \in BOOLEAN, NEW data \in Seq(Nat),
             Idle, Enter(op, a, real, data), calls' = calls + 1, from' \in 0 .. U16 - 1, got' \in Seq(Nat),
             UNCHANGED <<pages, cells, controller, eerie, flags>>,
             data # <<>> /\ op = "write" => Fits(a, Len(data), real),
             data # <<>> /\ op = "readword" =>
                ~real /\ a % WORD = 0 /\ a + Len(data) * WORD <= LogicalSize
      PROVE  TypeOK' /\ Rest' /\ Sized' /\ Aligned'
  <2>1. /\ todo' = [op |-> op, at |-> a, real |-> real, data |-> data]
        /\ pc' = IF data = <<>> THEN "idle" ELSE "byte"
    BY <1>1 DEF Enter
  <2>2. Queue'
    BY <1>1, <2>1 DEF Queue
  <2>3. PhysicalSize' = PhysicalSize /\ LogicalSize' = LogicalSize
    BY <1>1 DEF PhysicalSize, LogicalSize
  <2>4. calls' \in 0 .. MaxCalls
    BY <1>1 DEF TypeOK, Idle
  <2>5. TypeOK'
    BY <1>1, <2>1, <2>2, <2>3, <2>4 DEF TypeOK, Queue, controller
  <2>6. Rest'
    <3>1. CASE data = <<>>
      BY <2>1, <3>1 DEF Rest, InCall
    <3>2. CASE data # <<>> /\ op = "write"
      BY <1>1, <2>1, <2>3, <3>2 DEF Rest, Fits
    <3>3. CASE data # <<>> /\ op = "readword"
      BY <1>1, <2>1, <2>3, <3>3 DEF Rest
    <3>4. CASE op \notin {"write", "readword"}
      BY <2>1, <3>4 DEF Rest
    <3> QED
      BY <3>1, <3>2, <3>3, <3>4
  <2>7. Sized' /\ Aligned'
    BY <2>1, <2>3 DEF Sized, Aligned
  <2> QED
    BY <2>5, <2>6, <2>7
<1>2. calls \in Nat /\ pages \in {0, 1, 2, 4, 8} /\ got \in Seq(Nat) /\ from \in 0 .. U16 - 1
  BY DEF TypeOK
<1>3. LogicalSize \in Nat /\ PhysicalSize \in Nat
  BY <1>2, SizesAre
<1>4. ASSUME NEW a \in Addresses, NEW n \in Addresses, NEW real \in BOOLEAN, Write(a, n, real)
      PROVE  TypeOK' /\ Rest' /\ Sized' /\ Aligned'
  <2>1. a \in 0 .. U16 - 1 /\ a \in Nat /\ n \in Nat
    BY DEF Addresses
  <2>2. Stamp(n) \in Seq(Nat) /\ Len(Stamp(n)) = n
    BY <1>2, <2>1, StampType
  <2>3. n > 0 => Fits(a, n, real)
    <3>1. CASE real
      BY <1>3, <1>4, <2>1, <3>1 DEF Write, Range, Accessible, Fits
    <3>2. CASE ~real
      BY <1>3, <1>4, <2>1, <3>2 DEF Write, Range, Accessible, Fits
    <3> QED
      BY <3>1, <3>2
  <2>4. Stamp(n) # <<>> => n > 0
    BY <2>1, <2>2
  <2>5. "write" \in Ops
    BY DEF Ops
  <2> QED
    BY <1>1, <1>2, <1>4, <2>1, <2>2, <2>3, <2>4, <2>5 DEF Write
<1>5. ASSUME NEW a \in Addresses, NEW words \in Addresses, WriteWords(a, words)
      PROVE  TypeOK' /\ Rest' /\ Sized' /\ Aligned'
  <2>1. a \in 0 .. U16 - 1 /\ a \in Nat /\ words * WORD \in Nat
    BY DEF Addresses
  <2>2. Stamp(words * WORD) \in Seq(Nat) /\ Len(Stamp(words * WORD)) = words * WORD
    BY <1>2, <2>1, StampType
  <2>3. Fits(a, words * WORD, FALSE)
    BY <1>3, <1>5, <2>1 DEF WriteWords, WordRange, Fits, Addresses
  <2>4. "write" \in Ops
    BY DEF Ops
  <2> QED
    BY <1>1, <1>2, <1>5, <2>1, <2>2, <2>3, <2>4 DEF WriteWords
<1>6. ASSUME NEW a \in Addresses, NEW words \in Addresses, ReadWords(a, words)
      PROVE  TypeOK' /\ Rest' /\ Sized' /\ Aligned'
  <2>1. a \in 0 .. U16 - 1 /\ words \in Nat /\ words * WORD \in Nat
    BY DEF Addresses
  <2> DEFINE data == [j \in 1 .. words |-> 0]
  <2>2. data \in Seq(Nat) /\ Len(data) = words
    BY <2>1
  <2>3. a % WORD = 0 /\ a + words * WORD <= LogicalSize
    BY <1>3, <1>6, <2>1 DEF ReadWords, WordRange, Addresses
  <2>4. "readword" \in Ops /\ <<>> \in Seq(Nat)
    BY DEF Ops
  <2>5. Enter("readword", a, FALSE, data) /\ Idle /\ calls' = calls + 1 /\ from' = a /\ got' = <<>>
        /\ UNCHANGED <<pages, cells, controller, eerie, flags>>
    BY <1>6 DEF ReadWords
  <2> HIDE DEF data
  <2> QED
    BY <1>1, <2>1, <2>2, <2>3, <2>4, <2>5
<1>7. ASSUME NEW a \in Addresses, NEW n \in 1 .. MaxPut, NEW keep \in SUBSET (1 .. n), Put(a, n, keep)
      PROVE  TypeOK' /\ Rest' /\ Sized' /\ Aligned'
  <2>1. a \in 0 .. U16 - 1 /\ a \in Nat /\ n \in Nat
    BY DEF Addresses
  <2>2. \A b \in Nat : Stored(b) \in Nat
    <3> TAKE b \in Nat
    <3>1. CASE Accessible(b, FALSE)
      <4>0. pages \in Nat
        BY <1>2
      <4>1. Cell(b, FALSE) \in 0 .. PhysicalSize - 1
        <5>1. \A r \in BOOLEAN : Accessible(b, r) => Cell(b, r) \in 0 .. PhysicalSize - 1
          BY <4>0, CellSafe
        <5> QED
          BY <3>1, <5>1
      <4>2. RealAddress(b) \in 0 .. PhysicalSize - 1
        BY <4>1 DEF Cell
      <4>3. cells[RealAddress(b)] \in Nat
        BY <4>2 DEF TypeOK
      <4> QED
        BY <3>1, <4>3 DEF Stored
    <3>2. CASE ~Accessible(b, FALSE)
      BY <3>2 DEF Stored
    <3> QED
      BY <3>1, <3>2
  <2>3. Stamp(n) \in Seq(Nat) /\ Len(Stamp(n)) = n
    BY <1>2, <2>1, StampType
  <2> DEFINE data == [j \in 1 .. n |-> IF j \in keep THEN Stored((a + j - 1) % U16) ELSE Stamp(n)[j]]
  <2>4. data \in Seq(Nat)
    <3>1. \A j \in 1 .. n : (a + j - 1) % U16 \in Nat
      BY <2>1
    <3>2. \A j \in 1 .. n : (IF j \in keep THEN Stored((a + j - 1) % U16) ELSE Stamp(n)[j]) \in Nat
      <4> TAKE j \in 1 .. n
      <4>1. Stored((a + j - 1) % U16) \in Nat
        BY <2>2, <3>1
      <4>2. Stamp(n)[j] \in Nat
        BY <2>1, <2>3
      <4> QED
        BY <4>1, <4>2
    <3> QED
      BY <2>1, <3>2
  <2>5. "update" \in Ops
    BY DEF Ops
  <2>6. Enter("update", a, FALSE, data) /\ Idle /\ calls' = calls + 1
        /\ UNCHANGED <<pages, cells, controller, eerie, flags, from, got>>
    BY <1>7 DEF Put
  <2> HIDE DEF data
  <2> QED
    BY <1>1, <1>2, <2>1, <2>4, <2>5, <2>6
<1>8. ASSUME NEW a \in Addresses, NEW n \in 1 .. MaxPut, NEW whole \in BOOLEAN, ReadBytes(a, n, whole)
      PROVE  TypeOK' /\ Rest' /\ Sized' /\ Aligned'
  <2>1. a \in 0 .. U16 - 1 /\ n \in Nat
    BY DEF Addresses
  <2> DEFINE data == [j \in 1 .. n |-> 0]
  <2>2. data \in Seq(Nat) /\ "read" \in Ops /\ <<>> \in Seq(Nat)
    BY <2>1 DEF Ops
  <2>3. Enter("read", a, FALSE, data) /\ Idle /\ calls' = calls + 1 /\ from' = a /\ got' = <<>>
        /\ UNCHANGED <<pages, cells, controller, eerie, flags>>
    BY <1>8 DEF ReadBytes
  <2> HIDE DEF data
  <2> QED
    BY <1>1, <2>1, <2>2, <2>3
<1> QED
  BY <1>4, <1>5, <1>6, <1>7, <1>8 DEF Call

\* The steps of a call, the controller, a handler and the power supply
LEMMA WholeStep == Whole /\ [Next]_vars => Whole'
<1> SUFFICES ASSUME Whole, [Next]_vars PROVE TypeOK' /\ Rest' /\ Sized' /\ Aligned'
  BY ReserveStep DEF Whole
<1> USE PageAssumption DEF Whole
<1>1. /\ pages \in {0, 1, 2, 4, 8} /\ cells \in [0 .. PhysicalSize - 1 -> Nat]
      /\ eear \in Nat /\ eedr \in Nat /\ busy \in BOOLEAN /\ eerie \in BOOLEAN
      /\ pc \in {"idle", "byte", "flags", "command", "wait", "off"} /\ Queue
      /\ (InCall => todo.data # <<>>)
      /\ flags \in BOOLEAN /\ from \in 0 .. U16 - 1 /\ got \in Seq(Nat) /\ calls \in 0 .. MaxCalls
  BY DEF TypeOK, Queue, InCall
<1>2. /\ todo.op \in Ops /\ todo.at \in 0 .. U16 - 1 /\ todo.real \in BOOLEAN /\ todo.data \in Seq(Nat)
      /\ todo.at \in Nat
  BY <1>1 DEF Queue
\* a step that ends the byte
<1>3. ASSUME InCall, NextByte, UNCHANGED <<pages, cells, eear, eedr, busy, from, calls>>,
             flags' \in BOOLEAN, eerie' \in BOOLEAN, got' \in Seq(Nat)
      PROVE  TypeOK' /\ Rest' /\ Sized' /\ Aligned'
  <2>1. Queue' /\ pc' \in {"idle", "byte"} /\ (pc' = "byte" => todo'.data # <<>>) /\ Rest'
    BY <1>3, NextByteKeeps
  <2>2. PhysicalSize' = PhysicalSize
    BY <1>3 DEF PhysicalSize
  <2>3. TypeOK'
    BY <1>1, <1>3, <2>1, <2>2 DEF TypeOK, Queue
  <2> QED
    BY <1>3, <2>1, <2>2, <2>3 DEF Sized, Aligned
\* a step that leaves what is left of the call
<1>4. ASSUME UNCHANGED <<pages, todo, from, got, calls>>, cells' \in [0 .. PhysicalSize - 1 -> Nat],
             eear' \in Nat, eedr' \in Nat, busy' \in BOOLEAN, eerie' \in BOOLEAN, flags' \in BOOLEAN,
             InCall' => InCall, pc' \in {"idle", "byte", "flags", "command", "wait", "off"}
      PROVE  TypeOK' /\ Rest' /\ Sized'
  <2>1. PhysicalSize' = PhysicalSize /\ LogicalSize' = LogicalSize
    BY <1>4 DEF PhysicalSize, LogicalSize
  <2>2. TypeOK'
    BY <1>1, <1>4, <2>1 DEF TypeOK, Queue, InCall
  <2>3. Rest'
    BY <1>4, <2>1 DEF Rest, Fits
  <2> QED
    BY <2>1, <2>2, <2>3 DEF Sized
<1>5. Written \in [0 .. PhysicalSize - 1 -> Nat]
  BY <1>1 DEF Written
<1>6. CASE Call
  BY <1>6, CallKeepsWhole
<1>7. CASE SkipByte
  <2>1. got' \in Seq(Nat)
    BY <1>1, <1>7 DEF SkipByte
  <2> QED
    BY <1>1, <1>3, <1>7, <2>1 DEF SkipByte, InCall, controller
<1>8. CASE LoadByte
  <2>1. Accessible(todo.at, todo.real) /\ pc = "byte" /\ pc' = "flags"
        /\ eear' = Cell(todo.at, todo.real) /\ UNCHANGED <<pages, cells, busy, eerie, todo, flags, from, got, calls>>
        /\ eedr' = IF Programs THEN Head(todo.data) ELSE eedr
    BY <1>8 DEF LoadByte
  <2>2. eear' \in Nat
    <3>1. eear' \in 0 .. PhysicalSize - 1
      BY <1>1, <1>2, <2>1, CellSafe
    <3> QED
      BY <3>1
  <2>3. eedr' \in Nat
    BY <1>1, <1>2, <2>1 DEF InCall
  <2>4. TypeOK' /\ Rest' /\ Sized'
    BY <1>1, <1>4, <2>1, <2>2, <2>3 DEF InCall
  <2>5. Aligned'
    <3> SUFFICES ASSUME todo.op = "readword" PROVE eear' % WORD = 0
      BY <2>1 DEF Aligned
    <3>1. ~todo.real /\ todo.at % WORD = 0
      BY <2>1 DEF Rest, InCall
    <3> QED
      BY <1>2, <2>1, <3>1, RealWord DEF Cell
  <2> QED
    BY <2>4, <2>5
<1>9. CASE ReadFlags
  <2>1. UNCHANGED <<pages, cells, eear, eedr, busy, eerie, todo, from, got, calls>>
        /\ flags' = eerie /\ pc = "flags" /\ pc' = "command"
    BY <1>9 DEF ReadFlags, controller
  <2> QED
    BY <1>1, <1>4, <2>1 DEF InCall, Aligned
<1>10. CASE Program
  <2>1. UNCHANGED <<pages, cells, eear, eedr, todo, flags, from, got, calls>>
        /\ busy' = TRUE /\ eerie' = flags /\ pc = "command" /\ pc' = "wait"
    BY <1>10 DEF Program
  <2> QED
    BY <1>1, <1>4, <2>1 DEF InCall, Aligned
<1>11. CASE Wait
  BY <1>1, <1>3, <1>11 DEF Wait, InCall, controller
<1>12. CASE Fetch
  <2>1. /\ pc = "command" /\ eerie' = flags /\ NextByte
        /\ got' = got \o [j \in 1 .. Width |-> cells[eear + j - 1]]
        /\ UNCHANGED <<pages, cells, eear, eedr, busy, flags, from, calls>>
    BY <1>12 DEF Fetch, controller
  <2>2. eear \in 0 .. PhysicalSize - 1 /\ PhysicalSize \in Nat
    BY <1>1, <2>1, SizesAre DEF Reserve, Aimed
  <2>3. Width \in Nat /\ eear + Width <= PhysicalSize
    <3>1. CASE todo.op = "readword"
      BY <1>1, <2>1, <2>2, <3>1, WordFits DEF Width, Aligned
    <3>2. CASE todo.op # "readword"
      BY <2>2, <3>2 DEF Width
    <3> QED
      BY <3>1, <3>2
  <2>4. \A j \in 1 .. Width : cells[eear + j - 1] \in Nat
    <3> TAKE j \in 1 .. Width
    <3>1. eear + j - 1 \in 0 .. PhysicalSize - 1
      BY <2>2, <2>3
    <3> QED
      BY <1>1, <3>1
  <2> DEFINE fetched == [j \in 1 .. Width |-> cells[eear + j - 1]]
  <2>5. fetched \in Seq(Nat)
    BY <2>3, <2>4
  <2>6. got' \in Seq(Nat)
    <3>1. got' = got \o fetched /\ got \in Seq(Nat)
      BY <1>1, <2>1
    <3> HIDE DEF fetched
    <3> QED
      BY <2>5, <3>1
  <2> QED
    BY <1>1, <1>3, <2>1, <2>6 DEF InCall
<1>13. CASE Compare
  <2>1. /\ pc = "command" /\ todo.op = "update" /\ eerie' = flags
        /\ UNCHANGED <<pages, cells, eear, eedr, busy, flags, from, got, calls>>
    BY <1>13 DEF Compare, controller
  <2>2. CASE cells[eear] = Head(todo.data)
    BY <1>1, <1>3, <1>13, <2>1, <2>2 DEF Compare, InCall
  <2>3. CASE cells[eear] # Head(todo.data)
    <3>1. pc' = "byte" /\ todo' = [todo EXCEPT !.op = "replace"]
      BY <1>13, <2>3 DEF Compare
    <3>2. Queue' /\ todo'.op = "replace" /\ todo'.data = todo.data
      BY <1>1, <3>1 DEF Queue, Ops
    <3>3. PhysicalSize' = PhysicalSize
      BY <2>1 DEF PhysicalSize
    <3>4. TypeOK'
      BY <1>1, <2>1, <3>1, <3>2, <3>3 DEF TypeOK, Queue, InCall
    <3> QED
      BY <3>1, <3>2, <3>3, <3>4 DEF Rest, Sized, Aligned
  <2> QED
    BY <2>2, <2>3
<1>14. CASE Swap
  <2>1. UNCHANGED <<pages, eear, eedr, eerie, pc, todo, flags, from, got, calls>> /\ busy' = FALSE /\ cells' = Written
    BY <1>14 DEF Swap
  <2> QED
    BY <1>1, <1>4, <1>5, <2>1 DEF InCall, Aligned
<1>15. CASE Handler
  <2>1. UNCHANGED <<pages, cells, eear, eedr, busy, pc, todo, flags, from, got, calls>> /\ eerie' = ~eerie
    BY <1>15 DEF Handler, controller
  <2>2. eerie' \in BOOLEAN
    BY <2>1
  <2> QED
    BY <1>1, <1>4, <2>1, <2>2 DEF InCall, Aligned
<1>16. CASE LosePower
  <2>1. /\ UNCHANGED <<pages, eear, eedr, todo, flags, calls>> /\ busy' = FALSE /\ eerie' = FALSE /\ pc' = "off"
        /\ from' = 0 /\ got' = <<>> /\ cells' \in {cells, Written}
    BY <1>16 DEF LosePower
  <2>2. PhysicalSize' = PhysicalSize /\ <<>> \in Seq(Nat) /\ 0 \in 0 .. U16 - 1
    BY <2>1 DEF PhysicalSize
  <2>3. cells' \in [0 .. PhysicalSize - 1 -> Nat]
    BY <1>1, <1>5, <2>1
  <2>4. TypeOK'
    BY <1>1, <2>1, <2>2, <2>3 DEF TypeOK, Queue
  <2> QED
    BY <2>1, <2>2, <2>4 DEF Rest, InCall, Sized, Aligned
<1>17. CASE Restart
  <2>1. UNCHANGED <<pages, cells, eear, eedr, busy, eerie, todo, flags, from, got, calls>> /\ pc' = "idle"
    BY <1>17 DEF Restart, controller
  <2> QED
    BY <1>1, <1>4, <2>1 DEF InCall, Aligned
<1>18. CASE UNCHANGED vars
  <2>1. UNCHANGED <<pages, cells, eear, eedr, busy, eerie, pc, todo, flags, from, got, calls>>
    BY <1>18 DEF vars, controller
  <2> QED
    BY <1>1, <1>4, <2>1 DEF InCall, Aligned
<1> QED
  BY <1>6, <1>7, <1>8, <1>9, <1>10, <1>11, <1>12, <1>13, <1>14, <1>15, <1>16, <1>17, <1>18 DEF Next, Step

\* A byte within the range of its call is accessible.
LEMMA WholeIsNotDropped == Whole => NothingDropped
<1> SUFFICES ASSUME Whole, pc = "byte", todo.op \in {"write", "readword"}
             PROVE  Accessible(todo.at, todo.real)
  BY DEF NothingDropped
<1> USE PageAssumption DEF Whole
<1>1. /\ todo.at \in Nat /\ todo.real \in BOOLEAN /\ todo.data \in Seq(Nat) /\ todo.data # <<>>
      /\ pages \in {0, 1, 2, 4, 8}
  BY DEF TypeOK
<1>2. Len(todo.data) \in Nat /\ Len(todo.data) > 0
  BY <1>1
<1>3. LogicalSize \in Nat /\ PhysicalSize \in Nat /\ todo.at % PAGE \in Nat
  BY <1>1, SizesAre
<1>4. CASE todo.op = "write"
  <2>1. Fits(todo.at, Len(todo.data), todo.real)
    BY <1>4 DEF Rest, InCall
  <2> QED
    BY <1>1, <1>2, <1>3, <2>1 DEF Fits, Accessible
<1>5. CASE todo.op = "readword"
  <2>1. ~todo.real /\ todo.at + Len(todo.data) * WORD <= LogicalSize
    BY <1>5 DEF Rest, InCall
  <2>2. Len(todo.data) * WORD \in Nat /\ Len(todo.data) * WORD > 0
    BY <1>2
  <2> QED
    BY <1>1, <1>3, <2>1, <2>2, SMTT(30) DEF Accessible
<1> QED
  BY <1>4, <1>5

\* Every variable has its type, and no byte of a block, word or SWM write that
\* was accepted, and no word of a native read, is refused half-way, for every
\* page size, partition, address and length, and wherever the power fails.
THEOREM BlocksAreWhole == Spec => [](TypeOK /\ NothingDropped)
<1>1. Init => Whole
  BY WholeInit
<1>2. Whole /\ [Next]_vars => Whole'
  BY WholeStep
<1>3. Whole => TypeOK /\ NothingDropped
  BY WholeIsNotDropped DEF Whole
<1> QED
  BY <1>1, <1>2, <1>3, PTL DEF Spec

\* Every variable has its type, and a call under way has a byte left to do.
THEOREM TypesAlwaysOK == Spec => []TypeOK
<1>1. Init => Whole
  BY WholeInit
<1>2. Whole /\ [Next]_vars => Whole'
  BY WholeStep
<1>3. Whole => TypeOK
  BY DEF Whole
<1> QED
  BY <1>1, <1>2, <1>3, PTL DEF Spec

-----------------------------------------------------------------------------
(* The library is a memory that outlives the loss of power.                *)

\* Adding to a remainder
LEMMA AddMod ==
    ASSUME NEW p \in Nat, p > 0, NEW x \in Nat, NEW w \in Nat
    PROVE  ((x % p) + w) % p = (x + w) % p
<1> DEFINE q == x \div p  r == x % p  s == (r + w) \div p  t == (r + w) % p
<1>1. q \in Nat /\ r \in 0 .. p - 1 /\ x = p * q + r
  BY DivMod
<1>2. s \in Nat /\ t \in 0 .. p - 1 /\ r + w = p * s + t
  <2>1. r + w \in Nat
    BY <1>1
  <2> HIDE DEF r
  <2> QED
    BY <2>1, DivMod
<1> HIDE DEF q, r, s, t
<1>3. p * q \in Nat /\ p * s \in Nat /\ p * (q + s) = p * q + p * s /\ q + s \in Nat
  BY <1>1, <1>2
<1>4. PICK u \in Nat : u = q + s
  BY <1>3
<1>5. PICK y \in Nat : y = x + w /\ y = p * u + t
  BY <1>1, <1>2, <1>3, <1>4
<1>6. y % p = t
  <2>1. t \in 0 .. p - 1 /\ y = p * u + t
    BY <1>2, <1>5
  <2>2. y \div p = u /\ y % p = t
    BY <2>1, DivModOf
  <2> QED
    BY <2>2
<1>7. (x + w) % p = t
  BY <1>5, <1>6
<1> QED
  BY <1>7 DEF t, r

\* The next address wraps.
LEMMA NextIs ==
    ASSUME NEW a \in 0 .. U16 - 1
    PROVE  (a + 1) % U16 = IF a + 1 < U16 THEN a + 1 ELSE 0
<1>1. U16 \in Nat /\ U16 > 0
  BY PageAssumption
<1>2. CASE a + 1 < U16
  <2>1. a + 1 \in 0 .. U16 - 1 /\ a + 1 = U16 * 0 + (a + 1)
    BY <1>1, <1>2
  <2> QED
    BY <1>1, <1>2, <2>1, DivModOf
<1>3. CASE ~(a + 1 < U16)
  <2>1. a + 1 = U16 * 1 + 0 /\ 0 \in 0 .. U16 - 1 /\ a + 1 \in Nat
    BY <1>1, <1>3
  <2> QED
    BY <1>1, <1>3, <2>1, DivModOf
<1> QED
  BY <1>2, <1>3

\* A logical address and the cell of a user byte belong together.
LEMMA LogicalIs ==
    ASSUME pages \in {0, 1, 2, 4, 8}, NEW a \in Nat, NEW real \in BOOLEAN, Accessible(a, real)
    PROVE  /\ Logical(a, real) \in 0 .. LogicalSize - 1
           /\ RealAddress(Logical(a, real)) = Cell(a, real)
<1> USE Constants
<1>1. CASE ~real
  BY <1>1 DEF Accessible, Logical, Cell, LogicalSize
<1>2. CASE real
  <2> DEFINE q == a \div PAGE  r == a % PAGE
  <2>1. q \in Nat /\ r \in 0 .. PAGE - 1 /\ a = PAGE * q + r
    BY DivMod
  <2>2. a < PAGE * pages /\ r < FREE /\ pages \in Nat /\ Cell(a, real) = a
    BY <1>2 DEF Accessible, PhysicalSize, Cell
  <2>3. Logical(a, real) = FREE * q + r
    <3>1. q * FREE = FREE * q
      BY <2>1
    <3> QED
      BY <1>2, <3>1 DEF Logical
  <2> HIDE DEF q, r
  <2>4. q < pages
    <3> SUFFICES ASSUME ~(q < pages) PROVE FALSE
      OBVIOUS
    <3>1. PAGE * pages <= PAGE * q /\ PAGE * q \in Nat
      <4>1. CASE q = pages
        BY <2>2, <4>1
      <4>2. CASE pages < q
        <5>1. PAGE * pages + PAGE <= PAGE * q
          BY <2>1, <2>2, <4>2, TimesMono
        <5> QED
          BY <2>1, <2>2, <5>1
      <4> QED
        BY <2>1, <2>2, <4>1, <4>2
    <3> QED
      BY <2>1, <2>2, <3>1
  <2>5. FREE * q + FREE <= FREE * pages /\ FREE * q \in Nat
    BY <2>1, <2>2, <2>4, TimesMono
  <2>6. FREE * q + r \in 0 .. FREE * pages - 1
    BY <2>1, <2>2, <2>5
  <2>7. PICK x \in Nat : x = FREE * q + r
    BY <2>6
  <2>8. r \in 0 .. FREE - 1
    BY <2>1, <2>2
  <2>9. x \div FREE = q /\ x % FREE = r
    BY <2>1, <2>7, <2>8, DivModOf
  <2>10. RealAddress(x) = PAGE * q + r
    BY <2>9, RealSplit
  <2> QED
    BY <2>1, <2>2, <2>3, <2>6, <2>7, <2>10 DEF LogicalSize
<1> QED
  BY <1>1, <1>2

\* A native access finds its bytes side by side.
LEMMA RealNext ==
    ASSUME NEW a \in Nat, a % WORD = 0, NEW k \in 0 .. WORD - 1
    PROVE  RealAddress(a + k) = RealAddress(a) + k
<1>1. WORD \in Nat /\ WORD > 0 /\ FREE \in Nat /\ FREE > 0 /\ PAGE \in Nat
  BY PageAssumption
<1> DEFINE q == a \div FREE  r == a % FREE
<1>2. q \in Nat /\ r \in 0 .. FREE - 1 /\ a = FREE * q + r /\ RealAddress(a) = PAGE * q + r
  BY RealSplit
<1> HIDE DEF q, r
<1>3. PICK f \in Nat, c \in Nat : FREE = WORD * f /\ a = WORD * c
  <2>1. PICK f \in Nat : FREE = WORD * f
    BY <1>1, WordAssumption, WordMod
  <2>2. PICK c \in Nat : a = WORD * c
    BY <1>1, WordMod
  <2> QED
    BY <2>1, <2>2
<1>4. PICK m \in Nat : m = f * q
  BY <1>2, <1>3
<1>5. WORD * c = WORD * m + r /\ WORD * m \in Nat /\ WORD * c \in Nat /\ WORD * f \in Nat
  <2>1. (WORD * f) * q = WORD * (f * q)
    BY <1>1, <1>2, <1>3
  <2> QED
    BY <1>1, <1>2, <1>3, <1>4, <2>1
<1>6. r + WORD <= FREE
  <2>1. WORD * m + WORD * f = WORD * (m + f) /\ m + f \in Nat
    BY <1>1, <1>3, <1>4
  <2>2. c < m + f
    <3> SUFFICES ASSUME ~(c < m + f) PROVE FALSE
      OBVIOUS
    <3>1. CASE c = m + f
      BY <1>2, <1>3, <1>5, <2>1, <3>1
    <3>2. CASE m + f < c
      <4>1. WORD * (m + f) + WORD <= WORD * c
        BY <1>1, <1>3, <2>1, <3>2, TimesMono
      <4> QED
        BY <1>1, <1>2, <1>3, <1>5, <2>1, <4>1
    <3> QED
      BY <1>3, <2>1, <3>1, <3>2
  <2>3. WORD * c + WORD <= WORD * (m + f)
    BY <1>1, <1>3, <2>1, <2>2, TimesMono
  <2> QED
    BY <1>1, <1>2, <1>3, <1>5, <2>1, <2>3
<1>7. r + k \in 0 .. FREE - 1 /\ a + k \in Nat /\ a + k = FREE * q + (r + k)
  <2>1. FREE * q \in Nat
    BY <1>1, <1>2
  <2> QED
    BY <1>1, <1>2, <1>6, <2>1
<1>8. PICK x \in Nat : x = a + k
  BY <1>7
<1>9. x \div FREE = q /\ x % FREE = r + k
  BY <1>1, <1>2, <1>7, <1>8, DivModOf
<1>10. RealAddress(x) = PAGE * q + (r + k)
  BY <1>9, RealSplit
<1> QED
  <2>1. PAGE * q \in Nat
    BY <1>1, <1>2
  <2> QED
    BY <1>2, <1>8, <1>10, <2>1

\* Sequences are equal if they have the same elements.
LEMMA SameElements ==
    ASSUME NEW S, NEW s \in Seq(S), NEW t \in Seq(S),
           Len(s) = Len(t), \A i \in 1 .. Len(s) : s[i] = t[i]
    PROVE  s = t
OBVIOUS

LEMMA NoElements == ASSUME NEW s \in Seq(Nat), Len(s) = 0 PROVE s = <<>>
OBVIOUS

\* c bytes of d, from the one after the first n, for address f and the next ones
Span(f, n, c, d) == [j \in 1 .. c |-> [at |-> f + j - 1, value |-> d[n + j]]]

LEMMA BytesIs ==
    ASSUME NEW a, NEW real, NEW d,
           NEW n, n = IF Accessible(a, real) THEN 0 ELSE U16 - a,
           NEW f, f = IF Accessible(a, real) THEN Logical(a, real) ELSE 0,
           NEW c, c = IF Len(d) - n < LogicalSize - f THEN Len(d) - n ELSE LogicalSize - f
    PROVE  Bytes(a, d, real) = Span(f, n, c, d)
BY DEF Bytes, Span

LEMMA NoSpan == ASSUME NEW f, NEW n, NEW c \in Int, c <= 0, NEW d PROVE Span(f, n, c, d) = <<>>
<1>1. 1 .. c = {}
  OBVIOUS
<1> QED
  BY <1>1 DEF Span

Puts == [at : Nat, value : Nat]

LEMMA SpanIs ==
    ASSUME NEW f \in Nat, NEW n \in Nat, NEW c \in Nat, NEW d \in Seq(Nat), n + c <= Len(d)
    PROVE  /\ Span(f, n, c, d) \in Seq(Puts) /\ Len(Span(f, n, c, d)) = c
           /\ \A j \in 1 .. c : Span(f, n, c, d)[j] = [at |-> f + j - 1, value |-> d[n + j]]
<1>1. \A j \in 1 .. c : [at |-> f + j - 1, value |-> d[n + j]] \in Puts
  <2> TAKE j \in 1 .. c
  <2>1. f + j - 1 \in Nat /\ n + j \in 1 .. Len(d)
    OBVIOUS
  <2>2. d[n + j] \in Nat
    BY <2>1
  <2> QED
    BY <2>1, <2>2 DEF Puts
<1> DEFINE e(j) == [at |-> f + j - 1, value |-> d[n + j]]
           s == [j \in 1 .. c |-> e(j)]
<1>2. \A j \in 1 .. c : e(j) \in Puts
  BY <1>1
<1> HIDE DEF e
<1>3. s \in Seq(Puts) /\ Len(s) = c /\ \A j \in 1 .. c : s[j] = e(j)
  BY <1>2
<1>4. Span(f, n, c, d) = s
  BY DEF Span, e
<1> HIDE DEF s
<1> QED
  BY <1>3, <1>4 DEF e

\* With none of d before them
LEMMA SpanHere ==
    ASSUME NEW f \in Nat, NEW c \in Nat, NEW d \in Seq(Nat), c <= Len(d)
    PROVE  /\ Span(f, 0, c, d) \in Seq(Puts) /\ Len(Span(f, 0, c, d)) = c
           /\ \A j \in 1 .. c : Span(f, 0, c, d)[j] = [at |-> f + j - 1, value |-> d[j]]
<1> DEFINE s == Span(f, 0, c, d)
<1>1. 0 + c <= Len(d) /\ 0 \in Nat
  OBVIOUS
<1>2. /\ s \in Seq(Puts) /\ Len(s) = c
      /\ \A j \in 1 .. c : s[j] = [at |-> f + j - 1, value |-> d[0 + j]]
  BY <1>1, SpanIs
<1>3. \A j \in 1 .. c : 0 + j = j
  OBVIOUS
<1> HIDE DEF s
<1>4. \A j \in 1 .. c : s[j] = [at |-> f + j - 1, value |-> d[j]]
  BY <1>2, <1>3
<1> QED
  BY <1>2, <1>4 DEF s

\* The first of them, and the others
LEMMA SpanTail ==
    ASSUME NEW f \in Nat, NEW c \in Nat, c > 0, NEW d \in Seq(Nat), c <= Len(d)
    PROVE  /\ Span(f, 0, c, d) # <<>>
           /\ Head(Span(f, 0, c, d)) = [at |-> f, value |-> Head(d)]
           /\ Tail(Span(f, 0, c, d)) = Span(f + 1, 0, c - 1, Tail(d))
<1> DEFINE s == Span(f, 0, c, d)  t == Span(f + 1, 0, c - 1, Tail(d))
<1>1. /\ s \in Seq(Puts) /\ Len(s) = c
      /\ \A j \in 1 .. c : s[j] = [at |-> f + j - 1, value |-> d[j]]
  BY SpanHere
<1>2. Tail(d) \in Seq(Nat) /\ Len(Tail(d)) = Len(d) - 1 /\ \A j \in 1 .. Len(d) - 1 : Tail(d)[j] = d[j + 1]
  OBVIOUS
<1>3. /\ t \in Seq(Puts) /\ Len(t) = c - 1
      /\ \A j \in 1 .. c - 1 : t[j] = [at |-> f + 1 + j - 1, value |-> Tail(d)[j]]
  <2>1. f + 1 \in Nat /\ c - 1 \in Nat /\ c - 1 <= Len(Tail(d))
    BY <1>2
  <2> QED
    BY <1>2, <2>1, SpanHere
<1> HIDE DEF s, t
<1>4. s # <<>> /\ Head(s) = s[1] /\ Head(d) = d[1] /\ s[1] = [at |-> f, value |-> d[1]]
  <2>1. 1 \in 1 .. c /\ f + 1 - 1 = f
    OBVIOUS
  <2>2. s[1] = [at |-> f, value |-> d[1]]
    BY <1>1, <2>1
  <2> QED
    BY <1>1, <2>2
<1>5. Tail(s) = t
  <2>1. Tail(s) \in Seq(Puts) /\ Len(Tail(s)) = c - 1 /\ \A j \in 1 .. c - 1 : Tail(s)[j] = s[j + 1]
    BY <1>1, <1>4
  <2>2. \A j \in 1 .. c - 1 : Tail(s)[j] = t[j]
    <3> TAKE j \in 1 .. c - 1
    <3>1. j + 1 \in 1 .. c /\ f + (j + 1) - 1 = f + 1 + j - 1 /\ j \in 1 .. Len(d) - 1
      OBVIOUS
    <3>2. s[j + 1] = [at |-> f + (j + 1) - 1, value |-> d[j + 1]]
      BY <1>1, <3>1
    <3>3. t[j] = [at |-> f + 1 + j - 1, value |-> Tail(d)[j]]
      BY <1>3, <3>1
    <3>4. Tail(d)[j] = d[j + 1]
      BY <1>2, <3>1
    <3>5. Tail(s)[j] = s[j + 1]
      BY <2>1
    <3> QED
      BY <3>1, <3>2, <3>3, <3>4, <3>5
  <2> QED
    BY <1>3, <2>1, <2>2, SameElements
<1> QED
  BY <1>4, <1>5 DEF s, t

\* Dropping one of the bytes before them
LEMMA SpanDrops ==
    ASSUME NEW f \in Nat, NEW n \in Nat, n > 0, NEW c \in Int, NEW d \in Seq(Nat), n + c <= Len(d), d # <<>>
    PROVE  Span(f, n, c, d) = Span(f, n - 1, c, Tail(d))
<1>1. \A j \in 1 .. c : d[n + j] = Tail(d)[n - 1 + j]
  <2> TAKE j \in 1 .. c
  <2>1. n - 1 + j \in 1 .. Len(d) - 1 /\ n - 1 + j + 1 = n + j
    OBVIOUS
  <2>2. \A i \in 1 .. Len(d) - 1 : Tail(d)[i] = d[i + 1]
    OBVIOUS
  <2>3. Tail(d)[n - 1 + j] = d[n - 1 + j + 1]
    BY <2>1, <2>2
  <2> QED
    BY <2>1, <2>3
<1> QED
  BY <1>1 DEF Span

\* What an accepted call has to write is within its range, or is too short to come
\* round the addresses into the partition again.
Lies(a, d, real) == Fits(a, Len(d), real) \/ (~real /\ LogicalSize + Len(d) <= U16)

LEMMA NoBytes == ASSUME pages \in {0, 1, 2, 4, 8}, NEW a \in 0 .. U16 - 1, NEW real \in BOOLEAN
                 PROVE  Bytes(a, <<>>, real) = <<>>
<1> DEFINE n == IF Accessible(a, real) THEN 0 ELSE U16 - a
           f == IF Accessible(a, real) THEN Logical(a, real) ELSE 0
           c == IF 0 - n < LogicalSize - f THEN 0 - n ELSE LogicalSize - f
<1>1. n \in Nat /\ a \in Nat
  BY PageAssumption
<1>2. f \in Int /\ LogicalSize \in Int
  BY <1>1, LogicalIs, SizesAre
<1>3. Bytes(a, <<>>, real) = Span(f, n, c, <<>>)
  <2>1. Len(<<>>) = 0
    OBVIOUS
  <2> QED
    BY <2>1 DEF Bytes, Span
<1> HIDE DEF n, f
<1>4. c \in Int /\ c <= 0
  BY <1>1, <1>2
<1> HIDE DEF c
<1> QED
  BY <1>3, <1>4, NoSpan

\* A user byte is the first of the bytes, and the others are what is left after it.
LEMMA BytesTail ==
    ASSUME pages \in {0, 1, 2, 4, 8}, Sized, NEW a \in 0 .. U16 - 1, NEW real \in BOOLEAN,
           NEW d \in Seq(Nat), d # <<>>, Accessible(a, real), Lies(a, d, real)
    PROVE  /\ Bytes(a, d, real) # <<>>
           /\ Head(Bytes(a, d, real)) = [at |-> Logical(a, real), value |-> Head(d)]
           /\ Tail(Bytes(a, d, real)) = Bytes((a + 1) % U16, Tail(d), real)
<1> USE Constants
<1> DEFINE f == Logical(a, real)
           c == IF Len(d) < LogicalSize - f THEN Len(d) ELSE LogicalSize - f
           b == (a + 1) % U16
<1>1. /\ a \in Nat /\ f \in 0 .. LogicalSize - 1 /\ Len(d) \in Nat /\ Len(d) > 0
      /\ Tail(d) \in Seq(Nat) /\ Len(Tail(d)) = Len(d) - 1
      /\ LogicalSize \in Nat /\ PhysicalSize \in Nat /\ LogicalSize <= PhysicalSize /\ PhysicalSize <= U16
  BY LogicalIs, SizesAre DEF Sized
<1>2. b = IF a + 1 < U16 THEN a + 1 ELSE 0
  BY NextIs
<1>3. Bytes(a, d, real) = Span(f, 0, c, d)
  <2>1. Len(d) - 0 = Len(d)
    BY <1>1
  <2> QED
    BY <2>1 DEF Bytes, Span
<1> HIDE DEF f, b
<1>4. c \in Nat /\ c > 0 /\ c <= Len(d)
  BY <1>1
<1>5. /\ Span(f, 0, c, d) # <<>>
      /\ Head(Span(f, 0, c, d)) = [at |-> f, value |-> Head(d)]
      /\ Tail(Span(f, 0, c, d)) = Span(f + 1, 0, c - 1, Tail(d))
  <2> HIDE DEF c
  <2>1. f \in Nat
    BY <1>1
  <2> QED
    BY <1>4, <2>1, SpanTail
<1>6. b \in 0 .. U16 - 1
  BY <1>1, <1>2
<1>7. ASSUME b = a + 1, Accessible(b, real), Logical(b, real) = f + 1
      PROVE  Bytes(b, Tail(d), real) = Span(f + 1, 0, c - 1, Tail(d))
  <2> DEFINE e == IF Len(d) - 1 - 0 < LogicalSize - (f + 1) THEN Len(d) - 1 - 0 ELSE LogicalSize - (f + 1)
  <2>1. Bytes(b, Tail(d), real) = Span(f + 1, 0, e, Tail(d))
    BY <1>1, <1>7 DEF Bytes, Span
  <2>2. e = c - 1
    BY <1>1
  <2> QED
    BY <2>1, <2>2
<1>8. Span(f + 1, 0, c - 1, Tail(d)) = Bytes(b, Tail(d), real)
  <2>1. CASE Len(d) = 1
    <3>1. Tail(d) = <<>>
      <4>1. Tail(d) \in Seq(Nat) /\ Len(Tail(d)) = 0
        BY <1>1, <2>1
      <4> QED
        BY <4>1, NoElements, Zenon
    <3>2. c - 1 \in Int /\ c - 1 <= 0
      BY <1>4, <2>1
    <3> HIDE DEF c
    <3>3. Span(f + 1, 0, c - 1, Tail(d)) = <<>>
      BY <3>2, NoSpan
    <3> QED
      BY <1>6, <3>1, <3>3, NoBytes
  <2>2. CASE Len(d) > 1 /\ real
    <3>1. a % PAGE \in Nat /\ a < PAGE * pages /\ (a % PAGE) + Len(d) <= FREE /\ pages \in Nat
      BY <1>1, <2>2 DEF Lies, Fits, PhysicalSize
    <3>2. (a + 1) % PAGE = (a % PAGE) + 1 /\ a + 1 < PAGE * pages
      <4>1. (a % PAGE) + 1 < PAGE
        BY <1>1, <2>2, <3>1
      <4> QED
        BY <1>1, <3>1, <4>1, PageNext
    <3>3. b = a + 1
      BY <1>1, <1>2, <3>2 DEF PhysicalSize
    <3>4. Accessible(b, real)
      BY <1>1, <2>2, <3>1, <3>2, <3>3 DEF Accessible, PhysicalSize
    <3>5. (a + 1) \div PAGE = a \div PAGE
      <4> DEFINE q == a \div PAGE  r == a % PAGE
      <4>1. q \in Nat /\ a = PAGE * q + r
        BY <1>1, DivMod
      <4>2. r \in Nat /\ r + 1 \in 0 .. PAGE - 1
        BY <1>1, <2>2, <3>1
      <4> HIDE DEF q, r
      <4>3. PAGE * q \in Nat
        BY <4>1
      <4>4. PICK x \in Nat : x = a + 1 /\ x = PAGE * q + (r + 1)
        BY <1>1, <4>1, <4>2, <4>3
      <4>5. x \div PAGE = q
        BY <4>1, <4>2, <4>4, DivModOf
      <4> QED
        BY <4>4, <4>5 DEF q
    <3>6. Logical(b, real) = f + 1
      <4> DEFINE q == a \div PAGE  r == a % PAGE
      <4>1. q \in Nat /\ r \in Nat
        BY <1>1, DivMod
      <4>2. f = q * FREE + r
        BY <2>2 DEF f, Logical
      <4>3. Logical(b, real) = q * FREE + (r + 1)
        BY <2>2, <3>2, <3>3, <3>5 DEF Logical
      <4> HIDE DEF q, r
      <4>4. q * FREE \in Nat
        BY <4>1
      <4> QED
        BY <4>1, <4>2, <4>3, <4>4
    <3> QED
      BY <1>7, <3>3, <3>4, <3>6
  <2>3. CASE ~real
    <3>1. a < LogicalSize /\ f = a
      BY <2>3 DEF Accessible, Logical, f
    <3>2. LogicalSize < U16
      BY <1>1, <3>1 DEF Sized, LogicalSize, PhysicalSize
    <3>3. CASE a + 1 < LogicalSize
      BY <1>1, <1>2, <1>7, <2>3, <3>1, <3>2, <3>3 DEF Accessible, Logical
    <3>4. CASE a + 1 = LogicalSize
      <4>1. b = LogicalSize /\ ~Accessible(b, real) /\ c - 1 \in Int /\ c - 1 <= 0
        BY <1>1, <1>2, <2>3, <3>1, <3>2, <3>4 DEF Accessible
      <4> DEFINE n == U16 - b
                 e == IF Len(d) - 1 - n < LogicalSize - 0 THEN Len(d) - 1 - n ELSE LogicalSize - 0
      <4>2. Bytes(b, Tail(d), real) = Span(0, n, e, Tail(d))
        BY <1>1, <4>1 DEF Bytes, Span
      <4>3. Len(d) - 1 - n <= 0 /\ n \in Int
        BY <1>1, <2>3, <3>1, <3>2, <3>4, <4>1 DEF Lies, Fits
      <4> HIDE DEF n
      <4>4. e \in Int /\ e <= 0
        BY <1>1, <4>3
      <4> HIDE DEF e, c
      <4>5. Bytes(b, Tail(d), real) = <<>>
        BY <4>2, <4>4, NoSpan
      <4>6. Span(f + 1, 0, c - 1, Tail(d)) = <<>>
        BY <4>1, NoSpan
      <4> QED
        BY <4>5, <4>6
    <3> QED
      BY <1>1, <3>1, <3>3, <3>4
  <2> QED
    BY <1>1, <2>1, <2>2, <2>3
<1> HIDE DEF c
<1> QED
  BY <1>3, <1>5, <1>8 DEF f, b

\* A byte past the end is not among them.
LEMMA BytesSkip ==
    ASSUME pages \in {0, 1, 2, 4, 8}, Sized, NEW a \in 0 .. U16 - 1,
           NEW d \in Seq(Nat), d # <<>>, ~Accessible(a, FALSE)
    PROVE  Bytes(a, d, FALSE) = Bytes((a + 1) % U16, Tail(d), FALSE)
<1> USE Constants
<1> DEFINE n == U16 - a
           c == IF Len(d) - n < LogicalSize - 0 THEN Len(d) - n ELSE LogicalSize - 0
           b == (a + 1) % U16
<1>1. /\ a \in Nat /\ n \in Nat /\ n > 0 /\ a >= LogicalSize /\ Len(d) \in Nat
      /\ Tail(d) \in Seq(Nat) /\ Len(Tail(d)) = Len(d) - 1 /\ LogicalSize \in Nat
  BY SizesAre DEF Accessible
<1>2. b = IF a + 1 < U16 THEN a + 1 ELSE 0
  BY NextIs
<1>3. Bytes(a, d, FALSE) = Span(0, n, c, d)
  BY DEF Bytes, Span
<1> HIDE DEF b
<1>4. c \in Int /\ n + c <= Len(d)
  BY <1>1
<1>5. Span(0, n, c, d) = Span(0, n - 1, c, Tail(d))
  <2> HIDE DEF c, n
  <2>1. 0 \in Nat
    OBVIOUS
  <2> QED
    BY <1>1, <1>4, <2>1, SpanDrops
<1>6. Span(0, n - 1, c, Tail(d)) = Bytes(b, Tail(d), FALSE)
  <2>1. CASE a + 1 < U16
    <3>1. ~Accessible(b, FALSE) /\ U16 - b = n - 1
      BY <1>1, <1>2, <2>1 DEF Accessible
    <3> DEFINE e == IF Len(d) - 1 - (n - 1) < LogicalSize - 0 THEN Len(d) - 1 - (n - 1) ELSE LogicalSize - 0
    <3>2. Bytes(b, Tail(d), FALSE) = Span(0, n - 1, e, Tail(d))
      BY <1>1, <3>1 DEF Bytes, Span
    <3>3. e = c
      BY <1>1
    <3> QED
      BY <3>2, <3>3
  <2>2. CASE ~(a + 1 < U16) /\ LogicalSize > 0
    <3>1. Accessible(b, FALSE) /\ b = 0 /\ n - 1 = 0 /\ n = 1
      BY <1>1, <1>2, <2>2 DEF Accessible
    <3> DEFINE e == IF Len(d) - 1 - 0 < LogicalSize - 0 THEN Len(d) - 1 - 0 ELSE LogicalSize - 0
    <3>2. Bytes(b, Tail(d), FALSE) = Span(0, 0, e, Tail(d))
      BY <1>1, <3>1 DEF Bytes, Span, Logical
    <3>3. e = c
      BY <1>1, <3>1
    <3> QED
      BY <3>1, <3>2, <3>3
  <2>3. CASE ~(a + 1 < U16) /\ LogicalSize = 0
    <3>1. ~Accessible(b, FALSE) /\ b = 0
      BY <1>1, <1>2, <2>3 DEF Accessible
    <3> DEFINE m == U16 - b
               e == IF Len(d) - 1 - m < LogicalSize - 0 THEN Len(d) - 1 - m ELSE LogicalSize - 0
    <3>2. Bytes(b, Tail(d), FALSE) = Span(0, m, e, Tail(d))
      BY <1>1, <3>1 DEF Bytes, Span
    <3>3. c \in Int /\ c <= 0 /\ e \in Int /\ e <= 0
      BY <1>1, <2>3, <3>1
    <3> HIDE DEF c, e, m, n
    <3>4. Span(0, m, e, Tail(d)) = <<>> /\ Span(0, n - 1, c, Tail(d)) = <<>>
      BY <3>3, NoSpan
    <3> QED
      BY <3>2, <3>4
  <2>4. LogicalSize > 0 \/ LogicalSize = 0
    BY <1>1
  <2> HIDE DEF c, n
  <2> QED
    BY <2>1, <2>2, <2>3, <2>4
<1> HIDE DEF c, n
<1> QED
  BY <1>3, <1>5, <1>6 DEF b

\* They are for one address after the other, within the partition.
LEMMA BytesLie ==
    ASSUME pages \in {0, 1, 2, 4, 8}, NEW a \in 0 .. U16 - 1, NEW real \in BOOLEAN, NEW d \in Seq(Nat)
    PROVE  \A j \in DOMAIN Bytes(a, d, real) :
              /\ Bytes(a, d, real)[j].at \in 0 .. LogicalSize - 1
              /\ Bytes(a, d, real)[j].at = Bytes(a, d, real)[1].at + j - 1
<1> DEFINE n == IF Accessible(a, real) THEN 0 ELSE U16 - a
           f == IF Accessible(a, real) THEN Logical(a, real) ELSE 0
           c == IF Len(d) - n < LogicalSize - f THEN Len(d) - n ELSE LogicalSize - f
           s == Span(f, n, c, d)
<1>1. n \in Nat /\ a \in Nat
  BY PageAssumption
<1>2. f \in Nat /\ LogicalSize \in Int /\ Len(d) \in Int
  BY <1>1, LogicalIs, SizesAre
<1>3. Bytes(a, d, real) = s
  BY DEF Bytes, Span
<1> HIDE DEF n, f
<1>4. c \in Int /\ c <= LogicalSize - f
  BY <1>1, <1>2
<1> HIDE DEF c
<1>5. DOMAIN s = 1 .. c /\ \A j \in 1 .. c : s[j].at = f + j - 1
  BY DEF Span
<1> HIDE DEF s
<1>6. \A j \in 1 .. c : s[j].at \in 0 .. LogicalSize - 1 /\ s[j].at = s[1].at + j - 1
  <2> TAKE j \in 1 .. c
  <2>1. 1 \in 1 .. c /\ j \in Int /\ 1 <= j /\ j <= c
    BY <1>4
  <2>2. s[j].at = f + j - 1 /\ s[1].at = f + 1 - 1
    BY <1>5, <2>1
  <2> QED
    BY <1>2, <1>4, <2>1, <2>2
<1> QED
  BY <1>3, <1>5, <1>6

\* What is left of an update is short, and the library reads by logical address.
Kinds == /\ todo.op \in {"update", "replace"} => ~todo.real /\ Len(todo.data) <= MaxPut
         /\ todo.op \in {"read", "readword"} => ~todo.real

\* EEAR and EEDR are those of the byte under way, ...
Loaded == pc \in {"flags", "command", "wait"} =>
             /\ Accessible(todo.at, todo.real) /\ eear = Cell(todo.at, todo.real)
             /\ Programs => eedr = Head(todo.data)

\* ... the controller programs only while a call waits for it, ...
Swapping == (busy => pc = "wait") /\ (pc = "wait" => Programs)

\* ... and a read has answered what lies between its address and the one it is at.
Reading == InCall /\ todo.op \in {"read", "readword"} => (from + Len(got)) % U16 = todo.at

\* An object does not reach round the addresses from one end of the partition to the other.
Roomy == LogicalSize + MaxPut <= U16

MemInv == Whole /\ Kinds /\ Loaded /\ Swapping /\ Reading /\ Roomy

LEMMA MemInit == Init => MemInv
<1> SUFFICES ASSUME Init PROVE MemInv
  OBVIOUS
<1>1. Whole
  BY WholeInit
<1>2. Roomy
  <2> USE PageAssumption, UseAssumption
  <2>1. CASE pages \in {0, 1}
    <3>1. 1 * FREE + MaxPut <= U16
      BY PutAssumption
    <3> QED
      BY <2>1, <3>1 DEF Roomy, LogicalSize
  <2>2. CASE pages \in Asked /\ pages \in {2, 4, 8}
    <3>1. pages * FREE + MaxPut <= U16
      BY <2>2, PutAssumption
    <3> QED
      BY <2>2, <3>1 DEF Roomy, LogicalSize
  <2> QED
    BY <2>1, <2>2, PagesAre
<1>3. Kinds /\ Loaded /\ Swapping /\ Reading
  BY DEF Init, Kinds, Loaded, Swapping, Reading, InCall
<1> QED
  BY <1>1, <1>2, <1>3 DEF MemInv

\* Between two bytes of a call nothing is loaded; a read has come Width bytes further.
LEMMA NextByteMem ==
    ASSUME MemInv, InCall, NextByte, UNCHANGED <<pages, busy, from>>, ~busy,
           todo.op \in {"read", "readword"} => got' \in Seq(Nat) /\ Len(got') = Len(got) + Width
    PROVE  Kinds' /\ Loaded' /\ Swapping' /\ Reading' /\ Roomy'
<1>1. /\ todo.op \in Ops /\ todo.at \in 0 .. U16 - 1 /\ todo.real \in BOOLEAN /\ todo.data \in Seq(Nat)
      /\ todo.data # <<>> /\ from \in 0 .. U16 - 1 /\ got \in Seq(Nat) /\ MaxPut \in Nat
      /\ U16 \in Nat /\ U16 > 0 /\ WORD \in Nat
  BY PageAssumption, UseAssumption DEF MemInv, Whole, TypeOK, InCall
<1>2. /\ todo'.op = IF todo.op = "replace" THEN "update" ELSE todo.op
      /\ todo'.at = (todo.at + Width) % U16 /\ todo'.real = todo.real /\ todo'.data = Tail(todo.data)
      /\ pc' \in {"idle", "byte"}
  BY DEF NextByte
<1>3. Len(Tail(todo.data)) <= Len(todo.data)
  BY <1>1
<1>4. Kinds'
  <2>1. Len(todo.data) \in Nat /\ Len(Tail(todo.data)) \in Nat
    BY <1>1
  <2> QED
    BY <1>1, <1>2, <1>3, <2>1 DEF MemInv, Kinds
<1>5. Loaded' /\ Swapping'
  BY <1>2 DEF Loaded, Swapping
<1>6. Roomy'
  BY DEF MemInv, Roomy, LogicalSize
<1>7. Reading'
  <2> SUFFICES ASSUME todo.op \in {"read", "readword"} PROVE (from + Len(got')) % U16 = todo'.at
    BY <1>2 DEF Reading
  <2> DEFINE x == from + Len(got)
  <2>0. x % U16 = todo.at
    BY DEF MemInv, Reading
  <2>1. x \in Nat /\ Width \in Nat /\ from + Len(got') = x + Width
    <3>1. Width \in Nat
      BY <1>1 DEF Width
    <3>2. Len(got) \in Nat /\ Len(got') = Len(got) + Width
      BY <1>1
    <3> QED
      BY <1>1, <3>1, <3>2
  <2> HIDE DEF x
  <2>2. ((x % U16) + Width) % U16 = (x + Width) % U16
    BY <1>1, <2>1, AddMod
  <2> QED
    BY <1>2, <2>0, <2>1, <2>2
<1> QED
  BY <1>4, <1>5, <1>6, <1>7

\* What a native access or a read of one byte fetches
Fetched == [j \in 1 .. Width |-> cells[eear + j - 1]]

LEMMA FetchedIs ==
    ASSUME MemInv, pc = "command", todo.op \in {"read", "readword"}
    PROVE  /\ Fetched \in Seq(Nat) /\ Len(Fetched) = Width /\ Width \in Nat /\ Width > 0
           /\ \A j \in 1 .. Width : /\ todo.at + j - 1 \in 0 .. LogicalSize - 1
                                    /\ Fetched[j] = cells[RealAddress(todo.at + j - 1)]
<1> USE PageAssumption DEF MemInv, Whole
<1>1. /\ todo.at \in Nat /\ ~todo.real /\ todo.data \in Seq(Nat) /\ todo.data # <<>> /\ LogicalSize \in Nat
      /\ pages \in {0, 1, 2, 4, 8} /\ cells \in [0 .. PhysicalSize - 1 -> Nat]
      /\ Accessible(todo.at, FALSE) /\ todo.at < LogicalSize /\ eear = RealAddress(todo.at)
  BY SizesAre DEF TypeOK, Kinds, Loaded, Accessible, Cell
<1>2. Width \in Nat /\ Width > 0
  BY DEF Width
<1>3. ASSUME NEW j \in 1 .. Width
      PROVE  /\ todo.at + j - 1 \in 0 .. LogicalSize - 1
             /\ eear + j - 1 = RealAddress(todo.at + j - 1)
  <2>1. CASE todo.op = "read"
    <3>1. Width = 1 /\ j = 1
      BY <1>2, <1>3, <2>1 DEF Width
    <3>2. RealAddress(todo.at) \in 0 .. PAGE * pages - 1
      BY <1>1, RealSafe DEF LogicalSize
    <3>3. todo.at + 1 - 1 = todo.at /\ eear + 1 - 1 = eear
      BY <1>1, <3>2
    <3> QED
      BY <1>1, <3>1, <3>3
  <2>2. CASE todo.op = "readword"
    <3>1. Width = WORD /\ todo.at % WORD = 0 /\ todo.at + Len(todo.data) * WORD <= LogicalSize
      BY <2>2 DEF Width, Rest, InCall
    <3>2. j - 1 \in 0 .. WORD - 1
      BY <1>3, <3>1
    <3>3. RealAddress(todo.at + (j - 1)) = RealAddress(todo.at) + (j - 1)
      BY <1>1, <3>1, <3>2, RealNext
    <3>4. todo.at + WORD <= LogicalSize
      <4>1. PICK m \in Nat : Len(todo.data) = m + 1
        <5>1. Len(todo.data) \in Nat /\ Len(todo.data) > 0
          BY <1>1
        <5>2. Len(todo.data) - 1 \in Nat /\ Len(todo.data) = (Len(todo.data) - 1) + 1
          BY <5>1
        <5> QED
          BY <5>2
      <4>2. m * WORD \in Nat /\ (m + 1) * WORD = m * WORD + WORD
        OBVIOUS
      <4>3. PICK x \in Nat : Len(todo.data) * WORD = x + WORD
        BY <4>1, <4>2
      <4>4. todo.at + (x + WORD) <= LogicalSize
        BY <3>1, <4>3
      <4> QED
        BY <1>1, <4>4
    <3>5. RealAddress(todo.at) \in 0 .. PAGE * pages - 1
      BY <1>1, RealSafe DEF LogicalSize
    <3>6. todo.at + (j - 1) = todo.at + j - 1 /\ eear + (j - 1) = eear + j - 1
      BY <1>1, <3>2, <3>5
    <3> QED
      BY <1>1, <3>2, <3>3, <3>4, <3>6
  <2> QED
    BY <2>1, <2>2
<1>4. ASSUME NEW j \in 1 .. Width PROVE cells[eear + j - 1] \in Nat
  <2>1. RealAddress(todo.at + j - 1) \in 0 .. PAGE * pages - 1
    <3>1. PICK x \in Nat : x = todo.at + j - 1 /\ x < FREE * pages
      BY <1>1, <1>3 DEF LogicalSize
    <3>2. RealAddress(x) \in 0 .. PAGE * pages - 1
      BY <1>1, <3>1, RealSafe
    <3> QED
      BY <3>1, <3>2
  <2> QED
    BY <1>1, <1>3, <2>1 DEF PhysicalSize
<1>5. Fetched \in Seq(Nat) /\ Len(Fetched) = Width /\ \A j \in 1 .. Width : Fetched[j] = cells[eear + j - 1]
  <2> DEFINE e(j) == cells[eear + j - 1]
  <2>1. \A j \in 1 .. Width : e(j) \in Nat
    BY <1>4
  <2>2. Fetched = [j \in 1 .. Width |-> e(j)]
    BY DEF Fetched
  <2> HIDE DEF e
  <2>3. Fetched \in Seq(Nat) /\ Len(Fetched) = Width /\ \A j \in 1 .. Width : Fetched[j] = e(j)
    BY <1>2, <2>1, <2>2
  <2> QED
    BY <2>3 DEF e
<1> QED
  BY <1>2, <1>3, <1>5

\* The steps of a call, the controller, a handler and the power supply
LEMMA MemStep == MemInv /\ [Next]_vars => MemInv'
<1> SUFFICES ASSUME MemInv, [Next]_vars PROVE Kinds' /\ Loaded' /\ Swapping' /\ Reading' /\ Roomy'
  BY WholeStep DEF MemInv
<1> DEFINE Mem == Kinds /\ Loaded /\ Swapping /\ Reading /\ Roomy
<1>1. /\ todo.op \in Ops /\ todo.at \in 0 .. U16 - 1 /\ todo.real \in BOOLEAN /\ todo.data \in Seq(Nat)
      /\ (InCall => todo.data # <<>>) /\ from \in 0 .. U16 - 1 /\ got \in Seq(Nat) /\ MaxPut \in Nat
      /\ pc \in {"idle", "byte", "flags", "command", "wait", "off"} /\ busy \in BOOLEAN
  BY UseAssumption DEF MemInv, Whole, TypeOK, InCall
<1>2. Kinds /\ Loaded /\ Swapping /\ Reading /\ Roomy
  BY DEF MemInv
\* a call begins
<1>3. ASSUME NEW a \in Addresses, NEW op \in Ops, NEW real \in BOOLEAN, NEW data \in Seq(Nat),
             Idle, Enter(op, a, real, data), UNCHANGED <<pages, cells, controller, eerie, flags>>,
             op \in {"update", "replace"} => ~real /\ Len(data) <= MaxPut,
             op \in {"read", "readword"} => ~real /\ from' = a /\ got' = <<>>
      PROVE  Mem'
  <2>1. /\ todo' = [op |-> op, at |-> a, real |-> real, data |-> data]
        /\ pc' \in {"idle", "byte"} /\ UNCHANGED <<pages, busy>> /\ pc = "idle"
    BY <1>3 DEF Enter, Idle, controller
  <2>2. Reading'
    <3> SUFFICES ASSUME op \in {"read", "readword"} PROVE (a + 0) % U16 = a
      <4>1. Len(<<>>) = 0
        OBVIOUS
      <4> QED
        BY <1>3, <2>1, <4>1 DEF Reading
    <3> QED
      BY PageAssumption DEF Addresses
  <2> QED
    BY <1>2, <1>3, <2>1, <2>2 DEF Kinds, Loaded, Swapping, Roomy, LogicalSize
<1>4. CASE Call
  <2>1. ASSUME NEW a \in Addresses, NEW n \in Addresses, NEW real \in BOOLEAN, Write(a, n, real)
        PROVE  Mem'
    <3>1. n \in Nat /\ calls \in Nat
      BY PageAssumption, UseAssumption DEF Addresses, MemInv, Whole, TypeOK
    <3>2. Stamp(n) \in Seq(Nat)
      BY <3>1, StampType
    <3>3. "write" \in Ops
      BY DEF Ops
    <3> QED
      BY <1>3, <2>1, <3>2, <3>3 DEF Write
  <2>2. ASSUME NEW a \in Addresses, NEW words \in Addresses, WriteWords(a, words)
        PROVE  Mem'
    <3>1. words * WORD \in Nat /\ calls \in Nat
      BY PageAssumption, UseAssumption DEF Addresses, MemInv, Whole, TypeOK
    <3>2. Stamp(words * WORD) \in Seq(Nat)
      BY <3>1, StampType
    <3>3. "write" \in Ops
      BY DEF Ops
    <3> QED
      BY <1>3, <2>2, <3>2, <3>3 DEF WriteWords
  <2>3. ASSUME NEW a \in Addresses, NEW words \in Addresses, ReadWords(a, words)
        PROVE  Mem'
    <3> DEFINE data == [j \in 1 .. words |-> 0]
    <3>1. data \in Seq(Nat) /\ "readword" \in Ops
      BY PageAssumption DEF Addresses, Ops
    <3>2. Enter("readword", a, FALSE, data) /\ Idle /\ from' = a /\ got' = <<>>
          /\ UNCHANGED <<pages, cells, controller, eerie, flags>>
      BY <2>3 DEF ReadWords
    <3> HIDE DEF data
    <3> QED
      BY <1>3, <3>1, <3>2
  <2>4. ASSUME NEW a \in Addresses, NEW n \in 1 .. MaxPut, NEW keep \in SUBSET (1 .. n), Put(a, n, keep)
        PROVE  Mem'
    <3> DEFINE data == [j \in 1 .. n |-> IF j \in keep THEN Stored((a + j - 1) % U16) ELSE Stamp(n)[j]]
    <3>1. Enter("update", a, FALSE, data) /\ Idle /\ UNCHANGED <<pages, cells, controller, eerie, flags>>
      BY <2>4 DEF Put
    <3>2. DOMAIN data = 1 .. n /\ n \in Nat /\ n <= MaxPut
      BY <1>1
    <3> HIDE DEF data
    <3>3. data \in Seq(Nat)
      <4>1. todo'.data = data
        BY <3>1 DEF Enter
      <4>2. todo'.data \in Seq(Nat)
        <5>1. TypeOK'
          BY WholeStep DEF MemInv, Whole
        <5> QED
          BY <5>1 DEF TypeOK
      <4> QED
        BY <4>1, <4>2
    <3>4. Len(data) = n
      BY <3>2, <3>3
    <3>5. "update" \in Ops
      BY DEF Ops
    <3> QED
      BY <1>3, <3>1, <3>2, <3>3, <3>4, <3>5
  <2>5. ASSUME NEW a \in Addresses, NEW n \in 1 .. MaxPut, NEW whole \in BOOLEAN, ReadBytes(a, n, whole)
        PROVE  Mem'
    <3> DEFINE data == [j \in 1 .. n |-> 0]
    <3>1. data \in Seq(Nat) /\ "read" \in Ops
      BY <1>1 DEF Ops
    <3>2. Enter("read", a, FALSE, data) /\ Idle /\ from' = a /\ got' = <<>>
          /\ UNCHANGED <<pages, cells, controller, eerie, flags>>
      BY <2>5 DEF ReadBytes
    <3> HIDE DEF data
    <3> QED
      BY <1>3, <3>1, <3>2
  <2> QED
    BY <1>4, <2>1, <2>2, <2>3, <2>4, <2>5 DEF Call
<1>5. CASE SkipByte
  <2>1. InCall /\ NextByte /\ UNCHANGED <<pages, busy, from>> /\ ~busy /\ ~Accessible(todo.at, todo.real)
        /\ pc = "byte" /\ got' = IF todo.op = "read" THEN Append(got, 0) ELSE got
    BY <1>2, <1>5 DEF SkipByte, InCall, Swapping, controller
  <2>2. todo.op # "readword"
    BY <2>1, WholeIsNotDropped DEF MemInv, NothingDropped
  <2>3. todo.op \in {"read", "readword"} => got' \in Seq(Nat) /\ Len(got') = Len(got) + Width
    BY <1>1, <2>1, <2>2 DEF Width
  <2> QED
    BY <2>1, <2>3, NextByteMem
<1>6. CASE LoadByte
  <2>1. /\ pc = "byte" /\ pc' = "flags" /\ Accessible(todo.at, todo.real) /\ eear' = Cell(todo.at, todo.real)
        /\ (Programs => eedr' = Head(todo.data)) /\ UNCHANGED <<pages, busy, todo, from, got>>
    BY <1>6 DEF LoadByte
  <2> QED
    BY <1>2, <2>1 DEF Kinds, Loaded, Swapping, Reading, Roomy, InCall, Programs, Accessible, Cell,
                      PhysicalSize, LogicalSize
\* steps that go on to another place of the same byte
<1>7. ASSUME UNCHANGED <<pages, todo, from, got, eear, eedr, busy>>,
             pc' = pc \/ (pc = "flags" /\ pc' = "command")
      PROVE  Mem'
  BY <1>2, <1>7 DEF Kinds, Loaded, Swapping, Reading, Roomy, InCall, Programs, Accessible, Cell,
                    PhysicalSize, LogicalSize
<1>8. CASE ReadFlags
  BY <1>7, <1>8 DEF ReadFlags, controller
<1>9. CASE Program
  <2>1. UNCHANGED <<pages, todo, from, got, eear, eedr>> /\ pc = "command" /\ pc' = "wait" /\ Programs
    BY <1>9 DEF Program
  <2> QED
    BY <1>2, <2>1 DEF Kinds, Loaded, Swapping, Reading, Roomy, InCall, Programs, Accessible, Cell,
                      PhysicalSize, LogicalSize
<1>10. CASE Wait
  <2>1. InCall /\ NextByte /\ UNCHANGED <<pages, busy, from, got>> /\ ~busy /\ pc = "wait"
    BY <1>10 DEF Wait, InCall, controller, ProgramOver
  <2>2. todo.op \notin {"read", "readword"}
    BY <1>2, <2>1 DEF Swapping, Programs
  <2> QED
    BY <2>1, <2>2, NextByteMem
<1>11. CASE Fetch
  <2>1. InCall /\ NextByte /\ UNCHANGED <<pages, busy, from>> /\ ~busy /\ pc = "command"
        /\ todo.op \in {"read", "readword"} /\ got' = got \o Fetched
    BY <1>2, <1>11 DEF Fetch, InCall, Swapping, controller, Fetched
  <2>2. Fetched \in Seq(Nat) /\ Len(Fetched) = Width
    BY <2>1, FetchedIs
  <2>3. PICK f \in Seq(Nat) : got' = got \o f /\ Len(f) = Width
    BY <2>1, <2>2
  <2>4. got' \in Seq(Nat) /\ Len(got') = Len(got) + Width
    <3>1. got \in Seq(Nat)
      BY <1>1
    <3>2. got \o f \in Seq(Nat) /\ Len(got \o f) = Len(got) + Len(f)
      BY <3>1
    <3> QED
      BY <2>3, <3>2
  <2> QED
    BY <2>1, <2>4, NextByteMem
<1>12. CASE Compare
  <2>1. InCall /\ UNCHANGED <<pages, busy, from, got>> /\ ~busy /\ pc = "command" /\ todo.op = "update"
    BY <1>2, <1>12 DEF Compare, InCall, Swapping, controller
  <2>2. CASE cells[eear] = Head(todo.data)
    <3>1. NextByte
      BY <1>12, <2>2 DEF Compare
    <3> QED
      BY <2>1, <3>1, NextByteMem
  <2>3. CASE cells[eear] # Head(todo.data)
    <3>1. pc' = "byte" /\ todo' = [todo EXCEPT !.op = "replace"]
      BY <1>12, <2>3 DEF Compare
    <3>2. todo'.op = "replace" /\ todo'.real = todo.real /\ todo'.data = todo.data
      <4>1. todo \in [op : Ops, at : 0 .. U16 - 1, real : BOOLEAN, data : Seq(Nat)]
        BY DEF MemInv, Whole, TypeOK
      <4> QED
        BY <3>1, <4>1
    <3> QED
      BY <1>2, <2>1, <3>1, <3>2 DEF Kinds, Loaded, Swapping, Reading, Roomy, LogicalSize
  <2> QED
    BY <2>2, <2>3
<1>13. CASE Swap
  <2>1. UNCHANGED <<pages, eear, eedr, pc, todo, from, got>> /\ busy' = FALSE
    BY <1>13 DEF Swap
  <2> QED
    BY <1>2, <2>1 DEF Kinds, Loaded, Swapping, Reading, Roomy, InCall, Programs, Accessible, Cell,
                      PhysicalSize, LogicalSize
<1>14. CASE Handler
  <2>1. UNCHANGED <<pages, todo, from, got, eear, eedr, busy, pc>>
    BY <1>14 DEF Handler, controller
  <2> QED
    BY <1>7, <2>1
<1>15. CASE LosePower \/ Restart
  <2>1. UNCHANGED <<pages, todo>> /\ pc' \in {"off", "idle"} /\ ~busy'
    BY <1>2, <1>15 DEF LosePower, Restart, Swapping, controller
  <2> QED
    BY <1>2, <2>1 DEF Kinds, Loaded, Swapping, Reading, Roomy, InCall, LogicalSize
<1>16. CASE UNCHANGED vars
  <2>1. UNCHANGED <<pages, todo, from, got, eear, eedr, busy, pc>>
    BY <1>16 DEF vars, controller
  <2> QED
    BY <1>7, <2>1
<1> QED
  BY <1>4, <1>5, <1>6, <1>8, <1>9, <1>10, <1>11, <1>12, <1>13, <1>14, <1>15, <1>16 DEF Next, Step

\* The bytes of a call after a step that leaves the partition
LEMMA BytesNext ==
    ASSUME UNCHANGED pages, NEW a, NEW d, NEW real, todo'.at = a, todo'.data = d, todo'.real = real
    PROVE  Bytes(todo.at, todo.data, todo.real)' = Bytes(a, d, real)
BY DEF Bytes, Accessible, Logical, LogicalSize, PhysicalSize

\* What is left of a call that writes lies as it was accepted.
LEMMA StillLies ==
    ASSUME MemInv, Writes
    PROVE  /\ Lies(todo.at, todo.data, todo.real) /\ Sized /\ pages \in {0, 1, 2, 4, 8}
           /\ todo.at \in 0 .. U16 - 1 /\ todo.real \in BOOLEAN /\ todo.data \in Seq(Nat) /\ todo.data # <<>>
<1>1. /\ Sized /\ pages \in {0, 1, 2, 4, 8}
      /\ todo.at \in 0 .. U16 - 1 /\ todo.real \in BOOLEAN /\ todo.data \in Seq(Nat) /\ todo.data # <<>>
  BY DEF MemInv, Whole, TypeOK, Writes
<1>2. Lies(todo.at, todo.data, todo.real)
  <2>1. CASE todo.op = "write"
    <3>1. Fits(todo.at, Len(todo.data), todo.real)
      BY <2>1 DEF MemInv, Whole, Rest, InCall, Writes
    <3> QED
      BY <3>1 DEF Lies
  <2>2. CASE todo.op # "write"
    <3>1. ~todo.real /\ Len(todo.data) <= MaxPut
      BY <2>2 DEF MemInv, Kinds, Writes
    <3>2. LogicalSize + MaxPut <= U16 /\ LogicalSize \in Nat /\ MaxPut \in Nat /\ U16 \in Nat
      BY <1>1, SizesAre, PageAssumption, UseAssumption DEF MemInv, Roomy
    <3>3. Len(todo.data) \in Nat
      BY <1>1
    <3>4. LogicalSize + Len(todo.data) <= U16
      BY <3>1, <3>2, <3>3
    <3> QED
      BY <3>1, <3>4 DEF Lies
  <2> QED
    BY <2>1, <2>2
<1> QED
  BY <1>1, <1>2

\* A fresh partition is a memory of zeros.
LEMMA MemoryInit == Init => Memory!Init
<1> SUFFICES ASSUME Init PROVE Memory!Init
  OBVIOUS
<1>1. pages \in {0, 1, 2, 4, 8}
  BY PagesAre
<1>2. Contents = [a \in 0 .. LogicalSize - 1 |-> 0]
  <2>1. \A a \in 0 .. LogicalSize - 1 : cells[RealAddress(a)] = 0
    <3> TAKE a \in 0 .. LogicalSize - 1
    <3>1. a \in Nat /\ a < FREE * pages /\ pages \in Nat
      BY <1>1, Constants DEF LogicalSize
    <3>2. RealAddress(a) \in 0 .. PhysicalSize - 1
      BY <3>1, RealSafe DEF PhysicalSize
    <3> QED
      BY <3>2 DEF Init
  <2> QED
    BY <2>1 DEF Contents
<1>3. LogicalSize \in {FREE * n : n \in {0, 1, 2, 4, 8}}
  BY <1>1 DEF LogicalSize
<1>4. Pending = <<>> /\ from = 0 /\ got = <<>>
  BY DEF Init, Pending, Writes
<1> QED
  BY <1>2, <1>3, <1>4 DEF Memory!Init

\* Where a call begins, what it puts is taken as a whole.
LEMMA MemoryAccepts ==
    ASSUME MemInv, pc = "idle", NEW a \in 0 .. U16 - 1, NEW op \in {"write", "update"},
           NEW real \in BOOLEAN, NEW data \in Seq(Nat),
           Enter(op, a, real, data), UNCHANGED <<pages, cells, from, got>>
    PROVE  Memory!Accept
<1>1. pages \in {0, 1, 2, 4, 8}
  BY DEF MemInv, Whole, TypeOK
<1>2. Pending = <<>>
  BY DEF Pending, Writes
<1>3. Contents' = Contents /\ DOMAIN Contents = 0 .. LogicalSize - 1
  BY DEF Contents, LogicalSize
<1>4. /\ todo'.op = op /\ todo'.at = a /\ todo'.real = real /\ todo'.data = data
      /\ pc' = IF data = <<>> THEN "idle" ELSE "byte"
  BY DEF Enter
<1>5. \A j \in DOMAIN Pending' : /\ Pending'[j].at \in 0 .. LogicalSize - 1
                                 /\ Pending'[j].at = Pending'[1].at + j - 1
  <2>1. CASE data = <<>>
    <3>1. Pending' = <<>>
      BY <1>4, <2>1 DEF Pending, Writes
    <3> QED
      BY <3>1
  <2>2. CASE data # <<>>
    <3>1. Pending' = Bytes(a, data, real)
      <4>1. Pending' = Bytes(todo.at, todo.data, todo.real)'
        BY <1>4, <2>2 DEF Pending, Writes
      <4> QED
        BY <1>4, <4>1, BytesNext
    <3> QED
      BY <1>1, <3>1, BytesLie
  <2> QED
    BY <2>1, <2>2
<1> QED
  BY <1>2, <1>3, <1>5 DEF Memory!Accept

\* The byte under way
First == [at |-> Logical(todo.at, todo.real), value |-> Head(todo.data)]
Later == Bytes((todo.at + 1) % U16, Tail(todo.data), todo.real)

LEMMA PendingIs ==
    ASSUME MemInv, Writes
    PROVE  /\ pc = "wait" /\ ~busy => Pending = Later
           /\ pc # "wait" \/ busy => Pending = Bytes(todo.at, todo.data, todo.real)
           /\ Accessible(todo.at, todo.real) =>
                 /\ Bytes(todo.at, todo.data, todo.real) # <<>>
                 /\ Head(Bytes(todo.at, todo.data, todo.real)) = First
                 /\ Tail(Bytes(todo.at, todo.data, todo.real)) = Later
           /\ ~Accessible(todo.at, todo.real) => Bytes(todo.at, todo.data, todo.real) = Later
<1>1. Accessible(todo.at, todo.real) =>
         /\ Bytes(todo.at, todo.data, todo.real) # <<>>
         /\ Head(Bytes(todo.at, todo.data, todo.real)) = First
         /\ Tail(Bytes(todo.at, todo.data, todo.real)) = Later
  BY StillLies, BytesTail DEF First, Later
<1>2. ASSUME ~Accessible(todo.at, todo.real) PROVE Bytes(todo.at, todo.data, todo.real) = Later
  <2>1. todo.real = FALSE
    <3> SUFFICES ASSUME todo.real PROVE FALSE
      BY StillLies
    <3>1. Fits(todo.at, Len(todo.data), todo.real) /\ Len(todo.data) \in Nat /\ Len(todo.data) > 0
      <4>1. Fits(todo.at, Len(todo.data), todo.real)
        <5>1. Lies(todo.at, todo.data, todo.real)
          BY StillLies
        <5> HIDE DEF Fits
        <5> QED
          BY <5>1, Zenon DEF Lies
      <4>2. todo.data \in Seq(Nat) /\ todo.data # <<>>
        BY StillLies
      <4>3. Len(todo.data) \in Nat /\ Len(todo.data) > 0
        BY <4>2
      <4> QED
        BY <4>1, <4>3, Zenon
    <3>2. todo.at < PhysicalSize /\ (todo.at % PAGE) + Len(todo.data) <= FREE
      BY <3>1 DEF Fits
    <3>3. todo.at % PAGE \in Nat
      BY StillLies, PageAssumption
    <3>4. todo.at % PAGE < FREE
      BY <3>1, <3>2, <3>3, PageAssumption
    <3> QED
      BY <1>2, <3>2, <3>4 DEF Accessible
  <2> QED
    BY <1>2, <2>1, StillLies, BytesSkip DEF Later
<1>3. pc = "wait" /\ ~busy => Pending = Later
  BY DEF Pending, Later
<1>4. pc # "wait" \/ busy => Pending = Bytes(todo.at, todo.data, todo.real)
  BY DEF Pending
<1> QED
  BY <1>1, <1>2, <1>3, <1>4

\* After a byte of a write, the later ones are left.
LEMMA LaterIsLeft ==
    ASSUME MemInv, Writes, NextByte, UNCHANGED pages PROVE Pending' = Later
<1>1. /\ todo'.op \in {"write", "update"} /\ todo'.at = (todo.at + 1) % U16 /\ todo'.real = todo.real
      /\ todo'.data = Tail(todo.data) /\ pc' = IF Len(todo.data) = 1 THEN "idle" ELSE "byte"
  BY DEF NextByte, LastByte, Width, Writes
<1>2. CASE Len(todo.data) = 1
  <2>1. Tail(todo.data) = <<>>
    <3>1. Tail(todo.data) \in Seq(Nat) /\ Len(Tail(todo.data)) = 0
      BY <1>2, StillLies
    <3> QED
      BY <3>1, NoElements, Zenon
  <2>2. (todo.at + 1) % U16 \in 0 .. U16 - 1
    BY StillLies, PageAssumption
  <2>3. Later = <<>>
    BY <2>1, <2>2, StillLies, NoBytes DEF Later
  <2> QED
    BY <1>1, <1>2, <2>3 DEF Pending, Writes
<1>3. CASE Len(todo.data) # 1
  <2>1. Pending' = Bytes(todo.at, todo.data, todo.real)'
    BY <1>1, <1>3 DEF Pending, Writes
  <2> QED
    BY <1>1, <2>1, BytesNext DEF Later
<1> QED
  BY <1>2, <1>3

\* The cell that the controller programs is that of the first byte, and no other address has it.
LEMMA ContentsWritten ==
    ASSUME MemInv, busy, cells' = Written, UNCHANGED pages
    PROVE  Contents' = [Contents EXCEPT ![First.at] = First.value]
<1> DEFINE l == Logical(todo.at, todo.real)
<1>1. /\ pages \in {0, 1, 2, 4, 8} /\ todo.at \in Nat /\ todo.real \in BOOLEAN
      /\ Accessible(todo.at, todo.real) /\ eear = Cell(todo.at, todo.real) /\ eedr = Head(todo.data)
      /\ cells \in [0 .. PhysicalSize - 1 -> Nat]
  BY DEF MemInv, Whole, TypeOK, Swapping, Loaded
<1>2. l \in 0 .. LogicalSize - 1 /\ RealAddress(l) = eear
  BY <1>1, LogicalIs
<1> HIDE DEF l
<1>3. ASSUME NEW a \in 0 .. LogicalSize - 1
      PROVE  cells'[RealAddress(a)] = IF a = l THEN eedr ELSE cells[RealAddress(a)]
  <2>1. a \in Nat /\ a < FREE * pages /\ pages \in Nat /\ l \in Nat
    BY <1>1, <1>2, Constants DEF LogicalSize
  <2>2. RealAddress(a) \in DOMAIN cells
    BY <1>1, <2>1, RealSafe DEF PhysicalSize
  <2>3. RealAddress(a) = eear <=> a = l
    BY <1>2, <2>1, RealInjective
  <2> QED
    BY <2>2, <2>3 DEF Written
<1>4. Contents' = [a \in 0 .. LogicalSize - 1 |-> cells'[RealAddress(a)]]
  BY DEF Contents, LogicalSize
<1>5. First.at = l /\ First.value = eedr
  BY <1>1 DEF First, l
<1> QED
  BY <1>3, <1>4, <1>5 DEF Contents

\* Each step of a call, the controller or the power supply is a step of the memory, or none.
LEMMA MemoryStep == MemInv /\ [Next]_vars => [Memory!Next]_Memory!nvm
<1> SUFFICES ASSUME MemInv, [Next]_vars PROVE Memory!Next \/ UNCHANGED Memory!nvm
  OBVIOUS
<1>1. /\ todo.op \in Ops /\ todo.at \in 0 .. U16 - 1 /\ todo.at \in Nat /\ todo.real \in BOOLEAN
      /\ todo.data \in Seq(Nat) /\ got \in Seq(Nat) /\ pages \in {0, 1, 2, 4, 8} /\ LogicalSize \in Nat
      /\ pc \in {"idle", "byte", "flags", "command", "wait", "off"}
  BY SizesAre, PageAssumption DEF MemInv, Whole, TypeOK
<1>2. DOMAIN Contents = 0 .. LogicalSize - 1
  BY DEF Contents
<1>3. ASSUME UNCHANGED <<pages, cells>> PROVE Contents' = Contents
  BY <1>3 DEF Contents, LogicalSize
\* nothing seen of the memory
<1>4. ASSUME UNCHANGED <<pages, cells, from, got>>, Pending' = Pending PROVE UNCHANGED Memory!nvm
  BY <1>3, <1>4 DEF Memory!nvm
<1>5. ASSUME UNCHANGED <<pages, cells, from, got, todo>>, Writes' <=> Writes,
             (pc = "wait" /\ ~busy) <=> (pc' = "wait" /\ ~busy')
      PROVE  UNCHANGED Memory!nvm
  <2>1. Bytes(todo.at, todo.data, todo.real)' = Bytes(todo.at, todo.data, todo.real)
        /\ Bytes((todo.at + 1) % U16, Tail(todo.data), todo.real)'
              = Bytes((todo.at + 1) % U16, Tail(todo.data), todo.real)
    BY <1>5 DEF Bytes, Accessible, Logical, LogicalSize, PhysicalSize
  <2>2. Pending' = Pending
    BY <1>5, <2>1 DEF Pending
  <2> QED
    BY <1>4, <1>5, <2>2
<1>6. ASSUME ~Writes, ~Writes' PROVE Pending = <<>> /\ Pending' = <<>>
  BY <1>6 DEF Pending
\* a read begins
<1>7. ASSUME NEW a \in Addresses, NEW op \in {"read", "readword"}, NEW data, pc = "idle",
             Enter(op, a, FALSE, data), from' = a, got' = <<>>, UNCHANGED <<pages, cells>>
      PROVE  Memory!Next
  <2>1. Pending = <<>> /\ Pending' = <<>>
    BY <1>6, <1>7 DEF Enter, Writes
  <2>2. Memory!Ask
    BY <1>3, <1>7, <2>1 DEF Memory!Ask, Addresses
  <2> QED
    BY <2>2 DEF Memory!Next
<1>8. CASE Call
  <2>1. ASSUME NEW a \in Addresses, NEW n \in Addresses, NEW real \in BOOLEAN, Write(a, n, real)
        PROVE  Memory!Accept
    <3>1. n \in Nat /\ calls \in Nat
      BY PageAssumption, UseAssumption DEF Addresses, MemInv, Whole, TypeOK
    <3>2. Stamp(n) \in Seq(Nat)
      BY <3>1, StampType
    <3> QED
      BY <2>1, <3>2, MemoryAccepts DEF Write, Idle, Addresses
  <2>2. ASSUME NEW a \in Addresses, NEW words \in Addresses, WriteWords(a, words)
        PROVE  Memory!Accept
    <3>1. words * WORD \in Nat /\ calls \in Nat
      BY PageAssumption, UseAssumption DEF Addresses, MemInv, Whole, TypeOK
    <3>2. Stamp(words * WORD) \in Seq(Nat)
      BY <3>1, StampType
    <3> QED
      BY <2>2, <3>2, MemoryAccepts DEF WriteWords, Idle, Addresses
  <2>3. ASSUME NEW a \in Addresses, NEW words \in Addresses, ReadWords(a, words)
        PROVE  Memory!Next
    BY <1>7, <2>3 DEF ReadWords, Idle
  <2>4. ASSUME NEW a \in Addresses, NEW n \in 1 .. MaxPut, NEW keep \in SUBSET (1 .. n), Put(a, n, keep)
        PROVE  Memory!Accept
    <3> DEFINE data == [j \in 1 .. n |-> IF j \in keep THEN Stored((a + j - 1) % U16) ELSE Stamp(n)[j]]
    <3>1. Enter("update", a, FALSE, data) /\ pc = "idle" /\ UNCHANGED <<pages, cells, from, got>>
      BY <2>4 DEF Put, Idle
    <3> HIDE DEF data
    <3>2. data \in Seq(Nat)
      <4>1. todo'.data = data
        BY <3>1 DEF Enter
      <4>2. TypeOK'
        BY WholeStep DEF MemInv, Whole
      <4> QED
        BY <4>1, <4>2 DEF TypeOK
    <3> QED
      BY <3>1, <3>2, MemoryAccepts DEF Addresses
  <2>5. ASSUME NEW a \in Addresses, NEW n \in 1 .. MaxPut, NEW whole \in BOOLEAN, ReadBytes(a, n, whole)
        PROVE  Memory!Next
    BY <1>7, <2>5 DEF ReadBytes, Idle
  <2> QED
    BY <1>8, <2>1, <2>2, <2>3, <2>4, <2>5 DEF Call, Memory!Next
\* a byte past the end: not written, or read as 0
<1>9. CASE SkipByte
  <2>1. NextByte /\ pc = "byte" /\ UNCHANGED <<pages, cells, from>> /\ ~Accessible(todo.at, todo.real)
        /\ got' = IF todo.op = "read" THEN Append(got, 0) ELSE got
    BY <1>9 DEF SkipByte
  <2>2. todo'.op = IF todo.op = "replace" THEN "update" ELSE todo.op
    BY <2>1 DEF NextByte
  <2>3. CASE Writes
    <3>1. Pending = Later /\ Pending' = Later
      BY <2>1, <2>3, PendingIs, LaterIsLeft
    <3>2. got' = got
      BY <2>1, <2>3 DEF Writes
    <3> QED
      BY <1>4, <2>1, <3>1, <3>2
  <2>4. CASE todo.op = "read"
    <3>1. Pending' = Pending
      BY <1>6, <2>2, <2>4 DEF Writes
    <3>2. ~todo.real /\ (from + Len(got)) % U16 = todo.at
      BY <2>1, <2>4 DEF MemInv, Kinds, Reading, InCall
    <3>3. todo.at \notin DOMAIN Contents
      BY <1>1, <1>2, <2>1, <3>2 DEF Accessible
    <3>4. Memory!Answer
      <4> DEFINE n == Len(got)
      <4>1. n \in Nat /\ Len(got') = n + 1 /\ got'[n + 1] = 0 /\ \A j \in 1 .. n : got'[j] = got[j]
        BY <1>1, <2>1, <2>4
      <4>2. from + (n + 1) - 1 = from + n
        BY <4>1 DEF MemInv, Whole, TypeOK
      <4> HIDE DEF n
      <4>3. Memory!Value(from + (n + 1) - 1) = 0
        BY <3>2, <3>3, <4>2 DEF Memory!Value, n
      <4>4. ASSUME NEW j \in 1 .. Len(got')
            PROVE  got'[j] = IF j <= n THEN got[j] ELSE Memory!Value(from + j - 1)
        <5>1. CASE j <= n
          BY <4>1, <4>4, <5>1
        <5>2. CASE ~(j <= n)
          <6>1. j = n + 1
            BY <4>1, <4>4, <5>2
          <6> QED
            BY <4>1, <4>3, <5>2, <6>1
        <5> QED
          BY <5>1, <5>2
      <4> QED
        BY <1>3, <2>1, <3>1, <4>1, <4>4 DEF Memory!Answer, n
    <3> QED
      BY <3>4 DEF Memory!Next
  <2>5. CASE ~Writes /\ todo.op # "read"
    BY <1>4, <1>6, <2>1, <2>2, <2>5 DEF Writes
  <2> QED
    BY <2>3, <2>4, <2>5
\* a step to another place of the same byte
<1>10. CASE LoadByte
  <2>1. UNCHANGED <<pages, cells, busy, todo, from, got>> /\ pc = "byte" /\ pc' = "flags"
    BY <1>10 DEF LoadByte
  <2> QED
    BY <1>5, <2>1 DEF Writes
<1>11. CASE ReadFlags
  <2>1. UNCHANGED <<pages, cells, busy, todo, from, got>> /\ pc = "flags" /\ pc' = "command"
    BY <1>11 DEF ReadFlags, controller
  <2> QED
    BY <1>5, <2>1 DEF Writes
<1>12. CASE Program
  <2>1. UNCHANGED <<pages, cells, todo, from, got>> /\ pc = "command" /\ pc' = "wait" /\ busy' = TRUE
    BY <1>12 DEF Program
  <2> QED
    BY <1>5, <2>1 DEF Writes
<1>13. CASE Wait
  <2>1. NextByte /\ pc = "wait" /\ ~busy /\ UNCHANGED <<pages, cells, from, got>>
    BY <1>13 DEF Wait, ProgramOver
  <2>2. Writes
    BY <2>1 DEF MemInv, Swapping, Programs, Writes
  <2>3. Pending = Later /\ Pending' = Later
    BY <2>1, <2>2, PendingIs, LaterIsLeft
  <2> QED
    BY <1>4, <2>1, <2>3
\* a byte or a word is read
<1>14. CASE Fetch
  <2>1. NextByte /\ pc = "command" /\ todo.op \in {"read", "readword"} /\ UNCHANGED <<pages, cells, from>>
        /\ got' = got \o Fetched
    BY <1>14 DEF Fetch, Fetched
  <2>2. Pending' = Pending
    BY <1>6, <2>1 DEF Writes, NextByte
  <2>3. ~todo.real /\ (from + Len(got)) % U16 = todo.at
    BY <2>1 DEF MemInv, Kinds, Reading, InCall
  <2>4. PICK f \in Seq(Nat) :
           /\ got' = got \o f /\ Len(f) > 0
           /\ \A j \in 1 .. Len(f) : /\ todo.at + j - 1 \in 0 .. LogicalSize - 1
                                     /\ f[j] = cells[RealAddress(todo.at + j - 1)]
    BY <2>1, FetchedIs
  <2>5. from \in Nat /\ LogicalSize <= U16 /\ U16 \in Nat /\ U16 > 0
    <3>1. LogicalSize <= PhysicalSize /\ PhysicalSize \in Nat
      BY <1>1, SizesAre
    <3> QED
      BY <1>1, <3>1, PageAssumption DEF MemInv, Whole, Sized, TypeOK
  <2> DEFINE n == Len(got)
  <2>6. n \in Nat /\ Len(got') = n + Len(f) /\ Len(f) \in Nat
        /\ \A j \in 1 .. n + Len(f) : got'[j] = IF j <= n THEN got[j] ELSE f[j - n]
    BY <1>1, <2>4
  <2> HIDE DEF n
  <2>7. ASSUME NEW i \in 1 .. Len(f)
        PROVE  Memory!Value(from + (n + i) - 1) = f[i]
    <3> DEFINE x == from + n  w == i - 1
    <3>0. x % U16 = todo.at
      BY <2>3 DEF n
    <3>1. x \in Nat /\ w \in Nat /\ from + (n + i) - 1 = x + w
      BY <2>5, <2>6
    <3> HIDE DEF x
    <3>2. (x + w) % U16 = (todo.at + w) % U16
      <4>1. U16 \in Nat /\ U16 > 0
        BY PageAssumption
      <4> HIDE DEF w
      <4>2. ((x % U16) + w) % U16 = (x + w) % U16
        BY <3>1, <4>1, AddMod
      <4> QED
        BY <3>0, <4>2
    <3>3. todo.at + w \in 0 .. LogicalSize - 1 /\ f[i] = cells[RealAddress(todo.at + w)]
      <4>1. todo.at + i - 1 = todo.at + w
        BY <1>1, <2>6
      <4> QED
        BY <2>4, <4>1
    <3>4. (todo.at + w) % U16 = todo.at + w
      <4> DEFINE y == todo.at + w
      <4>1. y \in 0 .. U16 - 1 /\ y \in Nat
        BY <1>1, <2>5, <3>3
      <4> HIDE DEF y
      <4>2. y = U16 * 0 + y /\ 0 \in Nat
        BY <2>5, <4>1
      <4>3. y % U16 = y
        BY <2>5, <4>1, <4>2, DivModOf
      <4> QED
        BY <4>3 DEF y
    <3> HIDE DEF w
    <3>5. Memory!Value(x + w) = Contents[todo.at + w]
      BY <1>2, <3>2, <3>3, <3>4 DEF Memory!Value
    <3> QED
      BY <3>1, <3>3, <3>5 DEF Contents
  <2>8. ASSUME NEW j \in 1 .. Len(got')
        PROVE  got'[j] = IF j <= n THEN got[j] ELSE Memory!Value(from + j - 1)
    <3>1. CASE j <= n
      BY <2>6, <2>8, <3>1
    <3>2. CASE ~(j <= n)
      <4>1. PICK i \in 1 .. Len(f) : j = n + i
        <5>1. j - n \in 1 .. Len(f) /\ j = n + (j - n)
          BY <2>6, <2>8, <3>2
        <5> QED
          BY <5>1
      <4>2. got'[j] = f[i] /\ j - n = i
        BY <2>6, <2>8, <3>2, <4>1
      <4> QED
        BY <2>7, <3>2, <4>1, <4>2
    <3> QED
      BY <3>1, <3>2
  <2>9. Memory!Answer
    <3>1. Len(got') > Len(got)
      BY <2>4, <2>6 DEF n
    <3>2. UNCHANGED <<Contents, Pending, from>>
      BY <1>3, <2>1, <2>2
    <3> QED
      BY <2>8, <3>1, <3>2 DEF Memory!Answer, n
  <2> QED
    BY <2>9 DEF Memory!Next
\* a byte that an update finds is written as it is
<1>15. CASE Compare
  <2>1. pc = "command" /\ todo.op = "update" /\ UNCHANGED <<pages, cells, busy, from, got>> /\ Writes
    BY <1>15 DEF Compare, controller, Writes
  <2>2. /\ Pending # <<>> /\ Head(Pending) = First /\ Tail(Pending) = Later
    BY <2>1, PendingIs DEF MemInv, Loaded
  <2>3. CASE cells[eear] = Head(todo.data)
    <3>1. Pending' = Later
      BY <1>15, <2>1, <2>3, LaterIsLeft DEF Compare
    <3>2. First.at \in 0 .. LogicalSize - 1 /\ RealAddress(First.at) = eear /\ First.value = Head(todo.data)
      <4>1. Accessible(todo.at, todo.real) /\ eear = Cell(todo.at, todo.real)
        BY <2>1 DEF MemInv, Loaded
      <4> QED
        BY <1>1, <4>1, LogicalIs DEF First
    <3>3. Contents[First.at] = First.value
      BY <2>3, <3>2 DEF Contents
    <3>4. [Contents EXCEPT ![First.at] = First.value] = Contents
      BY <3>3 DEF Contents
    <3>5. Memory!Write
      BY <1>3, <2>1, <2>2, <3>1, <3>4 DEF Memory!Write, Memory!Done
    <3> QED
      BY <3>5 DEF Memory!Next
  <2>4. CASE cells[eear] # Head(todo.data)
    <3>1. pc' = "byte" /\ todo' = [todo EXCEPT !.op = "replace"]
      BY <1>15, <2>4 DEF Compare
    <3>2. todo'.op = "replace" /\ todo'.at = todo.at /\ todo'.real = todo.real /\ todo'.data = todo.data
      <4>1. todo \in [op : Ops, at : 0 .. U16 - 1, real : BOOLEAN, data : Seq(Nat)]
        BY DEF MemInv, Whole, TypeOK
      <4> QED
        BY <3>1, <4>1
    <3>3. Pending' = Bytes(todo.at, todo.data, todo.real)
      <4>1. Pending' = Bytes(todo.at, todo.data, todo.real)'
        BY <3>1, <3>2 DEF Pending, Writes
      <4> QED
        BY <2>1, <3>2, <4>1, BytesNext
    <3>4. Pending = Bytes(todo.at, todo.data, todo.real)
      BY <2>1, PendingIs
    <3> QED
      BY <1>4, <2>1, <3>3, <3>4
  <2> QED
    BY <2>3, <2>4
\* the controller swaps pages
<1>16. ASSUME busy
       PROVE  Writes /\ Pending # <<>> /\ Head(Pending) = First /\ Tail(Pending) = Later
  <2>1. pc = "wait" /\ Writes /\ Accessible(todo.at, todo.real)
    BY <1>16 DEF MemInv, Swapping, Programs, Writes, Loaded
  <2> QED
    BY <1>16, <2>1, PendingIs
<1>17. CASE Swap
  <2>1. busy /\ ~busy' /\ cells' = Written /\ UNCHANGED <<pages, pc, todo, from, got>>
    BY <1>17 DEF Swap
  <2>2. Contents' = Memory!Done
    BY <1>16, <2>1, ContentsWritten DEF Memory!Done
  <2>3. Pending' = Later
    <3>1. Writes' /\ pc' = "wait"
      BY <1>16, <2>1 DEF Writes, MemInv, Swapping
    <3>2. Pending' = Bytes((todo.at + 1) % U16, Tail(todo.data), todo.real)'
      BY <2>1, <3>1 DEF Pending
    <3> QED
      BY <2>1, <3>2 DEF Later, Bytes, Accessible, Logical, LogicalSize, PhysicalSize
  <2>4. Memory!Write
    BY <1>16, <2>1, <2>2, <2>3 DEF Memory!Write
  <2> QED
    BY <2>4 DEF Memory!Next
\* the power fails
<1>18. CASE LosePower
  <2>1. /\ pc' = "off" /\ from' = 0 /\ got' = <<>> /\ UNCHANGED pages
        /\ cells' = cells \/ (busy /\ cells' = Written)
    BY <1>18 DEF LosePower
  <2>2. Pending' = <<>>
    BY <2>1 DEF Pending, Writes
  <2>3. Contents' = Contents \/ (Pending # <<>> /\ Contents' = Memory!Done)
    <3>1. CASE cells' = cells
      BY <1>3, <2>1, <3>1
    <3>2. CASE busy /\ cells' = Written
      BY <1>16, <2>1, <3>2, ContentsWritten DEF Memory!Done
    <3> QED
      BY <2>1, <3>1, <3>2
  <2>4. Memory!LosePower
    BY <2>1, <2>2, <2>3 DEF Memory!LosePower
  <2> QED
    BY <2>4 DEF Memory!Next
<1>19. CASE Handler
  <2>1. UNCHANGED <<pages, cells, busy, pc, todo, from, got>>
    BY <1>19 DEF Handler, controller
  <2> QED
    BY <1>5, <2>1 DEF Writes
<1>20. CASE Restart
  <2>1. UNCHANGED <<pages, cells, busy, todo, from, got>> /\ pc = "off" /\ pc' = "idle"
    BY <1>20 DEF Restart, controller
  <2> QED
    BY <1>5, <2>1 DEF Writes
<1>21. CASE UNCHANGED vars
  <2>1. UNCHANGED <<pages, cells, busy, pc, todo, from, got>>
    BY <1>21 DEF vars, controller
  <2> QED
    BY <1>5, <2>1 DEF Writes
<1> QED
  BY <1>8, <1>9, <1>10, <1>11, <1>12, <1>13, <1>14, <1>15, <1>17, <1>18, <1>19, <1>20, <1>21
  DEF Next, Step

\* The emulated EEPROM is a memory that outlives the loss of power, for every
\* page size, partition, call and object: a write is taken as a whole and done
\* byte by byte, in order; a loss of power keeps a prefix of it and everything
\* else; and a read of any width returns what is there.
THEOREM LibraryIsMemory == Spec => ImplementsNvm
<1>1. Init => MemInv /\ Memory!Init
  BY MemInit, MemoryInit
<1>2. MemInv /\ [Next]_vars => MemInv'
  BY MemStep
<1>3. MemInv /\ [Next]_vars => [Memory!Next]_Memory!nvm
  BY MemoryStep
<1> QED
  BY <1>1, <1>2, <1>3, PTL DEF Spec, ImplementsNvm, Memory!Spec
=============================================================================
