----------------------------- MODULE TextProofs -----------------------------
(***************************************************************************)
(* Texts are right: proofs of TextTrue, which is that the three loops of   *)
(* replace() agree on what is found and how long the result is, that a     *)
(* string fails whole and stays within its buffer, and that find() and     *)
(* parseInt() return what stands in the stream; for every set of           *)
(* characters, every length and every timeout.  With WaitsProofs, every    *)
(* variable of WaitsProps has its type.                                    *)
(***************************************************************************)
EXTENDS WaitsProofs, WellFoundedInduction, FiniteSetTheorems

-----------------------------------------------------------------------------
(* Recursion and induction over the natural numbers, as facts about sets   *)

\* Every set of natural numbers has a least one.
LEMMA LeastExists ==
    ASSUME NEW S \in SUBSET Nat, S # {}
    PROVE  \E w \in S : \A n \in S : w <= n
<1> DEFINE R == {ss \in Nat \X Nat : ss[1] < ss[2]}
<1>1. IsWellFoundedOn(R, Nat)
  BY NatLessThanWellFounded DEF OpToRel
<1>2. PICK w \in S : \A n \in S : <<n, w>> \notin R
  <2> HIDE DEF R
  <2> QED
    BY <1>1, WFMin
<1>3. ASSUME NEW n \in S PROVE w <= n
  <2>1. <<n, w>> \notin R /\ n \in Nat /\ w \in Nat
    BY <1>2
  <2> QED
    BY <2>1
<1> QED
  BY <1>3

\* One that is bounded has a greatest one.
LEMMA GreatestExists ==
    ASSUME NEW b \in Nat, NEW S \in SUBSET (0 .. b), S # {}
    PROVE  \E w \in S : \A n \in S : n <= w
<1> DEFINE T == {b - n : n \in S}
<1>1. \A n \in S : n \in Nat /\ b - n \in Nat /\ b - n \in T
  OBVIOUS
<1>2. T \in SUBSET Nat /\ T # {}
  BY <1>1
<1>3. PICK l \in T : \A n \in T : l <= n
  <2> HIDE DEF T
  <2> QED
    BY <1>2, LeastExists
<1>4. PICK w \in S : l = b - w
  BY <1>3
<1>5. ASSUME NEW n \in S PROVE n <= w
  <2>1. l <= b - n
    BY <1>1, <1>3
  <2> QED
    BY <1>1, <1>4, <2>1
<1> QED
  BY <1>5

\* Induction in which what is below a number is known, ...
LEMMA UpInduction ==
    ASSUME NEW S, \A n \in Nat : (\A w \in 0 .. n - 1 : w \in S) => n \in S
    PROVE  \A n \in Nat : n \in S
<1> DEFINE T == {n \in Nat : n \notin S}
<1> SUFFICES ASSUME T # {} PROVE FALSE
  OBVIOUS
<1>1. T \in SUBSET Nat
  OBVIOUS
<1>2. PICK w \in T : \A n \in T : w <= n
  <2> HIDE DEF T
  <2> QED
    BY <1>1, LeastExists
<1>3. \A n \in 0 .. w - 1 : n \in S
  <2> SUFFICES ASSUME NEW n \in 0 .. w - 1, n \notin S PROVE FALSE
    OBVIOUS
  <2>1. n \in T /\ n < w
    BY <1>2
  <2> QED
    BY <1>2, <2>1
<1> QED
  BY <1>2, <1>3

\* ... and one in which what is above it is known, as is everything from b on
LEMMA DownInduction ==
    ASSUME NEW b \in Nat, NEW S, \A n \in Nat : n >= b => n \in S,
           \A n \in 0 .. b - 1 : (\A w \in Nat : w > n => w \in S) => n \in S
    PROVE  \A n \in Nat : n \in S
<1> DEFINE T == {n \in 0 .. b : n \notin S}
<1> SUFFICES ASSUME NEW n \in Nat, n \notin S PROVE FALSE
  OBVIOUS
<1>1. n \in T
  OBVIOUS
<1>2. PICK w \in T : \A k \in T : k <= w
  <2>1. T \in SUBSET (0 .. b) /\ T # {}
    BY <1>1
  <2> HIDE DEF T
  <2> QED
    BY <2>1, GreatestExists
<1>3. w \in 0 .. b - 1
  BY <1>2
<1>4. \A k \in Nat : k > w => k \in S
  <2> SUFFICES ASSUME NEW k \in Nat, k > w, k \notin S PROVE FALSE
    OBVIOUS
  <2>1. k \in T
    OBVIOUS
  <2> QED
    BY <1>2, <2>1
<1> QED
  BY <1>2, <1>3, <1>4

\* Functions over the natural numbers, as sets without a structure
Series(V) == [Nat -> V]
Makers(V) == [Nat \X V -> V]

\* Every number that is no end has a later one next to it, and from b on all are ends.
Ascends(b, ends, next) ==
    /\ \A k \in Nat : k >= b => k \in ends
    /\ \A k \in Nat : k \notin ends => next[k] > k

Follows(g, ends, last, next, make) ==
    \A k \in Nat : g[k] = IF k \in ends THEN last[k] ELSE make[<<k, g[next[k]]>>]

\* A function over the natural numbers each of whose values is made from a later one
\* exists, if from b on the values are given.
LEMMA LaterExists ==
    ASSUME NEW b \in Nat, NEW V, NEW ends, NEW last \in Series(V), NEW next \in Series(Nat),
           NEW make \in Makers(V), Ascends(b, ends, next)
    PROVE  \E g \in Series(V) : Follows(g, ends, last, next, make)
<1> USE DEF Series, Makers, Ascends, Follows
<1> DEFINE Good(g, n) == \A k \in Nat : k >= n =>
                            g[k] = IF k \in ends THEN last[k] ELSE make[<<k, g[next[k]]>>]
           S == {n \in Nat : \E g \in [Nat -> V] : Good(g, n)}
<1>1. ASSUME NEW n \in Nat, n >= b PROVE n \in S
  <2>1. Good(last, n)
    BY <1>1
  <2> QED
    BY <2>1
<1>2. ASSUME NEW n \in 0 .. b - 1, \A w \in Nat : w > n => w \in S PROVE n \in S
  <2>1. PICK h \in [Nat -> V] : Good(h, n + 1)
    <3> HIDE DEF Good
    <3>1. n + 1 \in Nat /\ n + 1 > n
      OBVIOUS
    <3>2. n + 1 \in S
      BY <1>2, <3>1
    <3> QED
      BY <3>2
  <2> DEFINE v == IF n \in ends THEN last[n] ELSE make[<<n, h[next[n]]>>]
             g == [h EXCEPT ![n] = v]
  <2>2. v \in V
    <3>1. h[next[n]] \in V /\ n \in Nat
      OBVIOUS
    <3> QED
      BY <3>1
  <2>3. g \in [Nat -> V] /\ g[n] = v /\ \A k \in Nat : k > n => g[k] = h[k]
    BY <2>2
  <2> HIDE DEF g
  <2>4. ASSUME NEW k \in Nat, k >= n
        PROVE  g[k] = IF k \in ends THEN last[k] ELSE make[<<k, g[next[k]]>>]
    <3>1. k \notin ends => next[k] \in Nat /\ next[k] > n
      BY <2>4
    <3>2. k \notin ends => g[next[k]] = h[next[k]]
      BY <2>3, <3>1
    <3>3. CASE k = n
      BY <2>3, <3>2, <3>3
    <3>4. CASE k # n
      <4>1. k >= n + 1 /\ g[k] = h[k]
        BY <2>3, <2>4, <3>4
      <4>2. h[k] = IF k \in ends THEN last[k] ELSE make[<<k, h[next[k]]>>]
        BY <2>1, <4>1
      <4> QED
        BY <3>2, <4>1, <4>2
    <3> QED
      BY <3>3, <3>4
  <2>5. Good(g, n)
    BY <2>4
  <2> HIDE DEF Good
  <2> QED
    BY <2>3, <2>5
<1> HIDE DEF S
<1>3. \A n \in Nat : n \in S
  BY <1>1, <1>2, DownInduction
<1>4. PICK g \in [Nat -> V] : Good(g, 0)
  BY <1>3 DEF S
<1> QED
  BY <1>4

Builders(V) == [Nat \X Series(V) -> V]
LooksBack(V, make) ==
    \A n \in Nat, g \in Series(V), h \in Series(V) :
       (\A w \in 0 .. n - 1 : g[w] = h[w]) => make[<<n, g>>] = make[<<n, h>>]
Built(g, make) == \A n \in Nat : g[n] = make[<<n, g>>]

\* A function over the natural numbers each of whose values is made from those below it
\* exists.
LEMMA EarlierExists ==
    ASSUME NEW V, NEW v \in V, NEW make \in Builders(V), LooksBack(V, make)
    PROVE  \E g \in Series(V) : Built(g, make)
<1> DEFINE W == Series(V)
<1>0. /\ W = [Nat -> V] /\ make \in [Nat \X W -> V]
      /\ \A n \in Nat, g \in W, h \in W :
            (\A w \in 0 .. n - 1 : g[w] = h[w]) => make[<<n, g>>] = make[<<n, h>>]
  BY DEF Series, Builders, LooksBack
<1> SUFFICES \E g \in W : \A n \in Nat : g[n] = make[<<n, g>>]
  BY DEF Built
<1> HIDE DEF W
<1> USE <1>0
<1> DEFINE Good(g, n) == \A w \in 0 .. n : g[w] = make[<<w, g>>]
           S == {n \in Nat : \E g \in W : Good(g, n)}
<1>1. ASSUME NEW n \in Nat, \A w \in 0 .. n - 1 : w \in S PROVE n \in S
  <2>1. PICK h \in W : \A w \in 0 .. n - 1 : h[w] = make[<<w, h>>]
    <3>1. CASE n = 0
      <4>1. PICK h \in W : TRUE
        <5>1. [w \in Nat |-> v] \in W
          OBVIOUS
        <5> QED
          BY <5>1
      <4>2. \A w \in 0 .. n - 1 : h[w] = make[<<w, h>>]
        BY <3>1
      <4> QED
        BY <4>2
    <3>2. CASE n # 0
      <4>1. n - 1 \in 0 .. n - 1
        BY <3>2
      <4>2. n - 1 \in S
        BY <1>1, <4>1
      <4>3. PICK h \in W : Good(h, n - 1)
        <5> HIDE DEF Good
        <5> QED
          BY <4>2
      <4>4. 0 .. n - 1 = 0 .. (n - 1)
        OBVIOUS
      <4> QED
        BY <4>3, <4>4
    <3> QED
      BY <3>1, <3>2
  <2> DEFINE g == [h EXCEPT ![n] = make[<<n, h>>]]
  <2>2. make[<<n, h>>] \in V
    OBVIOUS
  <2>3. g \in W /\ g[n] = make[<<n, h>>] /\ \A w \in 0 .. n - 1 : g[w] = h[w]
    BY <2>2
  <2> HIDE DEF g
  <2>4. ASSUME NEW w \in 0 .. n PROVE g[w] = make[<<w, g>>]
    <3>1. w \in Nat /\ \A l \in 0 .. w - 1 : g[l] = h[l]
      BY <2>3
    <3>2. make[<<w, g>>] = make[<<w, h>>]
      BY <2>3, <3>1
    <3>3. CASE w = n
      BY <2>3, <3>2, <3>3
    <3>4. CASE w # n
      <4>1. w \in 0 .. n - 1
        BY <3>4
      <4> QED
        BY <2>1, <2>3, <3>2, <4>1
    <3> QED
      BY <3>3, <3>4
  <2> QED
    BY <2>3, <2>4
<1>2. ASSUME NEW n \in Nat, NEW l \in Nat, NEW g \in W, NEW h \in W, Good(g, n), Good(h, l)
      PROVE  \A w \in Nat : w <= n /\ w <= l => g[w] = h[w]
  <2> DEFINE E == {w \in Nat : w <= n /\ w <= l => g[w] = h[w]}
  <2>1. ASSUME NEW w \in Nat, \A k \in 0 .. w - 1 : k \in E PROVE w \in E
    <3> SUFFICES ASSUME w <= n, w <= l PROVE g[w] = h[w]
      OBVIOUS
    <3>1. \A k \in 0 .. w - 1 : g[k] = h[k]
      BY <2>1
    <3>2. make[<<w, g>>] = make[<<w, h>>]
      BY <3>1
    <3>3. w \in 0 .. n /\ w \in 0 .. l
      OBVIOUS
    <3> QED
      BY <1>2, <3>2, <3>3
  <2> HIDE DEF E
  <2>2. \A w \in Nat : w \in E
    BY <2>1, UpInduction
  <2> QED
    BY <2>2 DEF E
<1> HIDE DEF S
<1>3. \A n \in Nat : n \in S
  BY <1>1, UpInduction
<1> DEFINE pick == [n \in Nat |-> CHOOSE g \in W : Good(g, n)]
           f == [n \in Nat |-> pick[n][n]]
<1>4. ASSUME NEW n \in Nat PROVE pick[n] \in W /\ Good(pick[n], n)
  <2>1. \E g \in W : Good(g, n)
    BY <1>3 DEF S
  <2> HIDE DEF Good
  <2> QED
    BY <2>1
<1> HIDE DEF pick
<1>5. f \in W /\ \A n \in Nat : f[n] = pick[n][n]
  <2>1. ASSUME NEW n \in Nat PROVE pick[n][n] \in V
    BY <1>4
  <2> QED
    BY <2>1
<1> HIDE DEF f
<1>6. ASSUME NEW n \in Nat PROVE f[n] = make[<<n, f>>]
  <2>1. ASSUME NEW w \in 0 .. n - 1 PROVE f[w] = pick[n][w]
    <3>1. w \in Nat /\ w <= n
      OBVIOUS
    <3>2. pick[w] \in W /\ Good(pick[w], w) /\ pick[n] \in W /\ Good(pick[n], n)
      BY <1>4, <3>1
    <3> HIDE DEF Good
    <3>3. pick[w][w] = pick[n][w]
      BY <1>2, <3>1, <3>2
    <3> QED
      BY <1>5, <3>1, <3>3
  <2>2. pick[n] \in W /\ pick[n][n] = make[<<n, pick[n]>>]
    <3>1. pick[n] \in W /\ Good(pick[n], n)
      BY <1>4
    <3>2. n \in 0 .. n
      OBVIOUS
    <3> QED
      BY <3>1, <3>2
  <2>3. make[<<n, pick[n]>>] = make[<<n, f>>]
    BY <1>5, <2>1, <2>2
  <2> QED
    BY <1>5, <2>2, <2>3
<1> QED
  BY <1>5, <1>6

-----------------------------------------------------------------------------
(* Texts and the places in them *)

AnyText == Seq(Characters)

\* Two texts with the same characters are the same.
LEMMA SameText ==
    ASSUME NEW S, NEW x \in Seq(S), NEW y \in Seq(S), Len(x) = Len(y), \A k \in 1 .. Len(x) : x[k] = y[k]
    PROVE  x = y
BY SeqEqual

\* The characters of a part of a text
LEMMA PartIs ==
    ASSUME NEW S, NEW x \in Seq(S), NEW a \in 0 .. Len(x), NEW b \in a .. Len(x)
    PROVE  /\ SubSeq(x, a + 1, b) \in Seq(S) /\ Len(SubSeq(x, a + 1, b)) = b - a
           /\ \A k \in 1 .. b - a : SubSeq(x, a + 1, b)[k] = x[a + k]
<1> DEFINE s == SubSeq(x, a + 1, b)
<1>1. \A k \in a + 1 .. b : x[k] \in S
  OBVIOUS
<1>2. a \in Nat /\ b \in Nat /\ a + 1 \in Int /\ b \in Int /\ a <= b
  OBVIOUS
<1>3. /\ SubSeq(x, a + 1, b) \in Seq(S)
      /\ Len(SubSeq(x, a + 1, b)) = IF a + 1 <= b THEN b - (a + 1) + 1 ELSE 0
      /\ \A k \in 1 .. b - (a + 1) + 1 : SubSeq(x, a + 1, b)[k] = x[a + 1 + k - 1]
  BY <1>1, <1>2, SubSeqProperties
<1>4. /\ s \in Seq(S) /\ Len(s) = IF a + 1 <= b THEN b - (a + 1) + 1 ELSE 0
      /\ \A k \in 1 .. b - (a + 1) + 1 : s[k] = x[a + 1 + k - 1]
  BY <1>3
<1> HIDE DEF s
<1>5. s \in Seq(S) /\ Len(s) = b - a /\ \A k \in 1 .. b - a : s[k] = x[a + k]
  BY <1>2, <1>4
<1> QED
  BY <1>5 DEF s

\* ... of its first i characters, ...
LEMMA TakeIs ==
    ASSUME NEW S, NEW x \in Seq(S), NEW n \in 0 .. Len(x)
    PROVE  Take(x, n) \in Seq(S) /\ Len(Take(x, n)) = n /\ \A k \in 1 .. n : Take(x, n)[k] = x[k]
<1>1. 0 \in 0 .. Len(x) /\ 0 + 1 = 1 /\ n - 0 = n /\ \A k \in 1 .. n : 0 + k = k
  OBVIOUS
<1>2. /\ SubSeq(x, 0 + 1, n) \in Seq(S) /\ Len(SubSeq(x, 0 + 1, n)) = n - 0
      /\ \A k \in 1 .. n - 0 : SubSeq(x, 0 + 1, n)[k] = x[0 + k]
  BY <1>1, PartIs
<1> QED
  BY <1>1, <1>2 DEF Take

\* ... and of what follows them
LEMMA DropIs ==
    ASSUME NEW S, NEW x \in Seq(S), NEW n \in 0 .. Len(x)
    PROVE  /\ Drop(x, n) \in Seq(S) /\ Len(Drop(x, n)) = Len(x) - n
           /\ \A k \in 1 .. Len(x) - n : Drop(x, n)[k] = x[n + k]
<1>1. Len(x) \in n .. Len(x)
  OBVIOUS
<1> QED
  BY <1>1, PartIs DEF Drop

\* A text is found where all its characters are.
LEMMA AtIs ==
    ASSUME NEW S, NEW x \in Seq(S), NEW v \in Seq(S), NEW k \in Nat
    PROVE  At(x, v, k) <=> k + Len(v) <= Len(x) /\ \A i \in 1 .. Len(v) : x[k + i] = v[i]
<1> DEFINE l == Len(v)
           s == SubSeq(x, k + 1, k + l)
<1> SUFFICES ASSUME k + l <= Len(x)
             PROVE  s = v <=> \A i \in 1 .. l : x[k + i] = v[i]
  BY DEF At
<1>1. l \in Nat /\ k \in 0 .. Len(x) /\ k + l \in k .. Len(x) /\ k + l - k = l
  OBVIOUS
<1>2. s \in Seq(S) /\ Len(s) = l /\ \A i \in 1 .. l : s[i] = x[k + i]
  <2> HIDE DEF l
  <2>1. /\ SubSeq(x, k + 1, k + l) \in Seq(S) /\ Len(SubSeq(x, k + 1, k + l)) = k + l - k
        /\ \A i \in 1 .. k + l - k : SubSeq(x, k + 1, k + l)[i] = x[k + i]
    BY <1>1, PartIs
  <2> QED
    BY <1>1, <2>1
<1> HIDE DEF s
<1>3. (\A i \in 1 .. l : x[k + i] = v[i]) => s = v
  BY <1>1, <1>2, SameText
<1> QED
  BY <1>1, <1>2, <1>3

\* indexOf() finds the first place, ...
LEMMA FirstIs ==
    ASSUME NEW x \in AnyText, NEW f \in AnyText, NEW k \in Nat, NEW p, p = indexOf(x, f, k)
    PROVE  \/ p = -1 /\ \A l \in Nat : l >= k => ~At(x, f, l)
           \/ /\ p \in k .. Len(x) - Len(f) /\ At(x, f, p)
              /\ \A l \in k .. p - 1 : ~At(x, f, l)
<1> DEFINE ks == {l \in k .. Len(x) : At(x, f, l)}
<1>1. Len(x) \in Nat /\ Len(f) \in Nat
  BY DEF AnyText
<1>2. \A l \in Nat : At(x, f, l) => l <= Len(x) - Len(f)
  BY <1>1 DEF At
<1>3. CASE ks = {}
  BY <1>1, <1>2, <1>3 DEF indexOf
<1>4. CASE ks # {}
  <2>1. ks \in SUBSET Nat
    OBVIOUS
  <2>2. p = CHOOSE l \in ks : \A j \in ks : l <= j
    BY <1>4 DEF indexOf
  <2>3. p \in ks /\ \A j \in ks : p <= j
    <3> HIDE DEF ks
    <3>1. \E l \in ks : \A j \in ks : l <= j
      BY <1>4, <2>1, LeastExists
    <3> QED
      BY <2>2, <3>1
  <2>4. p \in k .. Len(x) - Len(f) /\ At(x, f, p)
    BY <1>1, <1>2, <2>3
  <2>5. \A l \in k .. p - 1 : ~At(x, f, l)
    <3> SUFFICES ASSUME NEW l \in k .. p - 1, At(x, f, l) PROVE FALSE
      OBVIOUS
    <3>1. l \in ks
      BY <1>1, <2>4
    <3> QED
      BY <2>3, <2>4, <3>1
  <2> QED
    BY <2>4, <2>5
<1> QED
  BY <1>3, <1>4

\* ... and lastIndexOf() the last.
LEMMA LastIs ==
    ASSUME NEW x \in AnyText, NEW f \in AnyText, NEW k \in Nat, NEW p, p = lastIndexOf(x, f, k)
    PROVE  \/ p = -1 /\ \A l \in 0 .. k : ~At(x, f, l)
           \/ /\ p \in 0 .. k /\ p + Len(f) <= Len(x) /\ At(x, f, p)
              /\ \A l \in p + 1 .. k : ~At(x, f, l)
<1> DEFINE ks == {l \in 0 .. k : At(x, f, l)}
<1>1. CASE ks = {}
  BY <1>1 DEF lastIndexOf
<1>2. CASE ks # {}
  <2>1. ks \in SUBSET (0 .. k)
    OBVIOUS
  <2>2. p = CHOOSE l \in ks : \A j \in ks : j <= l
    BY <1>2 DEF lastIndexOf
  <2>3. p \in ks /\ \A j \in ks : j <= p
    <3> HIDE DEF ks
    <3>1. \E l \in ks : \A j \in ks : j <= l
      BY <1>2, <2>1, GreatestExists
    <3> QED
      BY <2>2, <3>1
  <2>4. p \in 0 .. k /\ At(x, f, p) /\ p + Len(f) <= Len(x)
    BY <2>3 DEF At
  <2>5. \A l \in p + 1 .. k : ~At(x, f, l)
    <3> SUFFICES ASSUME NEW l \in p + 1 .. k, At(x, f, l) PROVE FALSE
      OBVIOUS
    <3>1. l \in ks
      BY <2>4
    <3> QED
      BY <2>3, <2>4, <3>1
  <2> QED
    BY <2>4, <2>5
<1> QED
  BY <1>1, <1>2

-----------------------------------------------------------------------------
(* What the loops of replace() make, place by place *)

\* What comes next from place k: the rest, or what is replaced and what follows it.
ShrinkFrom(x, f, r, k, y) ==
    IF indexOf(x, f, k) < 0 THEN Drop(x, k) ELSE SubSeq(x, k + 1, indexOf(x, f, k)) \o r \o y

\* The loop from the left makes, from each place on, what comes next.
LEMMA ShrinkIs ==
    ASSUME NEW x \in AnyText, NEW f \in AnyText, NEW r \in AnyText, f # <<>>
    PROVE  \E g \in Series(AnyText) :
              /\ Shrink(x, f, r) = g[0]
              /\ \A k \in Nat : g[k] = ShrinkFrom(x, f, r, k, g[indexOf(x, f, k) + Len(f)])
<1> DEFINE p(k) == indexOf(x, f, k)
           b == Len(x) + 1
           ends == {k \in Nat : p(k) < 0}
           last == [k \in Nat |-> IF p(k) < 0 THEN Drop(x, k) ELSE <<>>]
           next == [k \in Nat |-> IF p(k) < 0 THEN 0 ELSE p(k) + Len(f)]
           make == [a \in Nat \X AnyText |->
                      IF p(a[1]) < 0 THEN <<>> ELSE SubSeq(x, a[1] + 1, p(a[1])) \o r \o a[2]]
           Solves(u) == u = [k \in Nat |-> LET q == indexOf(x, f, k)
                                        IN IF q < 0 THEN Drop(x, k) ELSE SubSeq(x, k + 1, q) \o r \o u[q + Len(f)]]
<1>1. b \in Nat /\ Len(x) \in Nat /\ Len(f) \in Nat /\ Len(f) > 0 /\ <<>> \in AnyText
  BY DEF AnyText
<1>2. ASSUME NEW k \in Nat
      PROVE  p(k) = -1 \/ (p(k) \in Nat /\ p(k) >= k /\ p(k) + Len(f) <= Len(x))
  BY <1>1, FirstIs
<1>3. ASSUME NEW k \in Nat, k \in ends PROVE Drop(x, k) \in AnyText
  <2>1. CASE k <= Len(x)
    BY <1>1, <2>1, DropIs DEF AnyText
  <2>2. CASE k > Len(x)
    <3>1. k + 1 \in Int /\ Len(x) \in Int /\ Len(x) < k + 1
      BY <1>1, <2>2
    <3>2. Drop(x, k) = <<>>
      BY <3>1, SubSeqEmpty DEF Drop
    <3> QED
      BY <1>1, <3>2
  <2> QED
    BY <1>1, <2>1, <2>2
<1>4. ASSUME NEW k \in Nat, k \notin ends, NEW y \in AnyText
      PROVE  SubSeq(x, k + 1, p(k)) \o r \o y \in AnyText
  <2>1. k \in 0 .. Len(x) /\ p(k) \in k .. Len(x)
    BY <1>1, <1>2, <1>4
  <2> HIDE DEF p
  <2>2. SubSeq(x, k + 1, p(k)) \in Seq(Characters)
    BY <2>1, PartIs DEF AnyText
  <2>3. SubSeq(x, k + 1, p(k)) \o r \in Seq(Characters)
    BY <2>2, ConcatProperties DEF AnyText
  <2> QED
    BY <2>3, ConcatProperties DEF AnyText
<1>5. last \in [Nat -> AnyText] /\ next \in [Nat -> Nat] /\ make \in [Nat \X AnyText -> AnyText]
  <2>1. \A k \in Nat : (IF p(k) < 0 THEN Drop(x, k) ELSE <<>>) \in AnyText
    BY <1>1, <1>3
  <2>2. \A k \in Nat : (IF p(k) < 0 THEN 0 ELSE p(k) + Len(f)) \in Nat
    BY <1>1, <1>2
  <2>3. \A a \in Nat \X AnyText :
           (IF p(a[1]) < 0 THEN <<>> ELSE SubSeq(x, a[1] + 1, p(a[1])) \o r \o a[2]) \in AnyText
    BY <1>1, <1>4
  <2> HIDE DEF p
  <2> QED
    BY <2>1, <2>2, <2>3
<1>6. \A k \in Nat : k >= b => k \in ends
  BY <1>1, <1>2
<1>7. \A k \in Nat : k \notin ends => next[k] = p(k) + Len(f) /\ next[k] > k
  BY <1>1, <1>2
<1>8. \A k \in Nat : k \in ends => last[k] = Drop(x, k)
  OBVIOUS
<1>9. \A k \in Nat, y \in AnyText : k \notin ends => make[<<k, y>>] = SubSeq(x, k + 1, p(k)) \o r \o y
  OBVIOUS
<1>10. \A k \in Nat : k \in ends <=> p(k) < 0
  OBVIOUS
<1> HIDE DEF last, next, make, ends, b
<1>11. PICK g \in [Nat -> AnyText] :
          \A k \in Nat : g[k] = IF k \in ends THEN last[k] ELSE make[<<k, g[next[k]]>>]
  <2>1. b \in Nat
    BY <1>1 DEF b
  <2>2. Ascends(b, ends, next)
    BY <1>6, <1>7 DEF Ascends
  <2>3. last \in Series(AnyText) /\ make \in Makers(AnyText) /\ next \in Series(Nat)
    BY <1>5 DEF Series, Makers
  <2>4. \E g \in Series(AnyText) : Follows(g, ends, last, next, make)
    BY <2>1, <2>2, <2>3, LaterExists
  <2> QED
    BY <2>4 DEF Series, Follows
<1>12. ASSUME NEW k \in Nat PROVE g[k] = ShrinkFrom(x, f, r, k, g[indexOf(x, f, k) + Len(f)])
  <2>1. g[k] = IF k \in ends THEN last[k] ELSE make[<<k, g[next[k]]>>]
    BY <1>11
  <2>2. next[k] \in Nat /\ g[next[k]] \in AnyText
    BY <1>5, <1>11
  <2>3. CASE k \in ends
    BY <1>8, <1>10, <2>1, <2>3 DEF ShrinkFrom
  <2>4. CASE k \notin ends
    BY <1>7, <1>9, <1>10, <2>1, <2>2, <2>4 DEF ShrinkFrom
  <2> QED
    BY <2>3, <2>4
<1>13. Shrink(x, f, r) = (CHOOSE u : Solves(u))[0]
  BY DEF Shrink
<1>14. Solves(g)
  <2>1. \A k \in Nat : g[k] = IF p(k) < 0 THEN Drop(x, k) ELSE SubSeq(x, k + 1, p(k)) \o r \o g[p(k) + Len(f)]
    BY <1>12 DEF ShrinkFrom
  <2>2. g = [k \in Nat |-> g[k]]
    OBVIOUS
  <2> QED
    BY <2>1, <2>2
<1>15. ASSUME NEW u, Solves(u) PROVE u[0] = g[0]
  <2> DEFINE S == {k \in Nat : u[k] = g[k]}
  <2>1. ASSUME NEW k \in Nat PROVE u[k] = ShrinkFrom(x, f, r, k, u[p(k) + Len(f)])
    BY <1>15 DEF ShrinkFrom
  <2> HIDE DEF Solves
  <2>2. ASSUME NEW k \in Nat, k \in ends PROVE k \in S
    BY <1>10, <1>12, <2>1, <2>2 DEF ShrinkFrom
  <2>3. ASSUME NEW k \in Nat, k \notin ends, p(k) + Len(f) \in S PROVE k \in S
    <3>1. u[p(k) + Len(f)] = g[p(k) + Len(f)]
      BY <2>3
    <3> QED
      BY <1>12, <2>1, <3>1
  <2>4. ASSUME NEW k \in 0 .. b - 1, \A w \in Nat : w > k => w \in S PROVE k \in S
    <3>1. k \in Nat
      OBVIOUS
    <3>2. CASE k \in ends
      BY <2>2, <3>1, <3>2
    <3>3. CASE k \notin ends
      <4>1. p(k) \in Nat /\ p(k) >= k
        BY <1>2, <1>10, <3>1, <3>3
      <4>2. p(k) + Len(f) \in Nat /\ p(k) + Len(f) > k
        <5> HIDE DEF p
        <5> QED
          BY <1>1, <3>1, <4>1
      <4> HIDE DEF S
      <4> QED
        BY <2>3, <2>4, <3>1, <3>3, <4>2
    <3> QED
      BY <3>2, <3>3
  <2> HIDE DEF S
  <2>5. \A k \in Nat : k \in S
    BY <1>1, <1>6, <2>2, <2>4, DownInduction
  <2> QED
    BY <2>5 DEF S
<1> HIDE DEF Solves
<1>16. (CHOOSE u : Solves(u))[0] = g[0]
  BY <1>14, <1>15
<1> QED
  BY <1>12, <1>13, <1>16 DEF Series

OccursFrom(x, f, k, n) == IF indexOf(x, f, k) < 0 THEN 0 ELSE 1 + n

\* What is counted from each place on exists, and is what occurrences() counts.
LEMMA OccurrencesIs ==
    ASSUME NEW x \in AnyText, NEW f \in AnyText, f # <<>>
    PROVE  \E g \in Series(Nat) :
              /\ Occurrences(x, f) = g[0]
              /\ \A k \in Nat : g[k] = OccursFrom(x, f, k, g[indexOf(x, f, k) + Len(f)])
<1> DEFINE p(k) == indexOf(x, f, k)
           b == Len(x) + 1
           ends == {k \in Nat : p(k) < 0}
           last == [k \in Nat |-> 0]
           next == [k \in Nat |-> IF p(k) < 0 THEN 0 ELSE p(k) + Len(f)]
           make == [a \in Nat \X Nat |-> 1 + a[2]]
           Solves(u) == u = [k \in Nat |-> LET q == indexOf(x, f, k)
                                        IN IF q < 0 THEN 0 ELSE 1 + u[q + Len(f)]]
<1>1. b \in Nat /\ Len(x) \in Nat /\ Len(f) \in Nat /\ Len(f) > 0
  BY DEF AnyText
<1>2. ASSUME NEW k \in Nat
      PROVE  p(k) = -1 \/ (p(k) \in Nat /\ p(k) >= k /\ p(k) + Len(f) <= Len(x))
  BY <1>1, FirstIs
<1>5. last \in [Nat -> Nat] /\ next \in [Nat -> Nat] /\ make \in [Nat \X Nat -> Nat]
  <2>1. \A k \in Nat : (IF p(k) < 0 THEN 0 ELSE p(k) + Len(f)) \in Nat
    BY <1>1, <1>2
  <2> HIDE DEF p
  <2> QED
    BY <2>1
<1>6. \A k \in Nat : k >= b => k \in ends
  BY <1>1, <1>2
<1>7. \A k \in Nat : k \notin ends => next[k] = p(k) + Len(f) /\ next[k] > k
  BY <1>1, <1>2
<1>8. \A k \in Nat : last[k] = 0
  OBVIOUS
<1>9. \A k \in Nat, y \in Nat : make[<<k, y>>] = 1 + y
  OBVIOUS
<1>10. \A k \in Nat : k \in ends <=> p(k) < 0
  OBVIOUS
<1> HIDE DEF last, next, make, ends, b
<1>11. PICK g \in [Nat -> Nat] :
          \A k \in Nat : g[k] = IF k \in ends THEN last[k] ELSE make[<<k, g[next[k]]>>]
  <2>1. b \in Nat
    BY <1>1 DEF b
  <2>2. Ascends(b, ends, next)
    BY <1>6, <1>7 DEF Ascends
  <2>3. last \in Series(Nat) /\ make \in Makers(Nat) /\ next \in Series(Nat)
    BY <1>5 DEF Series, Makers
  <2>4. \E g \in Series(Nat) : Follows(g, ends, last, next, make)
    BY <2>1, <2>2, <2>3, LaterExists
  <2> QED
    BY <2>4 DEF Series, Follows
<1>12. ASSUME NEW k \in Nat PROVE g[k] = OccursFrom(x, f, k, g[indexOf(x, f, k) + Len(f)])
  <2>1. g[k] = IF k \in ends THEN last[k] ELSE make[<<k, g[next[k]]>>]
    BY <1>11
  <2>2. next[k] \in Nat /\ g[next[k]] \in Nat
    BY <1>5, <1>11
  <2>3. CASE k \in ends
    BY <1>8, <1>10, <2>1, <2>3 DEF OccursFrom
  <2>4. CASE k \notin ends
    BY <1>7, <1>9, <1>10, <2>1, <2>2, <2>4 DEF OccursFrom
  <2> QED
    BY <2>3, <2>4
<1>13. Occurrences(x, f) = (CHOOSE u : Solves(u))[0]
  BY DEF Occurrences
<1>14. Solves(g)
  <2>1. \A k \in Nat : g[k] = IF p(k) < 0 THEN 0 ELSE 1 + g[p(k) + Len(f)]
    BY <1>12 DEF OccursFrom
  <2>2. g = [k \in Nat |-> g[k]]
    OBVIOUS
  <2> QED
    BY <2>1, <2>2
<1>15. ASSUME NEW u, Solves(u) PROVE u[0] = g[0]
  <2> DEFINE S == {k \in Nat : u[k] = g[k]}
  <2>1. ASSUME NEW k \in Nat PROVE u[k] = OccursFrom(x, f, k, u[p(k) + Len(f)])
    BY <1>15 DEF OccursFrom
  <2> HIDE DEF Solves
  <2>2. ASSUME NEW k \in Nat, k \in ends PROVE k \in S
    BY <1>10, <1>12, <2>1, <2>2 DEF OccursFrom
  <2>3. ASSUME NEW k \in Nat, k \notin ends, p(k) + Len(f) \in S PROVE k \in S
    <3>1. u[p(k) + Len(f)] = g[p(k) + Len(f)]
      BY <2>3
    <3> QED
      BY <1>12, <2>1, <3>1
  <2>4. ASSUME NEW k \in 0 .. b - 1, \A w \in Nat : w > k => w \in S PROVE k \in S
    <3>1. k \in Nat
      OBVIOUS
    <3>2. CASE k \in ends
      BY <2>2, <3>1, <3>2
    <3>3. CASE k \notin ends
      <4>1. p(k) \in Nat /\ p(k) >= k
        BY <1>2, <1>10, <3>1, <3>3
      <4>2. p(k) + Len(f) \in Nat /\ p(k) + Len(f) > k
        <5> HIDE DEF p
        <5>1. Len(f) \in Nat /\ Len(f) > 0
          BY <1>1
        <5>2. k \in Int /\ p(k) \in Int /\ p(k) >= 0 /\ p(k) >= k
          BY <3>1, <4>1
        <5>3. p(k) + Len(f) >= 0
          BY <5>1, <5>2
        <5>4. p(k) + Len(f) > k
          BY <5>1, <5>2
        <5>5. p(k) + Len(f) \in Int
          BY <5>1, <5>2
        <5> QED
          BY <5>3, <5>4, <5>5
      <4> HIDE DEF S
      <4> QED
        BY <2>3, <2>4, <3>1, <3>3, <4>2
    <3> QED
      BY <3>2, <3>3
  <2> HIDE DEF S
  <2>5. \A k \in Nat : k \in S
    BY <1>1, <1>6, <2>2, <2>4, DownInduction
  <2> QED
    BY <2>5 DEF S
<1> HIDE DEF Solves
<1>16. (CHOOSE u : Solves(u))[0] = g[0]
  BY <1>14, <1>15
<1> QED
  BY <1>12, <1>13, <1>16 DEF Series

ReplacedFrom(x, f, r, k, y, z) ==
    IF k >= Len(x) THEN <<>> ELSE IF At(x, f, k) THEN r \o y ELSE <<x[k + 1]>> \o z

\* What Replaced() makes from each place on exists, and Replaced() is that from 0.
LEMMA ReplacedIs ==
    ASSUME NEW x \in AnyText, NEW f \in AnyText, NEW r \in AnyText, f # <<>>
    PROVE  \E g \in Series(AnyText) :
              /\ Replaced(x, f, r) = g[0]
              /\ \A k \in Nat : g[k] = ReplacedFrom(x, f, r, k, g[k + Len(f)], g[k + 1])
<1> DEFINE b == Len(x)
           step(k) == IF At(x, f, k) THEN Len(f) ELSE 1
           put(k) == IF At(x, f, k) THEN r ELSE <<x[k + 1]>>
           ends == {k \in Nat : k >= Len(x)}
           last == [k \in Nat |-> <<>>]
           next == [k \in Nat |-> k + step(k)]
           make == [a \in Nat \X AnyText |-> IF a[1] < Len(x) THEN put(a[1]) \o a[2] ELSE <<>>]
           Solves(u) == u = [k \in Nat |->
                             IF k >= Len(x) THEN <<>>
                             ELSE IF At(x, f, k) THEN r \o u[k + Len(f)] ELSE <<x[k + 1]>> \o u[k + 1]]
<1>1. b \in Nat /\ Len(x) \in Nat /\ Len(f) \in Nat /\ Len(f) > 0 /\ <<>> \in AnyText
  BY DEF AnyText
<1>2. ASSUME NEW k \in Nat PROVE step(k) \in Nat /\ step(k) > 0
  BY <1>1
<1>3. ASSUME NEW k \in Nat, k < Len(x), NEW y \in AnyText PROVE put(k) \o y \in AnyText
  <2>1. <<x[k + 1]>> \in AnyText
    BY <1>1, <1>3 DEF AnyText
  <2>2. put(k) \in Seq(Characters)
    BY <2>1 DEF AnyText
  <2> HIDE DEF put
  <2> QED
    BY <2>2, ConcatProperties DEF AnyText
<1>5. last \in [Nat -> AnyText] /\ next \in [Nat -> Nat] /\ make \in [Nat \X AnyText -> AnyText]
  <2>1. \A k \in Nat : k + step(k) \in Nat
    BY <1>2
  <2>2. \A a \in Nat \X AnyText : (IF a[1] < Len(x) THEN put(a[1]) \o a[2] ELSE <<>>) \in AnyText
    BY <1>1, <1>3
  <2> HIDE DEF put, step
  <2> QED
    BY <1>1, <2>1, <2>2
<1>6. \A k \in Nat : k >= b => k \in ends
  BY <1>1
<1>7. \A k \in Nat : next[k] = k + step(k) /\ next[k] > k
  BY <1>2
<1>8. \A k \in Nat : last[k] = <<>>
  OBVIOUS
<1>9. \A k \in Nat, y \in AnyText : k < Len(x) => make[<<k, y>>] = put(k) \o y
  OBVIOUS
<1>10. \A k \in Nat : k \in ends <=> k >= Len(x)
  OBVIOUS
<1> HIDE DEF last, next, make, ends, b, step, put
<1>11. PICK g \in [Nat -> AnyText] :
          \A k \in Nat : g[k] = IF k \in ends THEN last[k] ELSE make[<<k, g[next[k]]>>]
  <2>1. b \in Nat
    BY <1>1 DEF b
  <2>2. Ascends(b, ends, next)
    BY <1>6, <1>7 DEF Ascends
  <2>3. last \in Series(AnyText) /\ make \in Makers(AnyText) /\ next \in Series(Nat)
    BY <1>5 DEF Series, Makers
  <2>4. \E g \in Series(AnyText) : Follows(g, ends, last, next, make)
    BY <2>1, <2>2, <2>3, LaterExists
  <2> QED
    BY <2>4 DEF Series, Follows
<1>12. ASSUME NEW k \in Nat
       PROVE  g[k] = ReplacedFrom(x, f, r, k, g[k + Len(f)], g[k + 1])
  <2>1. g[k] = IF k \in ends THEN last[k] ELSE make[<<k, g[next[k]]>>]
    BY <1>11
  <2>2. next[k] \in Nat /\ g[next[k]] \in AnyText
    BY <1>5, <1>11
  <2>3. CASE k \in ends
    BY <1>8, <1>10, <2>1, <2>3 DEF ReplacedFrom
  <2>4. CASE k \notin ends
    <3>1. k < Len(x)
      BY <1>1, <1>10, <2>4
    <3>2. g[k] = put(k) \o g[k + step(k)]
      BY <1>7, <1>9, <2>1, <2>2, <2>4, <3>1
    <3>3. CASE At(x, f, k)
      <4>1. step(k) = Len(f) /\ put(k) = r
        BY <3>3 DEF step, put
      <4> QED
        BY <1>1, <3>1, <3>2, <3>3, <4>1 DEF ReplacedFrom
    <3>4. CASE ~At(x, f, k)
      <4>1. step(k) = 1 /\ put(k) = <<x[k + 1]>>
        BY <3>4 DEF step, put
      <4> QED
        BY <1>1, <3>1, <3>2, <3>4, <4>1 DEF ReplacedFrom
    <3> QED
      BY <3>3, <3>4
  <2> QED
    BY <2>3, <2>4
<1>13. Replaced(x, f, r) = (CHOOSE u : Solves(u))[0]
  BY DEF Replaced
<1>14. Solves(g)
  <2>1. \A k \in Nat : g[k] = IF k >= Len(x) THEN <<>>
                              ELSE IF At(x, f, k) THEN r \o g[k + Len(f)] ELSE <<x[k + 1]>> \o g[k + 1]
    BY <1>12 DEF ReplacedFrom
  <2>2. g = [k \in Nat |-> g[k]]
    OBVIOUS
  <2> QED
    BY <2>1, <2>2
<1>15. ASSUME NEW u, Solves(u) PROVE u[0] = g[0]
  <2> DEFINE S == {k \in Nat : u[k] = g[k]}
  <2>1. ASSUME NEW k \in Nat PROVE u[k] = ReplacedFrom(x, f, r, k, u[k + Len(f)], u[k + 1])
    BY <1>15 DEF ReplacedFrom
  <2> HIDE DEF Solves
  <2>2. ASSUME NEW k \in Nat, k \in ends PROVE k \in S
    BY <1>10, <1>12, <2>1, <2>2 DEF ReplacedFrom
  <2>3. ASSUME NEW k \in Nat, k + Len(f) \in S, k + 1 \in S PROVE k \in S
    <3>1. u[k + Len(f)] = g[k + Len(f)] /\ u[k + 1] = g[k + 1]
      BY <2>3
    <3> QED
      BY <1>12, <2>1, <3>1
  <2>4. ASSUME NEW k \in 0 .. b - 1, \A w \in Nat : w > k => w \in S PROVE k \in S
    <3>1. k \in Nat /\ k + Len(f) \in Nat /\ k + Len(f) > k /\ k + 1 \in Nat /\ k + 1 > k
      BY <1>1
    <3>2. k + Len(f) \in S /\ k + 1 \in S
      BY <2>4, <3>1
    <3> HIDE DEF S
    <3> QED
      BY <2>3, <3>1, <3>2
  <2>5. ASSUME NEW k \in Nat, k >= b PROVE k \in S
    BY <1>6, <2>2, <2>5
  <2> HIDE DEF S
  <2>6. \A k \in Nat : k \in S
    BY <1>1, <2>4, <2>5, DownInduction
  <2> QED
    BY <2>6 DEF S
<1> HIDE DEF Solves
<1>16. (CHOOSE u : Solves(u))[0] = g[0]
  BY <1>14, <1>15
<1> QED
  BY <1>12, <1>13, <1>16 DEF Series

\* A text with r in the place of f, at p
PutIn(y, f, r, p) == Take(y, p) \o r \o Drop(y, p + Len(f))

\* It is a text, as long as its parts.
LEMMA PutInIs ==
    ASSUME NEW y \in AnyText, NEW f \in AnyText, NEW r \in AnyText, NEW p \in Nat, p + Len(f) <= Len(y)
    PROVE  /\ PutIn(y, f, r, p) \in AnyText
           /\ Len(PutIn(y, f, r, p)) = Len(y) + Len(r) - Len(f)
<1> DEFINE a == Take(y, p)
           c == Drop(y, p + Len(f))
<1>1. Len(y) \in Nat /\ Len(f) \in Nat /\ Len(r) \in Nat
  BY DEF AnyText
<1>2. p \in 0 .. Len(y) /\ p + Len(f) \in 0 .. Len(y)
  BY <1>1
<1>3. a \in Seq(Characters) /\ Len(a) = p
  BY <1>2, TakeIs DEF AnyText
<1>4. c \in Seq(Characters) /\ Len(c) = Len(y) - (p + Len(f))
  BY <1>2, DropIs DEF AnyText
<1> HIDE DEF a, c
<1> DEFINE d == a \o r
<1>5. d \in Seq(Characters) /\ Len(d) = p + Len(r)
  BY <1>3, ConcatProperties DEF AnyText
<1> HIDE DEF d
<1>6. d \o c \in Seq(Characters) /\ Len(d \o c) = p + Len(r) + (Len(y) - (p + Len(f)))
  <2>1. d \in Seq(Characters) /\ c \in Seq(Characters)
    BY <1>4, <1>5
  <2>2. d \o c \in Seq(Characters) /\ Len(d \o c) = Len(d) + Len(c)
    BY <2>1, ConcatProperties
  <2> QED
    BY <1>4, <1>5, <2>2
<1>7. p + Len(r) + (Len(y) - (p + Len(f))) = Len(y) + Len(r) - Len(f)
  BY <1>1
<1> QED
  BY <1>6, <1>7 DEF PutIn, a, c, d, AnyText

Done(y, f, i) == i < 0 \/ lastIndexOf(y, f, i) < 0

Grows(f, r, g) ==
    \A i \in Int, y \in AnyText :
       g[<<i, y>>] = IF Done(y, f, i) THEN y
                     ELSE g[<<lastIndexOf(y, f, i) - 1, PutIn(y, f, r, lastIndexOf(y, f, i))>>]

\* The loop from the right makes a text, and is one turn after another.
LEMMA GrowIs ==
    ASSUME NEW x \in AnyText, NEW f \in AnyText, NEW r \in AnyText, f # <<>>
    PROVE  Grow(x, f, r) \in AnyText /\ \E g : Grow(x, f, r) = g[<<Len(x) - 1, x>>] /\ Grows(f, r, g)
<1> DEFINE p(y, i) == lastIndexOf(y, f, i)
           new(y, i) == PutIn(y, f, r, p(y, i))
           V == [AnyText -> AnyText]
           make == [a \in Nat \X Series(V) |->
                      [y \in AnyText |-> IF Done(y, f, a[1] - 1) THEN y
                                         ELSE a[2][p(y, a[1] - 1)][new(y, a[1] - 1)]]]
           Solves(u) == u = [s \in Int \X Seq(Characters) |->
                             LET y == s[2]
                                 q == lastIndexOf(y, f, s[1])
                             IN IF s[1] < 0 \/ q < 0 THEN y
                                ELSE u[<<q - 1, Take(y, q) \o r \o Drop(y, q + Len(f))>>]]
<1>1. Len(f) \in Nat /\ Len(x) \in Nat
  BY DEF AnyText
<1>2. ASSUME NEW y \in AnyText, NEW i \in Int, ~Done(y, f, i)
      PROVE  p(y, i) \in 0 .. i /\ new(y, i) \in AnyText
  <2>1. i \in Nat
    BY <1>2 DEF Done
  <2>2. p(y, i) \in 0 .. i /\ p(y, i) + Len(f) <= Len(y)
    BY <1>2, <2>1, LastIs DEF Done
  <2> HIDE DEF p
  <2>3. p(y, i) \in Nat
    BY <2>2
  <2> QED
    BY <2>2, <2>3, PutInIs
<1> HIDE DEF p, new
<1>3. make \in Builders(V)
  <2>1. ASSUME NEW n \in Nat, NEW h \in Series(V), NEW y \in AnyText
        PROVE  (IF Done(y, f, n - 1) THEN y ELSE h[p(y, n - 1)][new(y, n - 1)]) \in AnyText
    <3>1. CASE Done(y, f, n - 1)
      BY <3>1
    <3>2. CASE ~Done(y, f, n - 1)
      <4>1. n - 1 \in Int
        OBVIOUS
      <4>2. p(y, n - 1) \in Nat /\ new(y, n - 1) \in AnyText
        BY <1>2, <3>2, <4>1
      <4>3. h[p(y, n - 1)] \in V
        BY <4>2 DEF Series
      <4> QED
        BY <3>2, <4>2, <4>3
    <3> QED
      BY <3>1, <3>2
  <2>2. ASSUME NEW n \in Nat, NEW h \in Series(V)
        PROVE  [y \in AnyText |-> IF Done(y, f, n - 1) THEN y ELSE h[p(y, n - 1)][new(y, n - 1)]] \in V
    BY <2>1
  <2>3. ASSUME NEW a \in Nat \X Series(V)
        PROVE  [y \in AnyText |-> IF Done(y, f, a[1] - 1) THEN y
                                  ELSE a[2][p(y, a[1] - 1)][new(y, a[1] - 1)]] \in V
    <3>1. a[1] \in Nat /\ a[2] \in Series(V)
      OBVIOUS
    <3> HIDE DEF V
    <3> QED
      BY <2>2, <3>1
  <2> HIDE DEF V
  <2> QED
    BY <2>3 DEF Builders
<1>4. \A n \in Nat, h \in Series(V), y \in AnyText :
         make[<<n, h>>][y] = IF Done(y, f, n - 1) THEN y ELSE h[p(y, n - 1)][new(y, n - 1)]
  OBVIOUS
<1>5. ASSUME NEW n \in Nat, NEW h \in Series(V), NEW k \in Series(V), \A w \in 0 .. n - 1 : h[w] = k[w]
      PROVE  make[<<n, h>>] = make[<<n, k>>]
  <2>1. make[<<n, h>>] \in V /\ make[<<n, k>>] \in V
    <3> HIDE DEF make, V
    <3> QED
      BY <1>3 DEF Builders
  <2> HIDE DEF make
  <2>2. ASSUME NEW y \in AnyText PROVE make[<<n, h>>][y] = make[<<n, k>>][y]
    <3>1. CASE Done(y, f, n - 1)
      BY <1>4, <3>1
    <3>2. CASE ~Done(y, f, n - 1)
      <4>1. n - 1 \in Int
        OBVIOUS
      <4>2. p(y, n - 1) \in 0 .. n - 1
        BY <1>2, <3>2, <4>1
      <4>3. h[p(y, n - 1)] = k[p(y, n - 1)]
        BY <1>5, <4>2
      <4>4. make[<<n, h>>][y] = h[p(y, n - 1)][new(y, n - 1)]
        BY <1>4, <3>2
      <4>5. make[<<n, k>>][y] = k[p(y, n - 1)][new(y, n - 1)]
        BY <1>4, <3>2
      <4> QED
        BY <4>3, <4>4, <4>5
    <3> QED
      BY <3>1, <3>2
  <2> QED
    BY <2>1, <2>2
<1>6. [y \in AnyText |-> y] \in V
  OBVIOUS
<1> HIDE DEF make
<1>7. PICK h \in Series(V) : \A n \in Nat : h[n] = make[<<n, h>>]
  <2> HIDE DEF V
  <2>1. LooksBack(V, make)
    BY <1>5 DEF LooksBack
  <2>2. \E v \in V : TRUE
    BY <1>6
  <2>3. \E h \in Series(V) : Built(h, make)
    BY <1>3, <2>1, <2>2, EarlierExists
  <2> QED
    BY <2>3 DEF Built
<1> DEFINE g == [a \in Int \X AnyText |-> IF a[1] < 0 THEN a[2] ELSE h[a[1] + 1][a[2]]]
<1>8. g \in [Int \X AnyText -> AnyText]
  <2>1. ASSUME NEW a \in Int \X AnyText PROVE (IF a[1] < 0 THEN a[2] ELSE h[a[1] + 1][a[2]]) \in AnyText
    <3>1. a[1] \in Int /\ a[2] \in AnyText
      OBVIOUS
    <3>2. CASE a[1] < 0
      BY <3>1, <3>2
    <3>3. CASE ~(a[1] < 0)
      <4>1. a[1] + 1 \in Nat
        BY <3>1, <3>3
      <4>2. h[a[1] + 1] \in V
        BY <4>1 DEF Series
      <4> QED
        BY <3>1, <3>3, <4>2
    <3> QED
      BY <3>2, <3>3
  <2> QED
    BY <2>1
<1>9. \A i \in Int, y \in AnyText : g[<<i, y>>] = IF i < 0 THEN y ELSE h[i + 1][y]
  OBVIOUS
<1> HIDE DEF g
<1>10. ASSUME NEW i \in Int, NEW y \in AnyText
       PROVE  g[<<i, y>>] = IF Done(y, f, i) THEN y ELSE g[<<p(y, i) - 1, new(y, i)>>]
  <2>1. CASE i < 0
    BY <1>9, <2>1 DEF Done
  <2>2. CASE ~(i < 0)
    <3>1. i + 1 \in Nat /\ i + 1 - 1 = i
      BY <2>2
    <3>2. g[<<i, y>>] = IF Done(y, f, i) THEN y ELSE h[p(y, i)][new(y, i)]
      <4>1. g[<<i, y>>] = h[i + 1][y]
        BY <1>9, <2>2
      <4>2. h[i + 1][y] = make[<<i + 1, h>>][y]
        BY <1>7, <3>1
      <4>3. make[<<i + 1, h>>][y] = IF Done(y, f, i) THEN y ELSE h[p(y, i)][new(y, i)]
        <5> DEFINE n == i + 1
        <5>1. n \in Nat /\ n - 1 = i
          BY <3>1
        <5> HIDE DEF n, V
        <5>2. make[<<n, h>>][y] = IF Done(y, f, n - 1) THEN y ELSE h[p(y, n - 1)][new(y, n - 1)]
          BY <1>4, <5>1
        <5> QED
          BY <5>1, <5>2 DEF n
      <4> QED
        BY <4>1, <4>2, <4>3
    <3>3. CASE Done(y, f, i)
      BY <3>2, <3>3
    <3>4. CASE ~Done(y, f, i)
      <4>1. p(y, i) \in 0 .. i /\ new(y, i) \in AnyText
        BY <1>2, <3>4
      <4>2. p(y, i) - 1 \in Int /\ p(y, i) - 1 + 1 = p(y, i)
        BY <4>1
      <4>3. CASE p(y, i) - 1 < 0
        <5>1. p(y, i) = 0 /\ g[<<p(y, i) - 1, new(y, i)>>] = new(y, i)
          BY <1>9, <4>1, <4>2, <4>3
        <5>2. h[0][new(y, i)] = make[<<0, h>>][new(y, i)]
          BY <1>7
        <5>3. make[<<0, h>>][new(y, i)] = new(y, i)
          <6>1. Done(new(y, i), f, 0 - 1)
            BY DEF Done
          <6> QED
            BY <1>4, <4>1, <6>1
        <5> QED
          BY <3>2, <3>4, <5>1, <5>2, <5>3
      <4>4. CASE ~(p(y, i) - 1 < 0)
        BY <1>9, <3>2, <3>4, <4>1, <4>2, <4>4
      <4> QED
        BY <4>3, <4>4
    <3> QED
      BY <3>3, <3>4
  <2> QED
    BY <2>1, <2>2
<1>11. Grow(x, f, r) = (CHOOSE u : Solves(u))[<<Len(x) - 1, x>>]
  BY DEF Grow
<1>12. Solves(g)
  <2>1. ASSUME NEW i \in Int, NEW y \in Seq(Characters)
        PROVE  g[<<i, y>>] = IF i < 0 \/ lastIndexOf(y, f, i) < 0 THEN y
                             ELSE g[<<lastIndexOf(y, f, i) - 1, Take(y, lastIndexOf(y, f, i)) \o r
                                                              \o Drop(y, lastIndexOf(y, f, i) + Len(f))>>]
    BY <1>10 DEF AnyText, Done, new, PutIn, p
  <2>2. g \in [Int \X Seq(Characters) -> AnyText]
    BY <1>8 DEF AnyText
  <2>3. ASSUME NEW s \in Int \X Seq(Characters)
        PROVE  g[s] = IF s[1] < 0 \/ lastIndexOf(s[2], f, s[1]) < 0 THEN s[2]
                      ELSE g[<<lastIndexOf(s[2], f, s[1]) - 1, Take(s[2], lastIndexOf(s[2], f, s[1])) \o r
                                                  \o Drop(s[2], lastIndexOf(s[2], f, s[1]) + Len(f))>>]
    <3>1. s[1] \in Int /\ s[2] \in Seq(Characters) /\ s = <<s[1], s[2]>>
      OBVIOUS
    <3> QED
      BY <2>1, <3>1
  <2> QED
    BY <2>2, <2>3
<1>13. ASSUME NEW u, Solves(u) PROVE \A i \in Int, y \in AnyText : u[<<i, y>>] = g[<<i, y>>]
  <2> DEFINE S == {n \in Nat : \A i \in Int, y \in AnyText : i < n => u[<<i, y>>] = g[<<i, y>>]}
  <2>1. ASSUME NEW i \in Int, NEW y \in AnyText
        PROVE  u[<<i, y>>] = IF Done(y, f, i) THEN y ELSE u[<<p(y, i) - 1, new(y, i)>>]
    BY <1>13 DEF AnyText, Done, new, PutIn, p
  <2> HIDE DEF Solves
  <2>2. ASSUME NEW n \in Nat, \A w \in 0 .. n - 1 : w \in S PROVE n \in S
    <3> SUFFICES ASSUME NEW i \in Int, NEW y \in AnyText, i < n PROVE u[<<i, y>>] = g[<<i, y>>]
      OBVIOUS
    <3>1. CASE Done(y, f, i)
      BY <1>10, <2>1, <3>1
    <3>2. CASE ~Done(y, f, i)
      <4>1. p(y, i) \in 0 .. i /\ new(y, i) \in AnyText
        BY <1>2, <3>2
      <4>2. p(y, i) - 1 \in Int /\ p(y, i) \in 0 .. n - 1 /\ p(y, i) - 1 < p(y, i)
        BY <4>1
      <4>3. u[<<p(y, i) - 1, new(y, i)>>] = g[<<p(y, i) - 1, new(y, i)>>]
        BY <2>2, <4>1, <4>2
      <4> QED
        BY <1>10, <2>1, <3>2, <4>3
    <3> QED
      BY <3>1, <3>2
  <2> HIDE DEF S
  <2>3. \A n \in Nat : n \in S
    BY <2>2, UpInduction
  <2>4. ASSUME NEW i \in Int, NEW y \in AnyText PROVE u[<<i, y>>] = g[<<i, y>>]
    <3>1. CASE i < 0
      BY <2>3, <3>1 DEF S
    <3>2. CASE ~(i < 0)
      <4>1. i + 1 \in Nat /\ i < i + 1
        BY <3>2
      <4> QED
        BY <2>3, <4>1 DEF S
    <3> QED
      BY <3>1, <3>2
  <2> QED
    BY <2>4
<1> HIDE DEF Solves
<1>14. Solves(CHOOSE u : Solves(u))
  BY <1>12
<1>15. Len(x) - 1 \in Int
  BY <1>1
<1>16. Grow(x, f, r) = g[<<Len(x) - 1, x>>]
  BY <1>11, <1>13, <1>14, <1>15
<1>17. Grows(f, r, g)
  BY <1>10 DEF Grows, new, p
<1>18. g[<<Len(x) - 1, x>>] \in AnyText
  BY <1>8, <1>15
<1> QED
  BY <1>16, <1>17, <1>18

\* g is what Replaced() makes from each place on.
IsReplaced(x, f, r, g) ==
    \A k \in Nat : g[k] = ReplacedFrom(x, f, r, k, g[k + Len(f)], g[k + 1])

\* Three texts are one text, whichever two are joined first.
LEMMA Rejoin ==
    ASSUME NEW b \in Seq(Characters), NEW c \in Seq(Characters), NEW d \in Seq(Characters)
    PROVE  (b \o c) \o d = b \o (c \o d)
BY ConcatAssociative, SMTT(30)

\* There is nothing to be found from b to before p.
Barren(x, f, b, p) == \A l \in b .. p - 1 : ~At(x, f, l)

\* What g has at b is the text up to p, and what it has at p.
Spans(x, g, b, p) == g[b] = SubSeq(x, b + 1, p) \o g[p]

\* What is not found is kept.
LEMMA Skips ==
    ASSUME NEW x \in AnyText, NEW f \in AnyText, NEW r \in AnyText, NEW g \in Series(AnyText),
           IsReplaced(x, f, r, g), NEW p \in 0 .. Len(x), NEW b \in 0 .. p, Barren(x, f, b, p)
    PROVE  Spans(x, g, b, p)
<1> DEFINE Kept(k) == g[k] = SubSeq(x, k + 1, p) \o g[p]
           S == {k \in Nat : k >= b /\ k <= p => Kept(k)}
<1>1. p \in Nat /\ Len(x) \in Nat /\ p <= Len(x) /\ g[p] \in Seq(Characters) /\ x \in Seq(Characters)
  BY DEF AnyText, Series
<1>2. ASSUME NEW k \in Nat, k >= p PROVE k \in S
  <2>1. Kept(p)
    <3>1. SubSeq(x, p + 1, p) = <<>>
      BY <1>1, SubSeqEmpty
    <3>2. <<>> \o g[p] = g[p]
      BY <1>1, ConcatEmptySeq
    <3> QED
      BY <3>1, <3>2
  <2> HIDE DEF Kept
  <2>2. k <= p => k = p
    BY <1>1, <1>2
  <2> QED
    BY <2>1, <2>2
<1>3. ASSUME NEW k \in 0 .. p - 1, \A w \in Nat : w > k => w \in S PROVE k \in S
  <2> SUFFICES ASSUME k >= b PROVE Kept(k)
    <3> HIDE DEF Kept
    <3>1. k \in Nat
      OBVIOUS
    <3> QED
      BY <3>1
  <2>1. k \in Nat /\ k < p /\ k + 1 \in Nat /\ k + 1 > k /\ k + 1 >= b /\ k + 1 <= p /\ k \in b .. p - 1 /\ k < Len(x)
    BY <1>1
  <2>2. g[k + 1] = SubSeq(x, k + 1 + 1, p) \o g[p]
    <3> SUFFICES Kept(k + 1)
      OBVIOUS
    <3> HIDE DEF Kept
    <3> QED
      BY <1>3, <2>1
  <2>3. g[k] = <<x[k + 1]>> \o g[k + 1]
    <3>1. ~At(x, f, k) /\ ~(k >= Len(x))
      BY <1>1, <2>1 DEF Barren
    <3>2. g[k] = ReplacedFrom(x, f, r, k, g[k + Len(f)], g[k + 1])
      BY <2>1 DEF IsReplaced
    <3> QED
      BY <3>1, <3>2 DEF ReplacedFrom
  <2> DEFINE c == <<x[k + 1]>>
             s == SubSeq(x, k + 1 + 1, p)
  <2>4. c \in Seq(Characters) /\ s \in Seq(Characters) /\ g[p] \in Seq(Characters)
    <3>1. k + 1 \in 0 .. Len(x) /\ p \in k + 1 .. Len(x) /\ x \in Seq(Characters)
      BY <1>1, <2>1
    <3>2. x[k + 1] \in Characters
      BY <1>1, <3>1, <2>1
    <3>3. c \in Seq(Characters)
      BY <3>2
    <3>4. s \in Seq(Characters)
      BY <3>1, PartIs
    <3> QED
      BY <1>1, <3>3, <3>4
  <2>5. SubSeq(x, k + 1, p) = c \o s
    <3>1. k + 1 \in 1 .. Len(x) /\ p \in k + 1 .. Len(x)
      BY <1>1, <2>1
    <3> QED
      BY <1>1, <3>1, SubSeqRecursiveFirst
  <2> HIDE DEF S
  <2>6. g[k] = c \o (s \o g[p]) /\ SubSeq(x, k + 1, p) = c \o s
    BY <2>2, <2>3, <2>5
  <2> HIDE DEF c, s
  <2>7. c \o (s \o g[p]) = (c \o s) \o g[p]
    <3> DEFINE t_ == g[p]
    <3>1. c \in Seq(Characters) /\ s \in Seq(Characters) /\ t_ \in Seq(Characters)
      BY <2>4
    <3> HIDE DEF t_
    <3>2. (c \o s) \o t_ = c \o (s \o t_)
      BY <3>1, Rejoin
    <3> QED
      BY <3>2 DEF t_
  <2> QED
    BY <2>6, <2>7
<1> HIDE DEF S
<1>4. \A k \in Nat : k \in S
  BY <1>1, <1>2, <1>3, DownInduction
<1>5. b \in Nat /\ b >= b /\ b <= p
  OBVIOUS
<1> QED
  BY <1>4, <1>5 DEF S, Spans

\* What is found is replaced, and behind the end there is nothing.
LEMMA Hits ==
    ASSUME NEW x \in AnyText, NEW f \in AnyText, NEW r \in AnyText, NEW g \in Series(AnyText),
           IsReplaced(x, f, r, g), f # <<>>, NEW k \in Nat
    PROVE  /\ k >= Len(x) => g[k] = <<>>
           /\ At(x, f, k) => g[k] = r \o g[k + Len(f)]
<1>1. Len(x) \in Nat /\ Len(f) \in Nat /\ Len(f) > 0
  BY DEF AnyText
<1>2. g[k] = ReplacedFrom(x, f, r, k, g[k + Len(f)], g[k + 1])
  BY DEF IsReplaced
<1>3. At(x, f, k) => k < Len(x)
  BY <1>1 DEF At
<1> QED
  BY <1>1, <1>2, <1>3 DEF ReplacedFrom

\* The same of one place
Inserted(f, r, g, k) == g[k] = r \o g[k + Len(f)]

LEMMA HitsAt ==
    ASSUME NEW x \in AnyText, NEW f \in AnyText, NEW r \in AnyText, NEW g \in Series(AnyText),
           IsReplaced(x, f, r, g), f # <<>>, NEW k \in Nat, At(x, f, k)
    PROVE  Inserted(f, r, g, k)
BY Hits DEF Inserted

\* Where nothing is found, all is kept.
LEMMA AllKept ==
    ASSUME NEW x \in AnyText, NEW f \in AnyText, NEW r \in AnyText, NEW g \in Series(AnyText),
           IsReplaced(x, f, r, g), f # <<>>, NEW k \in 0 .. Len(x),
           \A l \in Nat : l >= k => ~At(x, f, l)
    PROVE  g[k] = Drop(x, k)
<1> DEFINE e == Len(x)
<1>1. e \in Nat /\ e \in 0 .. Len(x) /\ k \in 0 .. e /\ \A l \in k .. e - 1 : l \in Nat /\ l >= k
  BY DEF AnyText
<1>2. g[k] = SubSeq(x, k + 1, e) \o g[e]
  <2>1. Barren(x, f, k, e)
    BY <1>1 DEF Barren
  <2> HIDE DEF e
  <2>2. Spans(x, g, k, e)
    BY <1>1, <2>1, Skips
  <2> QED
    BY <2>2 DEF Spans
<1>3. g[e] = <<>>
  BY <1>1, Hits
<1>4. SubSeq(x, k + 1, e) \in Seq(Characters)
  <2>1. x \in Seq(Characters) /\ k \in 0 .. Len(x) /\ e \in k .. Len(x)
    BY <1>1 DEF AnyText
  <2> HIDE DEF e
  <2> QED
    BY <2>1, PartIs
<1>5. SubSeq(x, k + 1, e) \o <<>> = SubSeq(x, k + 1, e)
  <2> DEFINE s == SubSeq(x, k + 1, e)
  <2>1. s \in Seq(Characters)
    BY <1>4
  <2> HIDE DEF s
  <2>2. s \o <<>> = s
    BY <2>1, ConcatEmptySeq
  <2> QED
    BY <2>2 DEF s
<1> QED
  BY <1>2, <1>3, <1>5 DEF Drop

\* The loop from the left makes what Replaced() makes, not longer than the text.
LEMMA ShrinkReplaces ==
    ASSUME NEW x \in AnyText, NEW f \in AnyText, NEW r \in AnyText, f # <<>>
    PROVE  /\ Shrink(x, f, r) = Replaced(x, f, r) /\ Shrink(x, f, r) \in AnyText
           /\ Len(r) <= Len(f) => Len(Shrink(x, f, r)) <= Len(x)
<1>1. PICK h \in Series(AnyText) :
         /\ Shrink(x, f, r) = h[0]
         /\ \A k \in Nat : h[k] = ShrinkFrom(x, f, r, k, h[indexOf(x, f, k) + Len(f)])
  BY ShrinkIs
<1>2. PICK g \in Series(AnyText) :
         /\ Replaced(x, f, r) = g[0]
         /\ \A k \in Nat : g[k] = ReplacedFrom(x, f, r, k, g[k + Len(f)], g[k + 1])
  BY ReplacedIs
<1>3. IsReplaced(x, f, r, g)
  BY <1>2 DEF IsReplaced
<1> DEFINE b == Len(x) + 1
           S == {k \in Nat : h[k] = g[k]}
           T == {k \in Nat : Len(h[k]) <= IF k <= Len(x) THEN Len(x) - k ELSE 0}
<1>4. b \in Nat /\ Len(x) \in Nat /\ Len(f) \in Nat /\ Len(f) > 0 /\ Len(r) \in Nat
  <2>1. x \in Seq(Characters) /\ f \in Seq(Characters) /\ r \in Seq(Characters)
    BY DEF AnyText
  <2>2. Len(x) \in Nat /\ Len(f) \in Nat /\ Len(r) \in Nat /\ Len(f) # 0
    BY <2>1
  <2> QED
    BY <2>2
<1>5. ASSUME NEW k \in Nat, k >= b PROVE h[k] = <<>> /\ g[k] = <<>>
  <2>1. \A l \in Nat : l >= k => ~At(x, f, l)
    BY <1>4, <1>5 DEF At
  <2>2. indexOf(x, f, k) < 0
    <3>1. \/ indexOf(x, f, k) = -1
          \/ indexOf(x, f, k) \in k .. Len(x) - Len(f) /\ At(x, f, indexOf(x, f, k))
      BY <1>5, FirstIs
    <3>2. CASE indexOf(x, f, k) \in k .. Len(x) - Len(f)
      BY <1>4, <1>5, <3>2
    <3> QED
      BY <3>1, <3>2
  <2>3. Drop(x, k) = <<>>
    <3>1. k + 1 \in Int /\ Len(x) \in Int /\ Len(x) < k + 1
      BY <1>4, <1>5
    <3> QED
      BY <3>1, SubSeqEmpty DEF Drop
  <2>4. h[k] = <<>>
    BY <1>1, <2>2, <2>3 DEF ShrinkFrom
  <2>5. k >= Len(x)
    BY <1>4, <1>5
  <2> QED
    BY <1>3, <2>4, <2>5, Hits
\* What h has at a place that comes before the end
<1>6. ASSUME NEW k \in 0 .. b - 1
      PROVE  \/ h[k] = Drop(x, k) /\ g[k] = h[k]
             \/ \E p \in k .. Len(x) - Len(f) :
                   /\ h[k] = SubSeq(x, k + 1, p) \o r \o h[p + Len(f)]
                   /\ g[k] = SubSeq(x, k + 1, p) \o (r \o g[p + Len(f)])
  <2>1. k \in Nat /\ k \in 0 .. Len(x)
    BY <1>4
  <2>2. CASE indexOf(x, f, k) = -1 /\ \A l \in Nat : l >= k => ~At(x, f, l)
    <3>1. h[k] = Drop(x, k)
      BY <1>1, <2>1, <2>2 DEF ShrinkFrom
    <3>2. g[k] = Drop(x, k)
      BY <1>3, <2>1, <2>2, AllKept
    <3> QED
      BY <3>1, <3>2
  <2>3. ASSUME NEW p \in k .. Len(x) - Len(f), p = indexOf(x, f, k), At(x, f, p),
               \A l \in k .. p - 1 : ~At(x, f, l)
        PROVE  /\ h[k] = SubSeq(x, k + 1, p) \o r \o h[p + Len(f)]
               /\ g[k] = SubSeq(x, k + 1, p) \o (r \o g[p + Len(f)])
    <3>1. p \in Nat /\ p \in 0 .. Len(x) /\ k \in 0 .. p /\ ~(p < 0)
      BY <1>4, <2>1
    <3>2. h[k] = SubSeq(x, k + 1, p) \o r \o h[p + Len(f)]
      BY <1>1, <2>1, <2>3, <3>1 DEF ShrinkFrom
    <3>3. At(x, f, p) /\ Barren(x, f, k, p)
      BY <2>3 DEF Barren
    <3>4. g[k] = SubSeq(x, k + 1, p) \o g[p]
      <4>1. Spans(x, g, k, p)
        BY <1>3, <3>1, <3>3, Skips
      <4> QED
        BY <4>1 DEF Spans
    <3>5. g[p] = r \o g[p + Len(f)]
      <4>1. p \in Nat /\ At(x, f, p)
        BY <3>1, <3>3
      <4>2. Inserted(f, r, g, p)
        BY <1>3, <4>1, HitsAt
      <4> QED
        BY <4>2 DEF Inserted
    <3> QED
      BY <3>2, <3>4, <3>5
  <2>4. \/ indexOf(x, f, k) = -1 /\ \A l \in Nat : l >= k => ~At(x, f, l)
        \/ /\ indexOf(x, f, k) \in k .. Len(x) - Len(f) /\ At(x, f, indexOf(x, f, k))
           /\ \A l \in k .. indexOf(x, f, k) - 1 : ~At(x, f, l)
    BY <2>1, FirstIs
  <2> QED
    BY <2>2, <2>3, <2>4
<1>7. ASSUME NEW k \in 0 .. b - 1, \A w \in Nat : w > k => w \in S PROVE k \in S
  <2>1. ASSUME NEW p \in k .. Len(x) - Len(f),
               h[k] = SubSeq(x, k + 1, p) \o r \o h[p + Len(f)],
               g[k] = SubSeq(x, k + 1, p) \o (r \o g[p + Len(f)])
        PROVE  h[k] = g[k]
    <3> DEFINE s == SubSeq(x, k + 1, p)
               y == h[p + Len(f)]
    <3>1. p \in Nat /\ p + Len(f) \in Nat /\ p + Len(f) > k /\ k \in 0 .. Len(x) /\ p \in k .. Len(x)
      BY <1>4
    <3>2. g[p + Len(f)] = y
      BY <1>7, <3>1
    <3>3. s \in Seq(Characters) /\ y \in Seq(Characters) /\ r \in Seq(Characters)
      BY <3>1, PartIs DEF AnyText, Series
    <3>4. h[k] = s \o r \o y /\ g[k] = s \o (r \o y)
      BY <2>1, <3>2
    <3> HIDE DEF s, y
    <3>5. (s \o r) \o y = s \o (r \o y)
      BY <3>3, Rejoin
    <3> QED
      BY <3>4, <3>5
  <2>2. k \in Nat
    OBVIOUS
  <2>3. h[k] = g[k]
    BY <1>6, <2>1
  <2> QED
    BY <2>2, <2>3
<1>8. ASSUME NEW k \in Nat, k >= b PROVE k \in S /\ k \in T
  <2>1. ~(k <= Len(x)) /\ Len(<<>>) = 0
    BY <1>4, <1>8
  <2> QED
    BY <1>5, <1>8, <2>1
<1>9. ASSUME Len(r) <= Len(f), NEW k \in 0 .. b - 1, \A w \in Nat : w > k => w \in T PROVE k \in T
  <2>1. k \in 0 .. Len(x) /\ k \in Nat
    BY <1>4
  <2>2. CASE h[k] = Drop(x, k)
    <3>1. Len(Drop(x, k)) = Len(x) - k
      BY <2>1, DropIs DEF AnyText
    <3> QED
      BY <1>4, <2>1, <2>2, <3>1
  <2>3. ASSUME NEW p \in k .. Len(x) - Len(f), h[k] = SubSeq(x, k + 1, p) \o r \o h[p + Len(f)]
        PROVE  Len(h[k]) <= Len(x) - k
    <3> DEFINE s == SubSeq(x, k + 1, p)
               y == h[p + Len(f)]
               d == s \o r
    <3>1. p \in Nat /\ p + Len(f) \in Nat /\ p + Len(f) > k /\ p + Len(f) <= Len(x) /\ p \in k .. Len(x)
      BY <1>4, <2>1
    <3>2. Len(y) <= Len(x) - (p + Len(f))
      BY <1>9, <3>1
    <3>3. s \in Seq(Characters) /\ y \in Seq(Characters) /\ r \in Seq(Characters) /\ Len(s) = p - k
      BY <2>1, <3>1, PartIs DEF AnyText, Series
    <3>4. h[k] = d \o y
      BY <2>3
    <3> HIDE DEF s, y
    <3>5. d \in Seq(Characters) /\ Len(d) = Len(s) + Len(r)
      BY <3>3, ConcatProperties
    <3> HIDE DEF d
    <3>6. Len(h[k]) = Len(d) + Len(y)
      BY <3>3, <3>4, <3>5, ConcatProperties
    <3>7. Len(y) \in Nat
      BY <3>3
    <3> QED
      BY <1>4, <1>9, <2>1, <3>1, <3>2, <3>3, <3>5, <3>6, <3>7
  <2>4. Len(h[k]) <= Len(x) - k
    <3>1. CASE h[k] = Drop(x, k)
      BY <2>1, <3>1, <2>2
    <3> QED
      BY <1>6, <2>3, <3>1
  <2> QED
    BY <2>1, <2>4
<1> HIDE DEF S, T, b
<1>10. \A k \in Nat : k \in S
  BY <1>4, <1>7, <1>8, DownInduction
<1>11. Len(r) <= Len(f) => \A k \in Nat : k \in T
  BY <1>4, <1>8, <1>9, DownInduction
<1> QED
  BY <1>1, <1>2, <1>4, <1>10, <1>11 DEF S, T, Series

-----------------------------------------------------------------------------
(* The beginning of a text *)

\* The length of a text
LEMMA TextLengths ==
    ASSUME NEW x \in AnyText
    PROVE  x \in Seq(Characters) /\ Len(x) \in Nat /\ (x # <<>> => Len(x) > 0)
BY DEF AnyText

\* What is found at a place of the first e characters is found there in the whole.
LEMMA AtBegin ==
    ASSUME NEW x \in AnyText, NEW f \in AnyText, NEW e \in 0 .. Len(x), NEW k \in Nat
    PROVE  At(Take(x, e), f, k) <=> k + Len(f) <= e /\ At(x, f, k)
<1> DEFINE y == Take(x, e)
           l == Len(f)
<1>1. l \in Nat /\ Len(x) \in Nat /\ x \in Seq(Characters) /\ f \in Seq(Characters)
  BY TextLengths
<1>2. y \in Seq(Characters) /\ Len(y) = e /\ \A i \in 1 .. e : y[i] = x[i]
  BY <1>1, TakeIs
<1>3. At(x, f, k) <=> k + l <= Len(x) /\ \A i \in 1 .. l : x[k + i] = f[i]
  BY <1>1, AtIs
<1> HIDE DEF y
<1>4. At(y, f, k) <=> k + l <= Len(y) /\ \A i \in 1 .. l : y[k + i] = f[i]
  BY <1>1, <1>2, AtIs
<1> HIDE DEF l
<1>5. k + l <= e => \A i \in 1 .. l : k + i \in 1 .. e
  BY <1>1
<1>6. ASSUME k + l <= e
      PROVE  (\A i \in 1 .. l : y[k + i] = f[i]) <=> (\A i \in 1 .. l : x[k + i] = f[i])
  BY <1>2, <1>5, <1>6
<1>7. k + l <= e => k + l <= Len(x)
  BY <1>1
<1>8. At(y, f, k) <=> k + l <= e /\ At(x, f, k)
  BY <1>2, <1>3, <1>4, <1>6, <1>7
<1> QED
  BY <1>8 DEF y, l

\* n counts from each place on.
IsCount(x, f, n) == \A k \in Nat : n[k] = OccursFrom(x, f, k, n[indexOf(x, f, k) + Len(f)])

\* One occurrence more is one counted more.
LEMMA OneMoreCounted ==
    ASSUME NEW x \in AnyText, NEW f \in AnyText, f # <<>>, NEW e \in 0 .. Len(x),
           NEW p \in Nat, p + Len(f) <= e, At(x, f, p)
    PROVE  /\ Occurrences(Take(x, e), f) \in Nat /\ Occurrences(Take(x, p), f) \in Nat
           /\ Occurrences(Take(x, p), f) < Occurrences(Take(x, e), f)
<1> DEFINE xe == Take(x, e)
           xp == Take(x, p)
           l == Len(f)
<1>1. l \in Nat /\ l > 0 /\ Len(x) \in Nat /\ p \in 0 .. Len(x) /\ p < e /\ e \in Nat
  BY TextLengths
<1>2. xe \in AnyText /\ xp \in AnyText
  BY <1>1, TakeIs DEF AnyText
<1>3. \A k \in Nat : At(xe, f, k) <=> k + l <= e /\ At(x, f, k)
  BY AtBegin
<1>4. \A k \in Nat : At(xp, f, k) <=> k + l <= p /\ At(x, f, k)
  BY <1>1, AtBegin
<1> HIDE DEF xe, xp
<1>5. PICK n \in Series(Nat) :
         /\ Occurrences(xe, f) = n[0]
         /\ \A k \in Nat : n[k] = OccursFrom(xe, f, k, n[indexOf(xe, f, k) + Len(f)])
  BY <1>2, OccurrencesIs
<1>6. PICK h \in Series(Nat) :
         /\ Occurrences(xp, f) = h[0]
         /\ \A k \in Nat : h[k] = OccursFrom(xp, f, k, h[indexOf(xp, f, k) + Len(f)])
  BY <1>2, OccurrencesIs
<1>7. \A k \in Nat : n[k] \in Nat /\ h[k] \in Nat
  BY <1>5, <1>6 DEF Series
<1> DEFINE S == {k \in Nat : k <= p => h[k] < n[k]}
<1>8. ASSUME NEW k \in Nat, k >= p + 1 PROVE k \in S
  BY <1>8
<1>9. ASSUME NEW k \in 0 .. p, \A w \in Nat : w > k => w \in S PROVE k \in S
  <2> DEFINE qp == indexOf(xp, f, k)
             qe == indexOf(xe, f, k)
  <2>1. k \in Nat
    OBVIOUS
  <2>2. /\ h[k] = IF qp < 0 THEN 0 ELSE 1 + h[qp + l]
        /\ n[k] = IF qe < 0 THEN 0 ELSE 1 + n[qe + l]
    BY <1>5, <1>6, <2>1 DEF OccursFrom
  <2>3. \/ qp = -1 /\ \A i \in Nat : i >= k => ~At(xp, f, i)
        \/ qp \in k .. Len(xp) - l /\ At(xp, f, qp) /\ \A i \in k .. qp - 1 : ~At(xp, f, i)
    BY <1>2, <2>1, FirstIs
  <2>4. \/ qe = -1 /\ \A i \in Nat : i >= k => ~At(xe, f, i)
        \/ qe \in k .. Len(xe) - l /\ At(xe, f, qe) /\ \A i \in k .. qe - 1 : ~At(xe, f, i)
    BY <1>2, <2>1, FirstIs
  <2> HIDE DEF l, S
  <2>5. At(xe, f, p)
    BY <1>3 DEF l
  <2> HIDE DEF qp, qe
  <2>6. qe \in Nat /\ qe >= k /\ At(xe, f, qe) /\ (\A i \in k .. qe - 1 : ~At(xe, f, i))
    <3>1. ~(\A i \in Nat : i >= k => ~At(xe, f, i))
      BY <2>5
    <3>2. qe \in k .. Len(xe) - l /\ At(xe, f, qe) /\ \A i \in k .. qe - 1 : ~At(xe, f, i)
      BY <2>4, <3>1
    <3> QED
      BY <2>1, <3>2
  <2>7. qe + l \in Nat /\ n[k] = 1 + n[qe + l] /\ n[qe + l] \in Nat
    <3>1. qe + l \in Nat /\ ~(qe < 0)
      BY <1>1, <2>6
    <3> QED
      BY <1>7, <2>2, <3>1
  <2>8. CASE qp = -1
    BY <2>1, <2>2, <2>7, <2>8 DEF S
  <2>9. CASE qp \in k .. Len(xp) - l /\ At(xp, f, qp) /\ \A i \in k .. qp - 1 : ~At(xp, f, i)
    <3>1. qp \in Nat /\ qp >= k /\ qp + l <= p /\ At(xe, f, qp)
      <4>1. qp \in Nat /\ qp >= k
        BY <2>1, <2>9
      <4>2. qp + l <= p /\ At(x, f, qp)
        BY <1>4, <2>9, <4>1
      <4>3. qp + l <= e
        BY <1>1, <4>1, <4>2
      <4> QED
        BY <1>3, <4>1, <4>2, <4>3
    <3>2. ~(qp < qe)
      <4> SUFFICES ASSUME qp < qe PROVE FALSE
        OBVIOUS
      <4>1. qp \in k .. qe - 1
        BY <2>1, <2>6, <3>1
      <4> QED
        BY <2>6, <3>1, <4>1
    <3>3. ~(qe < qp)
      <4> SUFFICES ASSUME qe < qp PROVE FALSE
        OBVIOUS
      <4>1. qe \in k .. qp - 1 /\ qe + l <= p
        BY <1>1, <2>1, <2>6, <3>1
      <4>2. At(xp, f, qe)
        BY <1>3, <1>4, <2>6, <4>1
      <4> QED
        BY <2>9, <4>1, <4>2
    <3>4. qp = qe
      BY <2>6, <3>1, <3>2, <3>3
    <3>5. h[k] = 1 + h[qe + l] /\ h[qe + l] \in Nat
      BY <1>7, <2>2, <2>7, <3>1, <3>4
    <3>6. qe + l > k /\ qe + l <= p
      BY <1>1, <2>1, <2>6, <3>1, <3>4
    <3>7. h[qe + l] < n[qe + l]
      BY <1>9, <2>7, <3>6 DEF S
    <3>8. h[k] < n[k]
      BY <2>7, <3>5, <3>7
    <3> QED
      BY <2>1, <3>8 DEF S
  <2> QED
    BY <2>3, <2>8, <2>9 DEF l, qp
<1> HIDE DEF S
<1>10. \A k \in Nat : k \in S
  <2> DEFINE b == p + 1
  <2>1. b \in Nat /\ \A k \in Nat : k >= b => k \in S
    BY <1>8
  <2>2. ASSUME NEW k \in 0 .. b - 1, \A w \in Nat : w > k => w \in S PROVE k \in S
    <3>1. k \in 0 .. p
      OBVIOUS
    <3> QED
      BY <1>9, <2>2, <3>1
  <2> HIDE DEF b
  <2> QED
    BY <2>1, <2>2, DownInduction
<1>11. h[0] < n[0] /\ h[0] \in Nat /\ n[0] \in Nat
  BY <1>1, <1>7, <1>10 DEF S
<1> QED
  BY <1>5, <1>6, <1>11 DEF xe, xp

\* Two texts found in one place and a later one within it overlap.
LEMMA Overlapping ==
    ASSUME NEW x \in AnyText, NEW f \in AnyText, NEW k \in Nat, NEW p \in Nat,
           At(x, f, k), At(x, f, p), k < p, p < k + Len(f)
    PROVE  SelfOverlaps(f)
<1> DEFINE l == Len(f)
           j == p - k
           a == Drop(f, j)
           c == Take(f, l - j)
<1>1. l \in Nat /\ x \in Seq(Characters) /\ f \in Seq(Characters)
  BY TextLengths
<1>2. j \in 1 .. l - 1 /\ j \in 0 .. l /\ l - j \in 0 .. l
  BY <1>1
<1>3. \A i \in 1 .. l : x[k + i] = f[i] /\ x[p + i] = f[i]
  BY <1>1, AtIs
<1>4. a \in Seq(Characters) /\ Len(a) = l - j /\ \A i \in 1 .. l - j : a[i] = f[j + i]
  BY <1>1, <1>2, DropIs
<1>5. c \in Seq(Characters) /\ Len(c) = l - j /\ \A i \in 1 .. l - j : c[i] = f[i]
  BY <1>1, <1>2, TakeIs
<1>6. ASSUME NEW i \in 1 .. l - j PROVE a[i] = c[i]
  <2>1. i \in 1 .. l /\ j + i \in 1 .. l /\ k + (j + i) = p + i
    BY <1>1, <1>2
  <2>2. f[j + i] = x[k + (j + i)] /\ f[i] = x[p + i]
    BY <1>3, <2>1
  <2>3. f[j + i] = f[i]
    BY <2>1, <2>2
  <2> HIDE DEF a, c, j, l
  <2> QED
    BY <1>4, <1>5, <2>3
<1>7. a = c
  <2> HIDE DEF a, c, j, l
  <2> QED
    BY <1>4, <1>5, <1>6, SameText
<1> HIDE DEF j
<1> QED
  BY <1>2, <1>7 DEF SelfOverlaps

\* Of what is found in x before e, that at p is the last.
FoundLast(x, f, p, e) ==
    /\ e \in 0 .. Len(x) /\ p \in Nat /\ p + Len(f) <= e /\ At(x, f, p)
    /\ \A k \in Nat : k > p /\ k + Len(f) <= e => ~At(x, f, k)

Splits(x, f, r, p, e) ==
    Replaced(Take(x, e), f, r) = Replaced(Take(x, p), f, r) \o (r \o SubSeq(x, p + Len(f) + 1, e))

\* The last occurrence is replaced as it stands, after what is replaced before it.
LEMMA LastReplaced ==
    ASSUME NEW x \in AnyText, NEW f \in AnyText, NEW r \in AnyText, f # <<>>, ~SelfOverlaps(f),
           NEW e, NEW p, FoundLast(x, f, p, e)
    PROVE  Splits(x, f, r, p, e)
<1> DEFINE xe == Take(x, e)
           xp == Take(x, p)
           l == Len(f)
           rest == SubSeq(x, p + l + 1, e)
           tail == r \o rest
<1> USE DEF FoundLast
<1>1. l \in Nat /\ l > 0 /\ Len(x) \in Nat /\ p \in 0 .. Len(x) /\ p < e /\ e \in Nat /\ x \in Seq(Characters)
  BY TextLengths
<1>2. /\ xe \in AnyText /\ Len(xe) = e /\ \A k \in 1 .. e : xe[k] = x[k]
      /\ xp \in AnyText /\ Len(xp) = p /\ \A k \in 1 .. p : xp[k] = x[k]
  BY <1>1, TakeIs DEF AnyText
<1>3. \A k \in Nat : At(xe, f, k) <=> k + l <= e /\ At(x, f, k)
  BY AtBegin
<1>4. \A k \in Nat : At(xp, f, k) <=> k + l <= p /\ At(x, f, k)
  BY <1>1, AtBegin
<1>5. rest \in Seq(Characters) /\ rest = Drop(xe, p + l)
  <2>1. p + l \in 0 .. Len(x) /\ e \in p + l .. Len(x) /\ p + l \in 0 .. e
    BY <1>1
  <2>2. rest \in Seq(Characters) /\ Len(rest) = e - (p + l) /\ \A k \in 1 .. e - (p + l) : rest[k] = x[p + l + k]
    BY <1>1, <2>1, PartIs
  <2> DEFINE d == Drop(xe, p + l)
  <2> HIDE DEF xe, rest
  <2>3. d \in Seq(Characters) /\ Len(d) = e - (p + l) /\ \A k \in 1 .. e - (p + l) : d[k] = xe[p + l + k]
    <3> DEFINE q == p + l
    <3>1. xe \in Seq(Characters) /\ q \in 0 .. Len(xe) /\ Len(xe) = e
      BY <1>2, <2>1 DEF AnyText
    <3> HIDE DEF q
    <3>2. /\ Drop(xe, q) \in Seq(Characters) /\ Len(Drop(xe, q)) = Len(xe) - q
          /\ \A k \in 1 .. Len(xe) - q : Drop(xe, q)[k] = xe[q + k]
      BY <3>1, DropIs
    <3> QED
      BY <3>1, <3>2 DEF q
  <2> HIDE DEF d, l
  <2>4. \A k \in 1 .. e - (p + l) : rest[k] = d[k]
    <3> SUFFICES ASSUME NEW k \in 1 .. e - (p + l) PROVE rest[k] = d[k]
      OBVIOUS
    <3>1. p + l + k \in 1 .. e
      BY <1>1
    <3> QED
      BY <1>2, <2>2, <2>3, <3>1
  <2>5. rest = d
    BY <2>2, <2>3, <2>4, SameText
  <2> QED
    BY <2>2, <2>5 DEF d
<1>6. tail \in Seq(Characters)
  <2> HIDE DEF rest
  <2> QED
    BY <1>5, ConcatProperties DEF AnyText
<1> HIDE DEF xe, xp
<1>7. PICK g \in Series(AnyText) : Replaced(xe, f, r) = g[0] /\ IsReplaced(xe, f, r, g)
  <2>1. PICK g \in Series(AnyText) :
           /\ Replaced(xe, f, r) = g[0]
           /\ \A k \in Nat : g[k] = ReplacedFrom(xe, f, r, k, g[k + Len(f)], g[k + 1])
    BY <1>2, ReplacedIs
  <2> QED
    BY <2>1 DEF IsReplaced
<1>8. PICK h \in Series(AnyText) : Replaced(xp, f, r) = h[0] /\ IsReplaced(xp, f, r, h)
  <2>1. PICK h \in Series(AnyText) :
           /\ Replaced(xp, f, r) = h[0]
           /\ \A k \in Nat : h[k] = ReplacedFrom(xp, f, r, k, h[k + Len(f)], h[k + 1])
    BY <1>2, ReplacedIs
  <2> QED
    BY <2>1 DEF IsReplaced
<1>9. g[p] = tail
  <2>1. g[p] = r \o g[p + l]
    <3>1. At(xe, f, p)
      BY <1>3
    <3> QED
      BY <1>2, <1>7, <3>1, Hits
  <2>2. g[p + l] = Drop(xe, p + l)
    <3>1. p + l \in Nat /\ p + l \in 0 .. Len(xe)
      BY <1>1, <1>2
    <3>2. ASSUME NEW i \in Nat, i >= p + l PROVE ~At(xe, f, i)
      <4>1. i > p
        BY <1>1, <3>2
      <4> QED
        BY <1>3, <4>1
    <3> HIDE DEF l
    <3> QED
      BY <1>2, <1>7, <3>1, <3>2, AllKept
  <2> QED
    BY <1>5, <2>1, <2>2
<1> HIDE DEF tail
<1> DEFINE Agrees(k) == g[k] = h[k] \o tail
           S == {k \in Nat : k <= p => Agrees(k)}
<1>10. \A k \in Nat : g[k] \in Seq(Characters) /\ h[k] \in Seq(Characters)
  BY DEF Series, AnyText
<1>11. Agrees(p)
  <2>1. h[p] = <<>>
    BY <1>1, <1>2, <1>8, Hits
  <2>2. <<>> \o tail = tail
    BY <1>6, ConcatEmptySeq
  <2> QED
    BY <1>9, <2>1, <2>2
<1>12. ASSUME NEW k \in 0 .. p - 1, \A w \in Nat : w > k => w \in S PROVE Agrees(k)
  <2>1. k \in Nat /\ k < p /\ ~(k >= Len(xe)) /\ ~(k >= Len(xp))
    BY <1>1, <1>2
  <2>2. CASE At(xe, f, k)
    <3>1. At(x, f, k) /\ k + l <= e
      BY <1>3, <2>1, <2>2
    <3>2. k + l \in Nat /\ k + l <= p /\ k + l > k
      <4>1. ~(p < k + l)
        BY <2>1, <3>1, Overlapping
      <4> QED
        BY <1>1, <2>1, <4>1
    <3>3. At(xp, f, k)
      BY <1>4, <2>1, <3>1, <3>2
    <3>4. g[k] = r \o g[k + l]
      BY <1>2, <1>7, <2>1, <2>2, Hits
    <3>5. h[k] = r \o h[k + l]
      BY <1>2, <1>8, <2>1, <3>3, Hits
    <3> HIDE DEF l
    <3>6. Agrees(k + l)
      <4> HIDE DEF Agrees
      <4> QED
        BY <1>12, <3>2
    <3>7. r \o (h[k + l] \o tail) = (r \o h[k + l]) \o tail
      <4> DEFINE y == h[k + l]
      <4>1. y \in Seq(Characters) /\ r \in Seq(Characters)
        BY <1>10, <3>2 DEF AnyText
      <4> HIDE DEF y
      <4>2. (r \o y) \o tail = r \o (y \o tail)
        BY <1>6, <4>1, Rejoin
      <4> QED
        BY <4>2 DEF y
    <3> QED
      BY <3>4, <3>5, <3>6, <3>7
  <2>3. CASE ~At(xe, f, k)
    <3>1. ~At(xp, f, k)
      <4> SUFFICES ASSUME At(xp, f, k) PROVE FALSE
        OBVIOUS
      <4>1. k + l <= p /\ At(x, f, k)
        BY <1>4, <2>1
      <4>2. k + l <= e
        BY <1>1, <2>1, <4>1
      <4> QED
        BY <1>3, <2>1, <2>3, <4>1, <4>2
    <3> DEFINE c == <<x[k + 1]>>
               y == h[k + 1]
    <3>2. k + 1 \in 1 .. p /\ k + 1 \in 1 .. e /\ k + 1 \in 1 .. Len(x) /\ k + 1 \in Nat
      BY <1>1, <2>1
    <3>3. xe[k + 1] = x[k + 1] /\ xp[k + 1] = x[k + 1]
      BY <1>2, <3>2
    <3>4. g[k] = c \o g[k + 1]
      <4>1. g[k] = ReplacedFrom(xe, f, r, k, g[k + Len(f)], g[k + 1])
        BY <1>7, <2>1 DEF IsReplaced
      <4> QED
        BY <2>1, <2>3, <3>3, <4>1 DEF ReplacedFrom
    <3>5. h[k] = c \o y
      <4>1. h[k] = ReplacedFrom(xp, f, r, k, h[k + Len(f)], h[k + 1])
        BY <1>8, <2>1 DEF IsReplaced
      <4> QED
        BY <2>1, <3>1, <3>3, <4>1 DEF ReplacedFrom
    <3>6. Agrees(k + 1)
      <4>1. k + 1 > k /\ k + 1 <= p
        BY <1>1, <2>1
      <4> HIDE DEF Agrees
      <4> QED
        BY <1>12, <3>2, <4>1
    <3>7. c \o (y \o tail) = (c \o y) \o tail
      <4>1. x[k + 1] \in Characters
        BY <1>1, <3>2
      <4>2. c \in Seq(Characters) /\ y \in Seq(Characters)
        BY <1>10, <3>2, <4>1
      <4> HIDE DEF c, y
      <4> QED
        BY <1>6, <4>2, Rejoin
    <3> HIDE DEF c
    <3> QED
      BY <3>4, <3>5, <3>6, <3>7
  <2> QED
    BY <2>2, <2>3
<1>13. \A k \in Nat : k \in S
  <2> HIDE DEF Agrees
  <2>1. ASSUME NEW k \in Nat, k >= p PROVE k \in S
    <3>1. k <= p => k = p
      BY <1>1, <2>1
    <3> QED
      BY <1>11, <3>1
  <2>2. ASSUME NEW k \in 0 .. p - 1, \A w \in Nat : w > k => w \in S PROVE k \in S
    <3>1. Agrees(k) /\ k \in Nat
      BY <1>12, <2>2
    <3> QED
      BY <3>1
  <2> HIDE DEF S
  <2> QED
    BY <2>1, <2>2, DownInduction
<1>14. Agrees(0)
  <2> HIDE DEF Agrees
  <2> QED
    BY <1>1, <1>13
<1> QED
  BY <1>7, <1>8, <1>14 DEF xe, xp, tail, Splits

-----------------------------------------------------------------------------
(* The loop from the right *)

Joined(x, e, z) == Take(x, e) \o z
\* Nothing that is found begins before e and ends behind it.
Uncrossed(x, f, e, z) == \A q \in Nat : q < e /\ q + Len(f) > e => ~At(Joined(x, e, z), f, q)

\* The characters of the part up to e, and of what has been made behind it
LEMMA JoinedIs ==
    ASSUME NEW x \in AnyText, NEW z \in AnyText, NEW e \in 0 .. Len(x)
    PROVE  /\ Joined(x, e, z) \in Seq(Characters) /\ Len(Joined(x, e, z)) = e + Len(z)
           /\ \A k \in 1 .. e : Joined(x, e, z)[k] = x[k]
           /\ \A k \in 1 .. Len(z) : Joined(x, e, z)[e + k] = z[k]
<1> DEFINE a == Take(x, e)
<1>1. x \in Seq(Characters) /\ z \in Seq(Characters) /\ Len(z) \in Nat /\ e \in Nat
  BY TextLengths
<1>2. a \in Seq(Characters) /\ Len(a) = e /\ \A k \in 1 .. e : a[k] = x[k]
  BY <1>1, TakeIs
<1> HIDE DEF a
<1>3. /\ a \o z \in Seq(Characters) /\ Len(a \o z) = e + Len(z)
      /\ \A k \in 1 .. e + Len(z) : (a \o z)[k] = IF k <= e THEN a[k] ELSE z[k - e]
  BY <1>1, <1>2, ConcatProperties
<1> DEFINE y == a \o z
           l == Len(z)
<1>4. /\ y \in Seq(Characters) /\ Len(y) = e + l
      /\ \A k \in 1 .. e + l : y[k] = IF k <= e THEN a[k] ELSE z[k - e]
  BY <1>3
<1>5. l \in Nat
  BY <1>1
<1> HIDE DEF y, l
<1>6. ASSUME NEW k \in 1 .. e PROVE y[k] = x[k]
  BY <1>1, <1>2, <1>4, <1>5
<1>7. ASSUME NEW k \in 1 .. l PROVE y[e + k] = z[k]
  <2>1. e + k \in 1 .. e + l /\ ~(e + k <= e) /\ e + k - e = k
    BY <1>1, <1>5
  <2> QED
    BY <1>4, <2>1
<1> QED
  BY <1>4, <1>6, <1>7 DEF y, l, a, Joined

\* In its part of x the same is found as in x.
LEMMA AtJoined ==
    ASSUME NEW x \in AnyText, NEW f \in AnyText, NEW z \in AnyText, NEW e \in 0 .. Len(x),
           NEW q \in Nat, q + Len(f) <= e
    PROVE  At(Joined(x, e, z), f, q) <=> At(x, f, q)
<1> DEFINE y == Joined(x, e, z)
           l == Len(f)
           lx == Len(x)
           lz == Len(z)
<1>1. l \in Nat /\ lx \in Nat /\ lz \in Nat /\ x \in Seq(Characters) /\ f \in Seq(Characters) /\ e \in Nat /\ e <= lx
  BY TextLengths
<1>2. y \in Seq(Characters) /\ Len(y) = e + lz /\ \A k \in 1 .. e : y[k] = x[k]
  BY JoinedIs
<1>3. At(x, f, q) <=> q + l <= lx /\ \A i \in 1 .. l : x[q + i] = f[i]
  BY <1>1, AtIs
<1> HIDE DEF y
<1>4. At(y, f, q) <=> q + l <= e + lz /\ \A i \in 1 .. l : y[q + i] = f[i]
  BY <1>1, <1>2, AtIs
<1> HIDE DEF l, lx, lz
<1>5. q + l <= e
  BY DEF l
<1>6. q + l <= e + lz /\ q + l <= lx /\ \A i \in 1 .. l : q + i \in 1 .. e
  BY <1>1, <1>5
<1> QED
  BY <1>2, <1>3, <1>4, <1>6 DEF y

\* What a replacement at p makes
LEMMA PutInJoined ==
    ASSUME NEW x \in AnyText, NEW f \in AnyText, NEW r \in AnyText, NEW z \in AnyText,
           NEW e \in 0 .. Len(x), NEW p \in Nat, p + Len(f) <= e
    PROVE  /\ SubSeq(x, p + Len(f) + 1, e) \o z \in AnyText
           /\ r \o (SubSeq(x, p + Len(f) + 1, e) \o z) \in AnyText
           /\ Len(r \o (SubSeq(x, p + Len(f) + 1, e) \o z)) = Len(r) + (e - (p + Len(f))) + Len(z)
           /\ PutIn(Joined(x, e, z), f, r, p) = Joined(x, p, r \o (SubSeq(x, p + Len(f) + 1, e) \o z))
<1> DEFINE y == Joined(x, e, z)
           b == p + Len(f)
           a == Take(y, p)
           ax == Take(x, p)
           rest == SubSeq(x, b + 1, e)
           d == rest \o z
           dy == Drop(y, b)
<1>1. /\ x \in Seq(Characters) /\ f \in Seq(Characters) /\ r \in Seq(Characters) /\ z \in Seq(Characters)
      /\ Len(x) \in Nat /\ Len(z) \in Nat /\ Len(r) \in Nat /\ e \in Nat /\ b \in 0 .. e /\ p \in 0 .. e
      /\ p \in 0 .. Len(x) /\ b \in 0 .. Len(x) /\ e \in b .. Len(x)
  <2>1. x \in Seq(Characters) /\ f \in Seq(Characters) /\ r \in Seq(Characters) /\ z \in Seq(Characters)
    BY TextLengths
  <2>2. Len(x) \in Nat /\ Len(z) \in Nat /\ Len(r) \in Nat /\ Len(f) \in Nat
    BY <2>1
  <2> QED
    BY <2>1, <2>2
<1>2. /\ y \in Seq(Characters) /\ Len(y) = e + Len(z) /\ \A k \in 1 .. e : y[k] = x[k]
      /\ \A k \in 1 .. Len(z) : y[e + k] = z[k]
  BY JoinedIs
<1> HIDE DEF y, b
<1>3. a \in Seq(Characters) /\ Len(a) = p /\ \A k \in 1 .. p : a[k] = y[k]
  <2>1. p \in 0 .. Len(y)
    BY <1>1, <1>2
  <2> QED
    BY <1>2, <2>1, TakeIs
<1>4. ax \in Seq(Characters) /\ Len(ax) = p /\ \A k \in 1 .. p : ax[k] = x[k]
  BY <1>1, TakeIs
<1>5. a = ax
  <2> HIDE DEF a, ax
  <2>1. ASSUME NEW k \in 1 .. p PROVE a[k] = ax[k]
    <3>1. k \in 1 .. e
      BY <1>1
    <3> QED
      BY <1>2, <1>3, <1>4, <3>1
  <2> QED
    BY <1>3, <1>4, <2>1, SameText
<1>6. rest \in Seq(Characters) /\ Len(rest) = e - b /\ \A k \in 1 .. e - b : rest[k] = x[b + k]
  BY <1>1, PartIs
<1>7. dy \in Seq(Characters) /\ Len(dy) = e + Len(z) - b /\ \A k \in 1 .. e + Len(z) - b : dy[k] = y[b + k]
  <2>1. b \in 0 .. Len(y)
    BY <1>1, <1>2
  <2>2. dy \in Seq(Characters) /\ Len(dy) = Len(y) - b /\ \A k \in 1 .. Len(y) - b : dy[k] = y[b + k]
    BY <1>2, <2>1, DropIs
  <2> DEFINE ly == Len(y)
  <2>3. dy \in Seq(Characters) /\ Len(dy) = ly - b /\ \A k \in 1 .. ly - b : dy[k] = y[b + k]
    BY <2>2
  <2>7. ly = e + Len(z)
    BY <1>2
  <2> HIDE DEF dy, ly
  <2>8. ly \in Nat /\ b \in Nat /\ e \in Nat /\ Len(z) \in Nat
    BY <1>1, <2>7
  <2>4. ly - b = e + Len(z) - b
    BY <2>7, <2>8
  <2>5. dy \in Seq(Characters) /\ Len(dy) = e + Len(z) - b
    BY <2>3, <2>4
  <2>6. \A k \in 1 .. e + Len(z) - b : dy[k] = y[b + k]
    BY <2>3, <2>4, Zenon
  <2> QED
    BY <2>5, <2>6
<1> HIDE DEF a, ax, rest, dy
<1>8. /\ rest \o z \in Seq(Characters) /\ Len(rest \o z) = e - b + Len(z)
      /\ \A k \in 1 .. e - b + Len(z) : (rest \o z)[k] = IF k <= e - b THEN rest[k] ELSE z[k - (e - b)]
  <2>1. rest \in Seq(Characters) /\ z \in Seq(Characters)
    BY <1>1, <1>6
  <2>2. /\ rest \o z \in Seq(Characters) /\ Len(rest \o z) = Len(rest) + Len(z)
        /\ \A k \in 1 .. Len(rest) + Len(z) : (rest \o z)[k] = IF k <= Len(rest) THEN rest[k] ELSE z[k - Len(rest)]
    BY <2>1, ConcatProperties
  <2>3. Len(rest) = e - b
    BY <1>6
  <2> QED
    BY <2>2, <2>3
<1>9. /\ d \in Seq(Characters) /\ Len(d) = e - b + Len(z)
      /\ \A k \in 1 .. e - b + Len(z) : d[k] = IF k <= e - b THEN rest[k] ELSE z[k - (e - b)]
  BY <1>8
<1> HIDE DEF d
<1>10. dy = d
  <2> DEFINE l == Len(z)
  <2>1. l \in Nat /\ e + l - b = e - b + l
    BY <1>1
  <2>2. ASSUME NEW k \in 1 .. e - b + l PROVE dy[k] = d[k]
    <3>1. dy[k] = y[b + k]
      BY <1>7, <2>1
    <3>2. CASE k <= e - b
      <4>1. k \in 1 .. e - b /\ b + k \in 1 .. e
        BY <1>1, <3>2
      <4>2. d[k] = rest[k]
        BY <1>9, <3>2
      <4>3. rest[k] = x[b + k] /\ y[b + k] = x[b + k]
        BY <1>2, <1>6, <4>1
      <4> QED
        BY <3>1, <4>2, <4>3
    <3>3. CASE ~(k <= e - b)
      <4> DEFINE j == k - (e - b)
      <4>1. j \in 1 .. l /\ b + k = e + j
        BY <1>1, <2>1, <3>3
      <4>2. d[k] = z[j]
        BY <1>9, <3>3
      <4> HIDE DEF j
      <4>3. y[e + j] = z[j]
        BY <1>2, <4>1
      <4> QED
        BY <3>1, <4>1, <4>2, <4>3
    <3> QED
      BY <3>2, <3>3
  <2>3. Len(dy) = Len(d)
    BY <1>7, <1>9, <2>1
  <2>4. \A k \in 1 .. Len(dy) : dy[k] = d[k]
    BY <1>9, <2>2, <2>3
  <2> QED
    BY <1>7, <1>9, <2>3, <2>4, SameText
<1> DEFINE v == r \o d
<1>11. v \in Seq(Characters) /\ Len(v) = Len(r) + (e - b + Len(z))
  <2>1. r \in Seq(Characters) /\ d \in Seq(Characters)
    BY <1>1, <1>9
  <2>2. r \o d \in Seq(Characters) /\ Len(r \o d) = Len(r) + Len(d)
    BY <2>1, ConcatProperties
  <2>3. Len(d) = e - b + Len(z)
    BY <1>9
  <2> QED
    BY <2>2, <2>3
<1>12. a \o r \o d = a \o (r \o d)
  <2>1. a \in Seq(Characters) /\ r \in Seq(Characters) /\ d \in Seq(Characters)
    BY <1>1, <1>3, <1>9
  <2> QED
    BY <2>1, Rejoin
<1>13. PutIn(y, f, r, p) = a \o r \o dy
  BY DEF PutIn, a, dy, b
<1>14. Joined(x, p, v) = ax \o v
  BY DEF Joined, ax
<1>15. PutIn(y, f, r, p) = Joined(x, p, v)
  BY <1>5, <1>10, <1>12, <1>13, <1>14
<1>16. Len(v) = Len(r) + (e - b) + Len(z)
  BY <1>1, <1>11
<1> HIDE DEF v
<1> QED
  BY <1>9, <1>11, <1>15, <1>16 DEF AnyText, b, y, rest, d, v

\* The last place at which the loop looks is in the part that is still as it was.
LEMMA LastInJoined ==
    ASSUME NEW x \in AnyText, NEW f \in AnyText, NEW z \in AnyText, f # <<>>, NEW e \in 1 .. Len(x),
           Uncrossed(x, f, e, z), NEW p, p = lastIndexOf(Joined(x, e, z), f, e - 1)
    PROVE  \/ p = -1 /\ \A q \in Nat : q + Len(f) <= e => ~At(x, f, q)
           \/ /\ p \in Nat /\ p + Len(f) <= e /\ At(x, f, p)
              /\ \A k \in Nat : k > p /\ k + Len(f) <= e => ~At(x, f, k)
<1> DEFINE y == Joined(x, e, z)
           l == Len(f)
<1>1. l \in Nat /\ l > 0 /\ e \in Nat /\ e - 1 \in Nat /\ e \in 0 .. Len(x)
  BY TextLengths
<1>2. y \in AnyText
  BY <1>1, JoinedIs DEF AnyText
<1>3. \A q \in Nat : q + l <= e => (At(y, f, q) <=> At(x, f, q))
  BY <1>1, AtJoined
<1>4. \A q \in Nat : q < e /\ q + l > e => ~At(y, f, q)
  BY DEF Uncrossed
<1>5. \/ p = -1 /\ \A q \in 0 .. e - 1 : ~At(y, f, q)
      \/ p \in 0 .. e - 1 /\ At(y, f, p) /\ \A q \in p + 1 .. e - 1 : ~At(y, f, q)
  BY <1>1, <1>2, LastIs
<1> HIDE DEF y, l
<1>6. \A q \in Nat : q + l <= e => q \in 0 .. e - 1
  BY <1>1
<1>7. CASE p = -1 /\ \A q \in 0 .. e - 1 : ~At(y, f, q)
  BY <1>3, <1>6, <1>7 DEF l
<1>8. CASE p \in 0 .. e - 1 /\ At(y, f, p) /\ \A q \in p + 1 .. e - 1 : ~At(y, f, q)
  <2>1. p \in Nat /\ p < e
    BY <1>1, <1>8
  <2>2. ~(p + l > e)
    BY <1>4, <1>8, <2>1
  <2>3. p + l <= e
    BY <1>1, <2>1, <2>2
  <2>4. At(x, f, p)
    BY <1>3, <1>8, <2>1, <2>3
  <2>5. ASSUME NEW k \in Nat, k > p, k + l <= e PROVE ~At(x, f, k)
    <3>1. k \in p + 1 .. e - 1
      BY <1>1, <2>1, <2>5
    <3> QED
      BY <1>3, <1>8, <2>5, <3>1
  <2> QED
    BY <2>1, <2>3, <2>4, <2>5 DEF l
<1> QED
  BY <1>5, <1>7, <1>8

\* What stands behind p when r has been put in at p
PutBefore(x, f, r, e, z, p) == r \o (SubSeq(x, p + Len(f) + 1, e) \o z)

\* A replacement that makes no more of what it replaces leaves nothing across its begin.
LEMMA StaysUncrossed ==
    ASSUME NEW x \in AnyText, NEW f \in AnyText, NEW r \in AnyText, NEW w \in AnyText,
           Len(r) > Len(f), ~Respawns(f, r), NEW p \in 0 .. Len(x)
    PROVE  Uncrossed(x, f, p, r \o w)
<1> DEFINE v == r \o w
           l == Len(f)
           lr == Len(r)
<1>1. /\ l \in Nat /\ lr \in Nat /\ l < lr /\ p \in Nat
      /\ r \in Seq(Characters) /\ w \in Seq(Characters) /\ f \in Seq(Characters) /\ Len(w) \in Nat
  BY TextLengths
<1>2. v \in Seq(Characters) /\ Len(v) = lr + Len(w) /\ \A k \in 1 .. lr : v[k] = r[k]
  <2>1. /\ v \in Seq(Characters) /\ Len(v) = Len(r) + Len(w)
        /\ \A k \in 1 .. Len(r) + Len(w) : v[k] = IF k <= Len(r) THEN r[k] ELSE w[k - Len(r)]
    BY <1>1, ConcatProperties
  <2> HIDE DEF v
  <2> QED
    BY <1>1, <2>1
<1> HIDE DEF v
<1> DEFINE y == Joined(x, p, v)
<1>3. v \in AnyText
  BY <1>2 DEF AnyText
<1>4. /\ y \in Seq(Characters) /\ Len(y) = p + Len(v)
      /\ \A k \in 1 .. Len(v) : y[p + k] = v[k]
  BY <1>3, JoinedIs
<1> HIDE DEF y
<1>5. ASSUME NEW q \in Nat, q < p, q + Len(f) > p, At(y, f, q) PROVE FALSE
  <2> DEFINE k == p - q
             a == Take(r, l - k)
             c == Drop(f, k)
  <2>1. k \in 1 .. l - 1 /\ l - k \in 0 .. lr /\ k \in 0 .. l /\ l - k \in Nat
    BY <1>1, <1>5
  <2>2. \A i \in 1 .. l : y[q + i] = f[i]
    BY <1>1, <1>4, <1>5, AtIs
  <2>3. a \in Seq(Characters) /\ Len(a) = l - k /\ \A i \in 1 .. l - k : a[i] = r[i]
    BY <1>1, <2>1, TakeIs
  <2>4. c \in Seq(Characters) /\ Len(c) = l - k /\ \A i \in 1 .. l - k : c[i] = f[k + i]
    BY <1>1, <2>1, DropIs
  <2>5. ASSUME NEW i \in 1 .. l - k PROVE a[i] = c[i]
    <3>1. k + i \in 1 .. l /\ q + (k + i) = p + i /\ i \in 1 .. lr
      BY <1>1, <2>1
    <3>2. i \in 1 .. Len(v)
      <4> DEFINE lw == Len(w)
      <4>1. lw \in Nat /\ Len(v) = lr + lw
        BY <1>1, <1>2
      <4> HIDE DEF lw, lr
      <4> QED
        BY <1>1, <3>1, <4>1
    <3>3. y[p + i] = v[i] /\ v[i] = r[i]
      BY <1>2, <1>4, <3>1, <3>2
    <3>4. y[p + i] = f[k + i]
      BY <2>2, <3>1
    <3> HIDE DEF a, c
    <3> QED
      BY <2>3, <2>4, <3>3, <3>4
  <2>6. a = c
    <3> HIDE DEF a, c, l, k
    <3> QED
      BY <2>3, <2>4, <2>5, SameText
  <2>7. Respawns(f, r)
    <3> HIDE DEF k
    <3> QED
      BY <2>1, <2>6 DEF Respawns
  <2> QED
    BY <2>7
<1> QED
  BY <1>5 DEF Uncrossed, y, v

\* One turn of the loop: what is found last, at p, is replaced.
Turned(x, f, r, g, e, z, p) ==
    /\ FoundLast(x, f, p, e)
    /\ PutBefore(x, f, r, e, z, p) \in AnyText
    /\ Len(PutBefore(x, f, r, e, z, p)) = Len(r) + (e - (p + Len(f))) + Len(z)
    /\ Uncrossed(x, f, p, PutBefore(x, f, r, e, z, p))
    /\ g[<<e - 1, Joined(x, e, z)>>] = g[<<p - 1, Joined(x, p, PutBefore(x, f, r, e, z, p))>>]

LEMMA GrowStep ==
    ASSUME NEW x \in AnyText, NEW f \in AnyText, NEW r \in AnyText, NEW z \in AnyText, NEW g,
           Grows(f, r, g), f # <<>>, Len(r) > Len(f), ~Respawns(f, r),
           NEW e \in 0 .. Len(x), Uncrossed(x, f, e, z)
    PROVE  \/ /\ g[<<e - 1, Joined(x, e, z)>>] = Joined(x, e, z)
              /\ \A q \in Nat : q + Len(f) <= e => ~At(x, f, q)
           \/ \E p \in Nat : Turned(x, f, r, g, e, z, p)
<1> DEFINE y == Joined(x, e, z)
           p == lastIndexOf(y, f, e - 1)
           l == Len(f)
<1>1. l \in Nat /\ l > 0 /\ e \in Nat /\ e <= Len(x) /\ Len(x) \in Nat
  BY TextLengths
<1>2. y \in AnyText
  BY JoinedIs DEF AnyText
<1> HIDE DEF y
<1>3. g[<<e - 1, y>>] = IF Done(y, f, e - 1) THEN y ELSE g[<<p - 1, PutIn(y, f, r, p)>>]
  BY <1>1, <1>2 DEF Grows
<1>4. CASE e = 0
  <2>1. Done(y, f, e - 1)
    BY <1>4 DEF Done
  <2>2. \A q \in Nat : ~(q + l <= e)
    BY <1>1, <1>4
  <2> QED
    BY <1>3, <2>1, <2>2 DEF y
<1>5. CASE e # 0
  <2>1. e \in 1 .. Len(x)
    BY <1>1, <1>5
  <2>2. \/ p = -1 /\ \A q \in Nat : q + Len(f) <= e => ~At(x, f, q)
        \/ /\ p \in Nat /\ p + Len(f) <= e /\ At(x, f, p)
           /\ \A k \in Nat : k > p /\ k + Len(f) <= e => ~At(x, f, k)
    BY <2>1, LastInJoined DEF y
  <2>3. Done(y, f, e - 1) <=> p < 0
    BY <1>1, <2>1 DEF Done
  <2> HIDE DEF p
  <2>4. CASE p = -1 /\ \A q \in Nat : q + Len(f) <= e => ~At(x, f, q)
    <3>1. p < 0
      BY <2>4
    <3> QED
      BY <1>3, <2>3, <2>4, <3>1 DEF y
  <2>5. CASE /\ p \in Nat /\ p + Len(f) <= e /\ At(x, f, p)
             /\ \A k \in Nat : k > p /\ k + Len(f) <= e => ~At(x, f, k)
    <3> DEFINE v == PutBefore(x, f, r, e, z, p)
               w == SubSeq(x, p + Len(f) + 1, e) \o z
    <3>1. p \in Nat /\ p + Len(f) <= e /\ ~(p < 0)
      BY <2>5
    <3>2. /\ w \in AnyText /\ r \o w \in AnyText
          /\ Len(r \o w) = Len(r) + (e - (p + Len(f))) + Len(z)
          /\ PutIn(Joined(x, e, z), f, r, p) = Joined(x, p, r \o w)
      BY <3>1, PutInJoined
    <3>3. v = r \o w
      BY DEF PutBefore
    <3>4. p \in 0 .. Len(x)
      BY <1>1, <3>1
    <3> HIDE DEF w, v
    <3>5. Uncrossed(x, f, p, v)
      BY <3>2, <3>3, <3>4, StaysUncrossed
    <3>6. PutIn(y, f, r, p) = Joined(x, p, v)
      BY <3>2, <3>3 DEF y
    <3>7. g[<<e - 1, y>>] = g[<<p - 1, Joined(x, p, v)>>]
      BY <1>3, <2>3, <3>1, <3>6
    <3>8. v \in AnyText /\ Len(v) = Len(r) + (e - (p + Len(f))) + Len(z)
      BY <3>2, <3>3
    <3> QED
      BY <2>5, <3>5, <3>7, <3>8 DEF v, y, Turned, FoundLast
  <2> QED
    BY <2>2, <2>4, <2>5
<1> QED
  BY <1>4, <1>5

\* Where nothing is found, a text is its own replacement.
LEMMA NoneReplaced ==
    ASSUME NEW x \in AnyText, NEW f \in AnyText, NEW r \in AnyText, f # <<>>,
           \A q \in Nat : ~At(x, f, q)
    PROVE  Replaced(x, f, r) = x
<1>1. PICK g \in Series(AnyText) :
         /\ Replaced(x, f, r) = g[0]
         /\ \A k \in Nat : g[k] = ReplacedFrom(x, f, r, k, g[k + Len(f)], g[k + 1])
  BY ReplacedIs
<1>2. IsReplaced(x, f, r, g)
  BY <1>1 DEF IsReplaced
<1>3. 0 \in 0 .. Len(x)
  BY TextLengths
<1>4. g[0] = Drop(x, 0)
  BY <1>2, <1>3, AllKept
<1>5. Drop(x, 0) = x
  <2> DEFINE d == Drop(x, 0)
  <2>1. d \in Seq(Characters) /\ Len(d) = Len(x) - 0 /\ \A k \in 1 .. Len(x) - 0 : d[k] = x[0 + k]
    BY <1>3, TextLengths, DropIs
  <2>2. x \in Seq(Characters) /\ Len(x) \in Nat
    BY TextLengths
  <2> HIDE DEF d
  <2>3. Len(d) = Len(x) /\ \A k \in 1 .. Len(x) : d[k] = x[k]
    BY <2>1, <2>2
  <2> QED
    BY <2>1, <2>2, <2>3, SameText DEF d
<1> QED
  BY <1>1, <1>4, <1>5

\* What is counted as none is found nowhere.
LEMMA NoneCounted ==
    ASSUME NEW x \in AnyText, NEW f \in AnyText, f # <<>>
    PROVE  /\ Occurrences(x, f) \in Nat
           /\ Occurrences(x, f) = 0 => \A q \in Nat : ~At(x, f, q)
<1>1. PICK n \in Series(Nat) :
         /\ Occurrences(x, f) = n[0]
         /\ \A k \in Nat : n[k] = OccursFrom(x, f, k, n[indexOf(x, f, k) + Len(f)])
  BY OccurrencesIs
<1> DEFINE p == indexOf(x, f, 0)
<1>2. Len(f) \in Nat /\ \A k \in Nat : n[k] \in Nat
  BY <1>1, TextLengths DEF Series
<1>3. n[0] = IF p < 0 THEN 0 ELSE 1 + n[p + Len(f)]
  BY <1>1 DEF OccursFrom
<1>4. \/ p = -1 /\ \A l \in Nat : l >= 0 => ~At(x, f, l)
      \/ p \in 0 .. Len(x) - Len(f)
  BY FirstIs
<1> HIDE DEF p
<1>5. CASE p = -1 /\ \A l \in Nat : l >= 0 => ~At(x, f, l)
  BY <1>1, <1>2, <1>5
<1>6. CASE p \in 0 .. Len(x) - Len(f)
  <2>1. p + Len(f) \in Nat /\ ~(p < 0)
    BY <1>2, <1>6
  <2>2. n[0] # 0
    BY <1>2, <1>3, <2>1
  <2> QED
    BY <1>1, <1>2, <2>2
<1> QED
  BY <1>4, <1>5, <1>6

\* The part up to e when it has been gone through: as long as was computed, and what
\* the loop from the left makes, if what is replaced does not overlap itself
Shorter(x, f, r, g, e, z) ==
    /\ g[<<e - 1, Joined(x, e, z)>>] \in AnyText
    /\ Len(g[<<e - 1, Joined(x, e, z)>>])
          <= e + Len(z) + (Len(r) - Len(f)) * Occurrences(Take(x, e), f)
Agreed(x, f, r, g, e, z) ==
    ~SelfOverlaps(f) => g[<<e - 1, Joined(x, e, z)>>] = Replaced(Take(x, e), f, r) \o z

\* Four texts are one text, however they are joined.
LEMMA FourTexts ==
    ASSUME NEW a \in AnyText, NEW b \in AnyText, NEW c \in AnyText, NEW d \in AnyText
    PROVE  a \o (b \o (c \o d)) = (a \o (b \o c)) \o d
<1>1. a \in Seq(Characters) /\ b \in Seq(Characters) /\ c \in Seq(Characters) /\ d \in Seq(Characters)
  BY DEF AnyText
<1>2. b \o (c \o d) = (b \o c) \o d
  BY <1>1, Rejoin
<1> DEFINE s == b \o c
<1>3. s \in Seq(Characters)
  BY <1>1, ConcatProperties
<1> HIDE DEF s
<1>4. a \o (s \o d) = (a \o s) \o d
  <2>1. a \in Seq(Characters) /\ s \in Seq(Characters) /\ d \in Seq(Characters)
    BY <1>1, <1>3
  <2> QED
    BY <2>1, Rejoin
<1> QED
  BY <1>2, <1>4 DEF s

Carried(x, f, r, e, z, p) ==
    Replaced(Take(x, p), f, r) \o PutBefore(x, f, r, e, z, p) = Replaced(Take(x, e), f, r) \o z

\* Text that is behind what is replaced stays behind it.
LEMMA ReplacedBehind ==
    ASSUME NEW x \in AnyText, NEW f \in AnyText, NEW r \in AnyText, NEW z \in AnyText, f # <<>>,
           ~SelfOverlaps(f), NEW e, NEW p, FoundLast(x, f, p, e)
    PROVE  Carried(x, f, r, e, z, p)
<1> DEFINE xp == Take(x, p)
           rest == SubSeq(x, p + Len(f) + 1, e)
           ra == Replaced(xp, f, r)
           l == Len(f)
<1>1. p \in 0 .. Len(x) /\ p + l \in 0 .. Len(x) /\ e \in p + l .. Len(x)
  BY TextLengths DEF FoundLast
<1>2. xp \in AnyText
  BY <1>1, TakeIs DEF AnyText
<1>3. rest \in AnyText
  BY <1>1, PartIs DEF AnyText
<1>4. ra \in AnyText
  <2> HIDE DEF xp
  <2>1. PICK h \in Series(AnyText) :
           /\ Replaced(xp, f, r) = h[0]
           /\ \A k \in Nat : h[k] = ReplacedFrom(xp, f, r, k, h[k + Len(f)], h[k + 1])
    BY <1>2, ReplacedIs
  <2> QED
    BY <2>1 DEF Series
<1>5. Replaced(Take(x, e), f, r) = ra \o (r \o rest)
  <2>1. Splits(x, f, r, p, e)
    BY LastReplaced
  <2> QED
    BY <2>1 DEF Splits
<1> HIDE DEF ra, rest
<1>6. ra \o (r \o (rest \o z)) = (ra \o (r \o rest)) \o z
  <2>1. \A b, d \in AnyText : ra \o (r \o (b \o d)) = (ra \o (r \o b)) \o d
    BY <1>4, FourTexts
  <2> QED
    BY <1>3, <2>1
<1> QED
  BY <1>5, <1>6 DEF Carried, PutBefore, ra, rest

\* The loop from the right, turn by turn
LEMMA GrowMade ==
    ASSUME NEW x \in AnyText, NEW f \in AnyText, NEW r \in AnyText, NEW z \in AnyText, NEW g,
           Grows(f, r, g), f # <<>>, Len(r) > Len(f), ~Respawns(f, r),
           NEW e \in 0 .. Len(x), Uncrossed(x, f, e, z),
           \A p \in 0 .. e - 1, w \in AnyText :
              Uncrossed(x, f, p, w) => Shorter(x, f, r, g, p, w) /\ Agreed(x, f, r, g, p, w)
    PROVE  Shorter(x, f, r, g, e, z) /\ Agreed(x, f, r, g, e, z)
<1> DEFINE y == Joined(x, e, z)
           xe == Take(x, e)
           made == g[<<e - 1, y>>]
           l == Len(f)
           lr == Len(r)
           lz == Len(z)
           oe == Occurrences(xe, f)
<1>1. /\ l \in Nat /\ l > 0 /\ lr \in Nat /\ lr > l /\ lz \in Nat /\ e \in Nat /\ e <= Len(x) /\ Len(x) \in Nat
      /\ x \in Seq(Characters) /\ z \in Seq(Characters) /\ r \in Seq(Characters)
  BY TextLengths
<1>2. xe \in AnyText /\ Len(xe) = e
  BY <1>1, TakeIs DEF AnyText
<1>3. oe \in Nat
  <2> HIDE DEF xe
  <2> QED
    BY <1>2, NoneCounted
<1>4. CASE made = y /\ \A q \in Nat : q + Len(f) <= e => ~At(x, f, q)
  <2>1. Len(y) = e + lz
    BY JoinedIs
  <2>2. lr - l \in Nat /\ (lr - l) * oe \in Nat
    <3> HIDE DEF oe, lr, l
    <3> QED
      BY <1>1, <1>3
  <2>8. y \in AnyText
    BY JoinedIs DEF AnyText
  <2>3. Shorter(x, f, r, g, e, z)
    <3> DEFINE more == (lr - l) * oe
               le == Len(made)
    <3>1. more \in Nat /\ le = e + lz
      BY <1>4, <2>1, <2>2
    <3> HIDE DEF more, le
    <3>2. le <= e + lz + more
      BY <1>1, <3>1
    <3> QED
      BY <1>4, <2>8, <3>2 DEF Shorter, more, le
  <2>4. \A q \in Nat : ~At(xe, f, q)
    BY <1>4, AtBegin
  <2>5. Replaced(xe, f, r) = xe
    <3> HIDE DEF xe
    <3> QED
      BY <1>2, <2>4, NoneReplaced
  <2> QED
    BY <1>4, <2>3, <2>5 DEF Agreed, Joined
<1>5. ASSUME NEW p \in Nat, Turned(x, f, r, g, e, z, p)
      PROVE  Shorter(x, f, r, g, e, z) /\ Agreed(x, f, r, g, e, z)
  <2> DEFINE xp == Take(x, p)
             op == Occurrences(xp, f)
             ra == Replaced(xp, f, r)
             w == PutBefore(x, f, r, e, z, p)
  <2>6. p \in Nat /\ FoundLast(x, f, p, e) /\ p + Len(f) <= e /\ At(x, f, p)
    BY <1>5 DEF Turned, FoundLast
  <2>7. /\ w \in AnyText /\ Len(w) = Len(r) + (e - (p + Len(f))) + Len(z)
        /\ Uncrossed(x, f, p, w) /\ made = g[<<p - 1, Joined(x, p, w)>>]
    BY <1>5 DEF Turned
  <2> HIDE DEF w, made
  <2>1. p \in 0 .. e - 1 /\ p \in 0 .. Len(x) /\ p + l \in 0 .. Len(x) /\ e \in p + l .. Len(x)
    BY <1>1, <2>6
  <2>2. Shorter(x, f, r, g, p, w) /\ Agreed(x, f, r, g, p, w)
    BY <2>1, <2>7
  <2>3. op \in Nat /\ op < oe
    BY <2>6, OneMoreCounted
  <2>4. Shorter(x, f, r, g, e, z)
    <3> DEFINE d == lr - l
               more == d * oe
               n == d * op
               le == Len(made)
    <3>1. made \in AnyText /\ le \in Nat /\ le <= p + Len(w) + n
      <4>1. made \in AnyText /\ le <= p + Len(w) + n
        BY <2>2, <2>7 DEF Shorter
      <4> HIDE DEF n
      <4> QED
        BY <4>1, TextLengths
    <3>2. d \in Nat
      BY <1>1
    <3> HIDE DEF d, op, oe
    <3>3. n + d <= more /\ n \in Nat /\ more \in Nat
      BY <1>3, <2>3, <3>2, Multiples
    <3> HIDE DEF n, more
    <3>4. Len(w) = lr + (e - (p + l)) + lz
      BY <2>7
    <3> HIDE DEF le
    <3> DEFINE lw == Len(w)
    <3>5. lw = lr + (e - (p + l)) + lz /\ le <= p + lw + n
      BY <3>1, <3>4
    <3> HIDE DEF lw, l, lr, lz
    <3>6. p + lw + n = e + lz + (lr - l) + n
      BY <1>1, <3>3, <3>5
    <3>7. lr - l = d
      BY DEF d, lr, l
    <3>8. p + lw + n <= e + lz + more
      BY <1>1, <3>2, <3>3, <3>6, <3>7
    <3>9. le <= e + lz + more
      BY <1>1, <2>6, <3>1, <3>2, <3>3, <3>5, <3>8
    <3> QED
      BY <3>1, <3>9 DEF Shorter, more, d, oe, le, lz, lr, l, made
  <2>5. ASSUME ~SelfOverlaps(f) PROVE made = Replaced(xe, f, r) \o z
    <3>1. made = ra \o w
      BY <2>2, <2>5, <2>7 DEF Agreed
    <3>2. ra \o w = Replaced(xe, f, r) \o z
      <4>1. Carried(x, f, r, e, z, p)
        BY <2>5, <2>6, ReplacedBehind
      <4> QED
        BY <4>1 DEF w, Carried
    <3> QED
      BY <3>1, <3>2
  <2> QED
    BY <2>4, <2>5 DEF Agreed, made, y
<1>6. \/ made = y /\ \A q \in Nat : q + Len(f) <= e => ~At(x, f, q)
      \/ \E p \in Nat : Turned(x, f, r, g, e, z, p)
  BY GrowStep
<1> HIDE DEF made, y, l, lr, lz, oe, xe
<1> QED
  BY <1>4, <1>5, <1>6

\* The loop from the right writes no more than was computed, and makes what the loop from
\* the left would, if what is replaced does not overlap itself.
LEMMA GrowMakes ==
    ASSUME NEW x \in AnyText, NEW f \in AnyText, NEW r \in AnyText, f # <<>>, Len(r) > Len(f),
           ~Respawns(f, r)
    PROVE  /\ Grow(x, f, r) \in AnyText
           /\ Len(Grow(x, f, r)) <= Len(x) + (Len(r) - Len(f)) * Occurrences(x, f)
           /\ ~SelfOverlaps(f) => Grow(x, f, r) = Replaced(x, f, r)
<1>1. PICK g : Grow(x, f, r) = g[<<Len(x) - 1, x>>] /\ Grows(f, r, g)
  BY GrowIs
<1> DEFINE l == Len(x)
           Holds(e) == \A w \in AnyText :
                          Uncrossed(x, f, e, w) => Shorter(x, f, r, g, e, w) /\ Agreed(x, f, r, g, e, w)
           S == {e \in Nat : e <= l => Holds(e)}
<1>2. l \in Nat /\ x \in Seq(Characters) /\ Len(f) \in Nat /\ Len(r) \in Nat
  BY TextLengths
<1> HIDE DEF l
<1>3. ASSUME NEW e \in Nat, \A w \in 0 .. e - 1 : w \in S PROVE e \in S
  <2>1. ASSUME e <= l PROVE Holds(e)
    <3>1. e \in 0 .. Len(x)
      BY <1>2, <2>1 DEF l
    <3>2. ASSUME NEW p \in 0 .. e - 1 PROVE Holds(p)
      <4>1. p <= l /\ p \in Nat
        BY <1>2, <2>1
      <4> HIDE DEF Holds
      <4> QED
        BY <1>3, <4>1
    <3>3. ASSUME NEW z \in AnyText, Uncrossed(x, f, e, z)
          PROVE  Shorter(x, f, r, g, e, z) /\ Agreed(x, f, r, g, e, z)
      BY <1>1, <3>1, <3>2, <3>3, GrowMade
    <3> QED
      BY <3>3
  <2> HIDE DEF Holds
  <2> QED
    BY <2>1
<1>4. \A e \in Nat : e \in S
  <2> HIDE DEF S
  <2> QED
    BY <1>3, UpInduction
<1>5. Holds(l)
  <2>1. l <= l
    BY <1>2
  <2> HIDE DEF Holds
  <2> QED
    BY <1>2, <1>4, <2>1
<1>6. Take(x, l) = x
  <2>1. l \in 0 .. Len(x)
    BY <1>2 DEF l
  <2> DEFINE a == Take(x, l)
  <2>2. a \in Seq(Characters) /\ Len(a) = l /\ \A k \in 1 .. l : a[k] = x[k]
    BY <1>2, <2>1, TakeIs
  <2> HIDE DEF a
  <2>3. a = x
    BY <1>2, <2>2, SameText DEF l
  <2> QED
    BY <2>3 DEF a
<1>7. <<>> \in AnyText /\ Len(<<>>) = 0
  BY DEF AnyText
<1>8. Joined(x, l, <<>>) = x
  <2>1. x \o <<>> = x
    BY <1>2, ConcatEmptySeq
  <2> QED
    BY <1>6, <2>1 DEF Joined
<1>9. Uncrossed(x, f, l, <<>>)
  <2>1. ASSUME NEW q \in Nat, q + Len(f) > l PROVE ~At(x, f, q)
    BY <1>2, <2>1 DEF At, l
  <2> QED
    BY <1>8, <2>1 DEF Uncrossed
<1>10. Shorter(x, f, r, g, l, <<>>) /\ Agreed(x, f, r, g, l, <<>>)
  BY <1>5, <1>7, <1>9
<1>11. Grow(x, f, r) = g[<<l - 1, x>>]
  BY <1>1 DEF l
<1>12. Grow(x, f, r) \in AnyText /\ Len(Grow(x, f, r)) <= l + 0 + (Len(r) - Len(f)) * Occurrences(x, f)
  BY <1>6, <1>7, <1>8, <1>10, <1>11 DEF Shorter
<1>13. ~SelfOverlaps(f) => Grow(x, f, r) = Replaced(x, f, r)
  <2> DEFINE ra == Replaced(x, f, r)
  <2>1. ~SelfOverlaps(f) => Grow(x, f, r) = ra \o <<>>
    BY <1>6, <1>8, <1>10, <1>11 DEF Agreed
  <2>2. ra \in Seq(Characters)
    <3>1. PICK h \in Series(AnyText) :
             /\ Replaced(x, f, r) = h[0]
             /\ \A k \in Nat : h[k] = ReplacedFrom(x, f, r, k, h[k + Len(f)], h[k + 1])
      BY ReplacedIs
    <3> QED
      BY <3>1 DEF Series, AnyText
  <2> HIDE DEF ra
  <2>3. ra \o <<>> = ra
    BY <2>2, ConcatEmptySeq
  <2> QED
    BY <2>1, <2>3 DEF ra
<1>14. l + 0 = l
  BY <1>2
<1> QED
  BY <1>12, <1>13, <1>14 DEF l

-----------------------------------------------------------------------------
(* The string                                                              *)

Capacities == NoBuffer .. WIDTH - 2

\* With Reckless replacements the string is a text still, and fails whole.
StringGood ==
    /\ text \in AnyText /\ capacity \in Capacities /\ FailsWhole
    /\ ~Reckless => WithinBuffer /\ LoopsAgree

\* The texts of a call
LEMMA StringsAre ==
    ASSUME NEW v \in Strings
    PROVE  v \in AnyText /\ Len(v) \in 0 .. MaxText /\ Len(v) \in 0 .. WIDTH - 2
<1>1. PICK n \in 0 .. MaxText : v \in [1 .. n -> Characters]
  BY DEF Strings
<1>2. n \in Nat /\ MaxText \in Nat /\ WIDTH \in Nat /\ MaxText <= WIDTH - 2
  BY StringAssumption
<1>3. v \in Seq(Characters) /\ Len(v) = n
  BY <1>1, <1>2
<1> QED
  BY <1>2, <1>3 DEF AnyText

\* A reservation never makes the buffer smaller.
LEMMA ReserveIs ==
    ASSUME NEW size \in 0 .. WIDTH - 1, capacity \in Capacities, NEW ok, NEW c, reserve(size, ok, c)
    PROVE  c \in Capacities /\ c >= capacity /\ (ok => c >= size) /\ (~ok => c = capacity)
<1>1. WIDTH \in Nat /\ capacity \in Int /\ capacity <= WIDTH - 2 /\ size \in Int /\ size >= 0 /\ size <= WIDTH - 1
  BY StringAssumption DEF Capacities, NoBuffer
<1>2. CASE capacity >= size
  BY <1>1, <1>2 DEF reserve
<1>3. CASE ~(capacity >= size) /\ ok /\ size # WIDTH - 1 /\ c = size
  BY <1>1, <1>3 DEF Capacities, NoBuffer
<1>4. CASE ~(capacity >= size) /\ ~ok /\ c = capacity
  BY <1>1, <1>4
<1> QED
  BY <1>2, <1>3, <1>4 DEF reserve

\* A text that is no longer is within a buffer that is no smaller.
LEMMA WithinStays ==
    ASSUME text \in AnyText, capacity \in Capacities, WithinBuffer,
           NEW y \in AnyText, NEW c \in Capacities, c >= capacity, y = text \/ (text # <<>> /\ Len(y) <= len)
    PROVE  Len(y) <= c \/ (c = NoBuffer /\ y = <<>>)
<1>1. Len(y) \in Nat /\ len \in Nat /\ WIDTH \in Nat /\ c \in Int /\ c >= -1 /\ capacity \in Int
  <2>1. Len(y) \in Nat /\ len \in Nat
    BY TextLengths DEF len
  <2> QED
    BY <2>1, StringAssumption DEF Capacities, NoBuffer
<1>2. CASE len <= capacity
  <2>1. Len(y) <= len
    BY <1>1 DEF len
  <2> QED
    BY <1>1, <1>2, <2>1
<1>3. CASE capacity = NoBuffer /\ text = <<>>
  <2>1. y = <<>> /\ Len(y) = 0
    BY <1>3
  <2>2. CASE c = -1
    BY <2>1, <2>2 DEF NoBuffer
  <2>3. CASE c # -1
    BY <1>1, <2>1, <2>3
  <2> QED
    BY <2>2, <2>3
<1> QED
  BY <1>2, <1>3 DEF WithinBuffer, len

\* Of what was said of a call, ...
SaidThat(op, ok) == said'.op = op /\ said'.ok = ok /\ said'.before = text /\ said'.had = capacity

\* ... and for all but a replacement and an assignment:
LEMMA Kept ==
    ASSUME StringGood, NEW ok \in BOOLEAN, NEW op, SaidThat(op, ok), op # "replace", op # "assign",
           text' \in AnyText, capacity' \in Capacities,
           ~Reckless => (Len(text') <= capacity' \/ (capacity' = NoBuffer /\ text' = <<>>)),
           ok \/ (text' = text /\ capacity' = capacity)
    PROVE  StringGood'
<1>1. FailsWhole'
  BY DEF FailsWhole, SaidThat
<1>2. LoopsAgree'
  BY DEF LoopsAgree, SaidThat
<1> QED
  BY <1>1, <1>2 DEF StringGood, WithinBuffer

\* The calls keep the string, one by one.
LEMMA ReserveGood ==
    ASSUME StringGood, NEW n \in 0 .. WIDTH - 1, Reserve(n) PROVE StringGood'
<1>1. PICK ok \in BOOLEAN, c \in {capacity, n} :
         reserve(n, ok, c) /\ capacity' = c /\ text' = text /\ Said("reserve", <<>>, <<>>, ok)
  BY DEF Reserve
<1>2. SaidThat("reserve", ok)
  BY <1>1 DEF Said, SaidThat
<1>3. capacity \in Capacities /\ text \in AnyText
  BY DEF StringGood
<1>4. c \in Capacities /\ c >= capacity /\ (~ok => c = capacity)
  BY <1>1, <1>3, ReserveIs
<1>5. ~Reckless => (Len(text') <= capacity' \/ (capacity' = NoBuffer /\ text' = <<>>))
  BY <1>1, <1>3, <1>4, WithinStays DEF StringGood
<1> QED
  BY <1>1, <1>2, <1>3, <1>4, <1>5, Kept

LEMMA AssignGood ==
    ASSUME StringGood, NEW v \in Strings, Assign(v) PROVE StringGood'
<1>1. PICK ok \in BOOLEAN, c \in {capacity, Len(v)} :
         /\ reserve(Len(v), ok, c)
         /\ IF ok THEN text' = v /\ capacity' = c ELSE Invalidate
         /\ Said("assign", v, <<>>, ok)
  BY DEF Assign
<1>2. SaidThat("assign", ok)
  BY <1>1 DEF Said, SaidThat
<1>3. capacity \in Capacities /\ v \in AnyText /\ Len(v) \in 0 .. WIDTH - 1
  <2>1. WIDTH \in Nat
    BY StringAssumption
  <2> QED
    BY <2>1, StringsAre DEF StringGood
<1>4. c \in Capacities /\ (ok => c >= Len(v))
  BY <1>1, <1>3, ReserveIs
<1>5. CASE ok
  <2>1. text' = v /\ capacity' = c
    BY <1>1, <1>5
  <2>2. FailsWhole' /\ LoopsAgree'
    BY <1>2, <1>5 DEF FailsWhole, LoopsAgree, SaidThat
  <2>3. Len(v) <= c
    BY <1>3, <1>4, <1>5 DEF Capacities
  <2> QED
    BY <1>3, <1>4, <2>1, <2>2, <2>3 DEF StringGood, WithinBuffer
<1>6. CASE ~ok
  <2>1. text' = <<>> /\ capacity' = NoBuffer
    BY <1>1, <1>6 DEF Invalidate
  <2>2. FailsWhole' /\ LoopsAgree'
    BY <1>2, <2>1 DEF FailsWhole, LoopsAgree, SaidThat
  <2>3. NoBuffer \in Capacities /\ <<>> \in AnyText
    BY StringAssumption DEF Capacities, NoBuffer, AnyText
  <2> QED
    BY <2>1, <2>2, <2>3 DEF StringGood, WithinBuffer
<1> QED
  BY <1>5, <1>6

LEMMA MoveGood ==
    ASSUME StringGood, NEW v \in Strings, NEW full \in BOOLEAN, Move(v, full) PROVE StringGood'
<1>1. SaidThat("assign", TRUE)
  BY DEF Move, Said, SaidThat
<1>2. FailsWhole' /\ LoopsAgree'
  BY <1>1 DEF FailsWhole, LoopsAgree, SaidThat
<1>3. CASE ~full
  <2>1. text' = <<>> /\ capacity' = NoBuffer
    BY <1>3 DEF Move, Invalidate
  <2>2. NoBuffer \in Capacities /\ <<>> \in AnyText
    BY StringAssumption DEF Capacities, NoBuffer, AnyText
  <2> QED
    BY <1>2, <2>1, <2>2 DEF StringGood, WithinBuffer
<1>4. CASE full
  <2> DEFINE c == IF capacity >= Len(v) THEN capacity ELSE Len(v)
  <2>1. text' = v /\ capacity' = c
    BY <1>4 DEF Move
  <2>2. v \in AnyText /\ Len(v) \in 0 .. WIDTH - 2 /\ capacity \in Capacities /\ WIDTH \in Nat
    BY StringsAre, StringAssumption DEF StringGood
  <2>3. c \in Capacities /\ Len(v) <= c
    BY <2>2 DEF Capacities, NoBuffer
  <2> HIDE DEF c
  <2> QED
    BY <1>2, <2>1, <2>2, <2>3 DEF StringGood, WithinBuffer
<1> QED
  BY <1>3, <1>4

LEMMA ConcatGood ==
    ASSUME StringGood, NEW v \in Strings, Concat(v) PROVE StringGood'
<1>1. /\ text \in AnyText /\ capacity \in Capacities /\ v \in AnyText /\ WIDTH \in Nat
      /\ len \in Nat /\ Len(v) \in Nat
  BY StringsAre, StringAssumption, TextLengths DEF StringGood, len
<1>2. ASSUME Keep, NEW ok \in BOOLEAN, Said("concat", v, <<>>, ok) PROVE StringGood'
  <2>1. SaidThat("concat", ok)
    BY <1>2 DEF Said, SaidThat
  <2>2. ~Reckless => (Len(text') <= capacity' \/ (capacity' = NoBuffer /\ text' = <<>>))
    BY <1>2 DEF StringGood, WithinBuffer, Keep
  <2> QED
    BY <1>1, <1>2, <2>1, <2>2, Kept DEF Keep
<1>3. ASSUME ~Wraps(Len(v)), NEW ok \in BOOLEAN, NEW c, reserve(len + Len(v), ok, c), capacity' = c,
             text' = IF ok THEN text \o v ELSE text, Said("concat", v, <<>>, ok)
      PROVE  StringGood'
  <2>1. len + Len(v) \in 0 .. WIDTH - 1
    <3> DEFINE l == len
               n == Len(v)
    <3>1. l \in Nat /\ n \in Nat /\ ~(WIDTH - 1 - l < n)
      BY <1>1, <1>3 DEF Wraps
    <3> HIDE DEF l, n
    <3>2. l + n \in 0 .. WIDTH - 1
      BY <1>1, <3>1
    <3> QED
      BY <3>2 DEF l, n
  <2>2. c \in Capacities /\ c >= capacity /\ (ok => c >= len + Len(v)) /\ (~ok => c = capacity)
    BY <1>1, <1>3, <2>1, ReserveIs
  <2>3. SaidThat("concat", ok)
    BY <1>3 DEF Said, SaidThat
  <2>4. text \o v \in AnyText /\ Len(text \o v) = len + Len(v)
    BY <1>1, ConcatProperties DEF AnyText, len
  <2>5. ~Reckless => (Len(text') <= capacity' \/ (capacity' = NoBuffer /\ text' = <<>>))
    <3>1. CASE ok
      <4>1. text' = text \o v /\ c \in Int /\ len + Len(v) \in Int
        BY <1>1, <1>3, <2>2, <3>1 DEF Capacities
      <4> QED
        BY <1>3, <2>2, <2>4, <3>1, <4>1
    <3>2. CASE ~ok
      BY <1>1, <1>3, <2>2, <3>2, WithinStays DEF StringGood
    <3> QED
      BY <3>1, <3>2
  <2>6. text' \in AnyText
    BY <1>1, <1>3, <2>4
  <2> QED
    BY <1>3, <2>2, <2>3, <2>5, <2>6, Kept
<1>4. FALSE \in BOOLEAN /\ TRUE \in BOOLEAN
  OBVIOUS
<1> QED
  BY <1>2, <1>3, <1>4 DEF Concat

\* The size computed for a replacement that fits
LEMMA SizeIs ==
    ASSUME NEW n \in Nat, NEW d \in Nat, d > 0, NEW l \in Nat, NEW w \in Nat, l + n * d < w
    PROVE  (l + n * d) % w = l + n * d /\ l + n * d \in 0 .. w - 1 /\ d * n = n * d /\ (n = 0 <=> n * d = 0)
<1> DEFINE s == n * d
<1>1. s \in Nat /\ d * n = s
  OBVIOUS
<1>2. n = 0 <=> s = 0
  OBVIOUS
<1> HIDE DEF s
<1> DEFINE k == l + s
<1>3. k \in Nat /\ k < w
  BY <1>1 DEF s
<1> HIDE DEF k
<1>4. k % w = k /\ k \in 0 .. w - 1
  BY <1>3
<1> QED
  BY <1>1, <1>2, <1>4 DEF k, s

LEMMA SizeInRange ==
    ASSUME NEW k \in Int, NEW w \in Nat, w > 0
    PROVE  k % w \in 0 .. w - 1
OBVIOUS

LEMMA ShrinkGood ==
    ASSUME StringGood, NEW f \in Strings, NEW r \in Strings, Replace(f, r), Len(r) <= Len(f)
    PROVE  StringGood'
<1>1. f \in AnyText /\ r \in AnyText /\ text \in AnyText /\ capacity \in Capacities
  BY StringsAre DEF StringGood
<1>2. /\ len > 0 /\ f # <<>> /\ text' = Shrink(text, f, r) /\ capacity' = capacity
      /\ Said("replace", f, r, TRUE)
  BY DEF Replace
<1>3. /\ Shrink(text, f, r) = Replaced(text, f, r) /\ Shrink(text, f, r) \in AnyText
      /\ Len(Shrink(text, f, r)) <= len
  BY <1>1, <1>2, ShrinkReplaces DEF len
<1>4. text # <<>>
  BY <1>2 DEF len
<1>5. FailsWhole'
  BY <1>2 DEF FailsWhole, Said
<1>6. LoopsAgree'
  BY <1>2, <1>3 DEF LoopsAgree, Said
<1>7. capacity >= capacity
  BY <1>1, StringAssumption DEF Capacities, NoBuffer
<1>8. ~Reckless => WithinBuffer'
  BY <1>1, <1>2, <1>3, <1>4, <1>7, WithinStays DEF StringGood, WithinBuffer
<1> QED
  BY <1>1, <1>2, <1>3, <1>5, <1>6, <1>8 DEF StringGood

LEMMA GrowGood ==
    ASSUME StringGood, NEW f \in Strings, NEW r \in Strings, Replace(f, r), ~(Len(r) <= Len(f))
    PROVE  StringGood'
<1> DEFINE size == Size(f, r)
<1>1. /\ f \in AnyText /\ r \in AnyText /\ text \in AnyText /\ capacity \in Capacities
      /\ WIDTH \in Nat /\ WIDTH > 0 /\ len \in Nat
  BY StringsAre, StringAssumption, TextLengths DEF StringGood, len
<1>2. len > 0 /\ f # <<>> /\ (Reckless \/ Fitted(f, r))
  <2>1. Len(f) \in Nat /\ Len(r) \in Nat
    BY <1>1, TextLengths
  <2> QED
    BY <2>1 DEF Replace
<1>3. Len(r) > Len(f) /\ Len(r) \in Nat /\ Len(f) \in Nat /\ Len(r) - Len(f) \in Nat /\ Len(r) - Len(f) > 0
  BY <1>1, TextLengths
<1>4. PICK ok \in BOOLEAN, c \in {capacity, size} :
         /\ IF size = len THEN ok /\ c = capacity ELSE reserve(size, ok, c)
         /\ capacity' = c
         /\ text' = IF ok /\ size # len THEN Grow(text, f, r) ELSE text
         /\ Said("replace", f, r, ok)
  <2>1. ~(Len(r) <= Len(f))
    OBVIOUS
  <2> QED
    BY <2>1 DEF Replace
<1>5. /\ Occurrences(text, f) \in Nat
      /\ Occurrences(text, f) = 0 => \A q \in Nat : ~At(text, f, q)
  BY <1>1, <1>2, NoneCounted
<1> DEFINE n == Occurrences(text, f)
           d == Len(r) - Len(f)
           l == len
<1>6. size = (l + n * d) % WIDTH
  BY DEF Size
<1>7. size \in 0 .. WIDTH - 1
  <2> DEFINE k == l + n * d
  <2>1. k \in Int
    <3> HIDE DEF l, n, d
    <3>1. l \in Nat /\ n \in Nat /\ d \in Nat
      BY <1>1, <1>3, <1>5 DEF l, n, d
    <3> QED
      BY <3>1
  <2> HIDE DEF k, size
  <2> QED
    BY <1>1, <1>6, <2>1, SizeInRange DEF k
<1>8. ASSUME ~Reckless
      PROVE  /\ ~Respawns(f, r) /\ size = l + n * d /\ d * n = n * d
             /\ (size = l => n = 0)
  <2>1. ~Respawns(f, r) /\ l + n * d < WIDTH
    BY <1>2, <1>8 DEF Fitted
  <2>2. l \in Nat /\ n \in Nat /\ d \in Nat /\ d > 0
    BY <1>1, <1>3, <1>5
  <2> HIDE DEF l, n, d, size
  <2>3. (l + n * d) % WIDTH = l + n * d /\ d * n = n * d /\ (n = 0 <=> n * d = 0)
    BY <1>1, <2>1, <2>2, SizeIs
  <2> DEFINE more == n * d
  <2>4. more \in Nat /\ size = l + more /\ (n = 0 <=> more = 0) /\ d * n = more
    BY <1>6, <2>2, <2>3
  <2> HIDE DEF more
  <2>5. size = l => n = 0
    BY <2>2, <2>4
  <2> QED
    BY <2>1, <2>4, <2>5 DEF more
<1> HIDE DEF size
<1>9. FailsWhole'
  <2>1. ASSUME ~ok PROVE text' = text /\ capacity' = capacity
    BY <1>1, <1>4, <1>7, <2>1, ReserveIs
  <2>2. said'.ok = ok /\ said'.op = "replace" /\ said'.before = text /\ said'.had = capacity
    BY <1>4 DEF Said
  <2> QED
    BY <2>1, <2>2 DEF FailsWhole
<1>10. c \in Capacities /\ c >= capacity /\ (ok /\ size # l => c >= size)
  <2>1. CASE size = len
    <3>1. c = capacity /\ capacity >= capacity
      BY <1>1, <1>4, <2>1 DEF Capacities, NoBuffer
    <3> QED
      BY <1>1, <2>1, <3>1
  <2>2. CASE size # len
    BY <1>1, <1>4, <1>7, <2>2, ReserveIs
  <2> QED
    BY <2>1, <2>2
<1>11. Grow(text, f, r) \in AnyText
  BY <1>1, <1>2, GrowIs
<1>12. text' \in AnyText
  BY <1>1, <1>4, <1>11
<1>13. ASSUME ~Reckless PROVE WithinBuffer' /\ LoopsAgree'
  <2>1. /\ Len(Grow(text, f, r)) <= l + d * n
        /\ ~SelfOverlaps(f) => Grow(text, f, r) = Replaced(text, f, r)
    BY <1>1, <1>2, <1>3, <1>8, <1>13, GrowMakes DEF len
  <2>2. CASE ok /\ size # l
    <3>1. text' = Grow(text, f, r) /\ capacity' = c
      BY <1>4, <2>2
    <3>2. Len(text') <= size /\ size <= c
      <4>1. Len(text') <= size
        BY <1>8, <1>13, <2>1, <3>1
      <4>2. size <= c
        BY <1>1, <1>7, <1>10, <2>2 DEF Capacities, NoBuffer
      <4> QED
        BY <4>1, <4>2
    <3>3. Len(text') <= capacity'
      <4>1. Len(text') \in Nat /\ size \in Int /\ c \in Int
        BY <1>1, <1>7, <1>10, <1>12, TextLengths DEF Capacities, NoBuffer
      <4> QED
        BY <3>1, <3>2, <4>1
    <3>4. LoopsAgree'
      BY <1>4, <2>1, <3>1 DEF LoopsAgree, Said
    <3> QED
      BY <3>3, <3>4 DEF WithinBuffer
  <2>3. CASE ~(ok /\ size # l)
    <3>1. text' = text /\ capacity' = c
      BY <1>4, <2>3
    <3>2. WithinBuffer'
      BY <1>1, <1>10, <1>13, <3>1, WithinStays DEF StringGood, WithinBuffer
    <3>3. ASSUME ok PROVE text = Replaced(text, f, r)
      <4>1. n = 0
        BY <1>8, <1>13, <2>3, <3>3
      <4>2. \A q \in Nat : ~At(text, f, q)
        BY <1>5, <4>1
      <4> QED
        BY <1>1, <1>2, <4>2, NoneReplaced
    <3>4. said'.ok = ok /\ said'.before = text /\ said'.a = f /\ said'.b = r
      BY <1>4 DEF Said
    <3>5. LoopsAgree'
      BY <3>1, <3>3, <3>4 DEF LoopsAgree
    <3> QED
      BY <3>2, <3>5
  <2> QED
    BY <2>2, <2>3
<1> QED
  BY <1>4, <1>9, <1>10, <1>12, <1>13 DEF StringGood

\* What cutting leaves is not longer than what was there.
LEMMA CutGood ==
    ASSUME StringGood, NEW op, SaidThat(op, TRUE), op # "replace", op # "assign", text # <<>>,
           text' \in AnyText, Len(text') <= len, capacity' = capacity
    PROVE  StringGood'
<1>1. text \in AnyText /\ capacity \in Capacities /\ capacity >= capacity
  BY StringAssumption DEF StringGood, Capacities, NoBuffer
<1>2. ~Reckless => (Len(text') <= capacity' \/ (capacity' = NoBuffer /\ text' = <<>>))
  BY <1>1, WithinStays DEF StringGood
<1> QED
  BY <1>1, <1>2, Kept

LEMMA RemoveGood ==
    ASSUME StringGood, NEW i \in 0 .. MaxText, NEW n \in 0 .. MaxText, Remove(i, n) PROVE StringGood'
<1> DEFINE count_ == IF n > len - i THEN len - i ELSE n
           a == Take(text, i)
           c == Drop(text, i + count_)
<1>1. text \in AnyText /\ text \in Seq(Characters) /\ len \in Nat /\ MaxText \in Nat /\ i \in Nat /\ n \in Nat
  BY TextLengths, StringAssumption DEF StringGood, len
<1>2. /\ i < len /\ n > 0 /\ text' = a \o c /\ capacity' = capacity
      /\ Said("remove", <<>>, <<>>, TRUE)
  BY DEF Remove
<1>3. i \in 0 .. len /\ i + count_ \in 0 .. len /\ count_ >= 0 /\ count_ \in Int
  BY <1>1, <1>2
<1> HIDE DEF count_
<1>4. a \in Seq(Characters) /\ Len(a) = i
  BY <1>1, <1>3, TakeIs DEF len
<1>5. c \in Seq(Characters) /\ Len(c) = len - (i + count_)
  BY <1>1, <1>3, DropIs DEF len
<1> HIDE DEF a, c
<1>6. a \o c \in Seq(Characters) /\ Len(a \o c) = Len(a) + Len(c)
  BY <1>4, <1>5, ConcatProperties
<1>7. Len(text') <= len
  <2> DEFINE l == len
  <2>1. Len(text') = i + (l - (i + count_)) /\ l \in Nat
    BY <1>1, <1>2, <1>4, <1>5, <1>6
  <2> HIDE DEF l
  <2>2. Len(text') <= l
    BY <1>1, <1>3, <2>1
  <2> QED
    BY <2>2 DEF l
<1>8. text # <<>>
  BY <1>1, <1>2 DEF len
<1>9. SaidThat("remove", TRUE)
  BY <1>2 DEF Said, SaidThat
<1> QED
  BY <1>2, <1>6, <1>7, <1>8, <1>9, CutGood DEF AnyText

LEMMA TrimGood == ASSUME StringGood, trim PROVE StringGood'
<1> DEFINE l == len
           Begins(b) == /\ \A k \in 1 .. b : text[k] = BLANK
                        /\ b < l => text[b + 1] # BLANK
           begin == CHOOSE b \in 0 .. l : Begins(b)
           Cuts(e) == /\ \A k \in e + 1 .. l : text[k] = BLANK
                      /\ e > begin => text[e] # BLANK
           end == CHOOSE e \in begin .. l : Cuts(e)
<1>1. text \in AnyText /\ text \in Seq(Characters) /\ l \in Nat
  BY TextLengths DEF StringGood, len
<1>2. len > 0 /\ text' = SubSeq(text, begin + 1, end) /\ capacity' = capacity
      /\ Said("trim", <<>>, <<>>, TRUE)
  <2>1. len > 0 /\ capacity' = capacity /\ Said("trim", <<>>, <<>>, TRUE)
    BY DEF trim
  <2>2. text' = SubSeq(text, begin + 1, end)
    BY DEF trim
  <2> QED
    BY <2>1, <2>2
<1> HIDE DEF l
<1>3. \E b \in 0 .. l : Begins(b)
  <2> DEFINE S == {b \in 0 .. l : \A k \in 1 .. b : text[k] = BLANK}
  <2>1. S \in SUBSET (0 .. l) /\ 0 \in S
    BY <1>1
  <2>2. S # {}
    BY <2>1
  <2> HIDE DEF S
  <2>3. PICK b \in S : \A n \in S : n <= b
    BY <1>1, <2>1, <2>2, GreatestExists
  <2>4. b \in 0 .. l /\ \A k \in 1 .. b : text[k] = BLANK
    BY <2>3 DEF S
  <2>5. ASSUME b < l, text[b + 1] = BLANK PROVE FALSE
    <3>1. b + 1 \in 0 .. l /\ ~(b + 1 <= b)
      BY <1>1, <2>4, <2>5
    <3>2. ASSUME NEW k \in 1 .. b + 1 PROVE text[k] = BLANK
      <4>1. k \in 1 .. b \/ k = b + 1
        BY <2>4
      <4> QED
        BY <2>4, <2>5, <4>1
    <3>3. b + 1 \in S
      BY <3>1, <3>2 DEF S
    <3> QED
      BY <2>3, <3>1, <3>3
  <2> QED
    BY <2>4, <2>5
<1>4. begin \in 0 .. l
  <2> HIDE DEF Begins
  <2> QED
    BY <1>3
<1> HIDE DEF begin
<1>5. \E e \in begin .. l : Cuts(e)
  <2> DEFINE S == {e \in begin .. l : \A k \in e + 1 .. l : text[k] = BLANK}
  <2>1. S \in SUBSET Nat /\ l \in S
    BY <1>1, <1>4
  <2>2. S # {}
    BY <2>1
  <2> HIDE DEF S
  <2>3. PICK e \in S : \A n \in S : e <= n
    BY <2>1, <2>2, LeastExists
  <2>4. e \in begin .. l /\ \A k \in e + 1 .. l : text[k] = BLANK
    BY <2>3 DEF S
  <2>5. ASSUME e > begin, text[e] = BLANK PROVE FALSE
    <3>1. e - 1 \in begin .. l /\ ~(e <= e - 1)
      BY <1>1, <1>4, <2>4, <2>5
    <3>2. ASSUME NEW k \in e - 1 + 1 .. l PROVE text[k] = BLANK
      <4>1. k \in e + 1 .. l \/ k = e
        BY <1>1, <1>4, <2>4
      <4> QED
        BY <2>4, <2>5, <4>1
    <3>3. e - 1 \in S
      BY <3>1, <3>2 DEF S
    <3> QED
      BY <2>3, <3>1, <3>3
  <2> QED
    BY <2>4, <2>5
<1>6. end \in begin .. l
  <2> HIDE DEF Cuts
  <2> QED
    BY <1>5
<1> HIDE DEF end
<1>7. begin \in 0 .. Len(text) /\ end \in begin .. Len(text)
  BY <1>4, <1>6 DEF l, len
<1>8. text' \in AnyText /\ Len(text') = end - begin
  BY <1>1, <1>2, <1>7, PartIs DEF AnyText
<1>9. Len(text') <= len
  <2>1. Len(text') <= l
    BY <1>1, <1>4, <1>6, <1>8
  <2> QED
    BY <2>1 DEF l
<1>10. text # <<>>
  BY <1>1, <1>2 DEF len
<1>11. SaidThat("trim", TRUE)
  BY <1>2 DEF Said, SaidThat
<1> QED
  BY <1>2, <1>8, <1>9, <1>10, <1>11, CutGood

LEMMA SubstringGood ==
    ASSUME StringGood, NEW l \in 0 .. MaxText, NEW r \in 0 .. MaxText, substring(l, r) PROVE StringGood'
<1>1. PICK ok \in BOOLEAN : SaidThat("substring", ok)
  BY DEF substring, Said, SaidThat
<1>2. text' = text /\ capacity' = capacity
  BY DEF substring, Keep
<1>3. ~Reckless => (Len(text') <= capacity' \/ (capacity' = NoBuffer /\ text' = <<>>))
  BY <1>2 DEF StringGood, WithinBuffer
<1> QED
  BY <1>1, <1>2, <1>3, Kept DEF StringGood

LEMMA ForgetGood == ASSUME StringGood, Forget PROVE StringGood'
<1>1. said' = Silence /\ text' = text /\ capacity' = capacity
  BY DEF Forget, Keep
<1>2. FailsWhole' /\ LoopsAgree'
  BY <1>1 DEF FailsWhole, LoopsAgree, Silence
<1> QED
  BY <1>1, <1>2 DEF StringGood, WithinBuffer

\* Every step keeps the string.
LEMMA StringKeeps == ASSUME StringGood, [WaitsNext]_waitVars PROVE StringGood'
<1>1. CASE StringNext
  <2>1. ASSUME NEW v \in Strings, Assign(v) \/ Concat(v) \/ \E full \in BOOLEAN : Move(v, full)
        PROVE  StringGood'
    BY <2>1, AssignGood, ConcatGood, MoveGood
  <2>2. ASSUME NEW n \in 0 .. WIDTH - 1, Reserve(n) PROVE StringGood'
    BY <2>2, ReserveGood
  <2>3. ASSUME NEW f \in Strings, NEW r \in Strings, Replace(f, r) PROVE StringGood'
    BY <2>3, ShrinkGood, GrowGood
  <2>4. ASSUME NEW i \in 0 .. MaxText, NEW n \in 0 .. MaxText, Remove(i, n) \/ substring(i, n)
        PROVE  StringGood'
    BY <2>4, RemoveGood, SubstringGood
  <2>5. CASE trim
    BY <2>5, TrimGood
  <2>6. CASE Forget
    BY <2>6, ForgetGood
  <2> QED
    BY <1>1, <2>1, <2>2, <2>3, <2>4, <2>5, <2>6 DEF StringNext
<1>2. CASE UNCHANGED stringVars
  BY <1>2 DEF stringVars, StringGood, WithinBuffer, FailsWhole, LoopsAgree
<1>3. StringNext \/ UNCHANGED stringVars
  BY DEF WaitsNext, waitVars, stringVars
<1> QED
  BY <1>1, <1>2, <1>3

LEMMA StringStarts == StringInit => StringGood
<1> SUFFICES ASSUME StringInit PROVE StringGood
  OBVIOUS
<1>1. <<>> \in AnyText
  BY DEF AnyText
<1>2. NoBuffer \in Capacities
  BY StringAssumption DEF Capacities, NoBuffer
<1> QED
  BY <1>1, <1>2 DEF StringInit, StringGood, FailsWhole, WithinBuffer, LoopsAgree, Silence

-----------------------------------------------------------------------------
(* Finding in a stream                                                     *)

\* w ends with the first j characters of aim, ...
Matched(w, aim, j) == j <= Len(w) /\ \A i \in 1 .. j : w[Len(w) - j + i] = aim[i]
\* ... and with no more of them.
Longest(w, aim, j) == Matched(w, aim, j) /\ \A i \in 0 .. Len(aim) : i > j => ~Matched(w, aim, i)

\* One character more: a match of j + 1 is one of j and this character.
LEMMA MatchedNext ==
    ASSUME NEW S, NEW w \in Seq(S), NEW c \in S, NEW aim, NEW j \in Nat
    PROVE  Matched(Append(w, c), aim, j + 1) <=> Matched(w, aim, j) /\ c = aim[j + 1]
<1> DEFINE y == Append(w, c)
           l == Len(w)
<1>1. l \in Nat /\ Len(y) = l + 1 /\ (\A k \in 1 .. l : y[k] = w[k]) /\ y[l + 1] = c
  BY AppendProperties
<1> HIDE DEF y, l
<1>2. ASSUME j + 1 <= l + 1, NEW i \in 1 .. j PROVE y[(l + 1) - (j + 1) + i] = w[l - j + i]
  <2>1. (l + 1) - (j + 1) + i = l - j + i /\ l - j + i \in 1 .. l
    BY <1>1, <1>2
  <2> QED
    BY <1>1, <2>1
<1>3. (l + 1) - (j + 1) + (j + 1) = l + 1 /\ j + 1 \in 1 .. j + 1
  BY <1>1
<1>4. \A i \in 1 .. j + 1 : i \in 1 .. j \/ i = j + 1
  OBVIOUS
<1>5. \A i \in 1 .. j : i \in 1 .. j + 1
  OBVIOUS
<1>6. j <= l <=> j + 1 <= l + 1
  BY <1>1
<1>7. ASSUME Matched(y, aim, j + 1) PROVE Matched(w, aim, j) /\ c = aim[j + 1]
  <2>1. j + 1 <= l + 1 /\ \A i \in 1 .. j + 1 : y[(l + 1) - (j + 1) + i] = aim[i]
    BY <1>1, <1>7 DEF Matched
  <2>2. c = aim[j + 1]
    BY <1>1, <1>3, <2>1
  <2>3. ASSUME NEW i \in 1 .. j PROVE w[l - j + i] = aim[i]
    BY <1>2, <1>5, <2>1
  <2> QED
    BY <1>6, <2>1, <2>2, <2>3 DEF Matched, l
<1>8. ASSUME Matched(w, aim, j), c = aim[j + 1] PROVE Matched(y, aim, j + 1)
  <2>1. j + 1 <= l + 1 /\ \A i \in 1 .. j : w[l - j + i] = aim[i]
    BY <1>6, <1>8 DEF Matched, l
  <2>2. ASSUME NEW i \in 1 .. j + 1 PROVE y[(l + 1) - (j + 1) + i] = aim[i]
    <3>1. CASE i \in 1 .. j
      BY <1>2, <2>1, <3>1
    <3>2. CASE i = j + 1
      BY <1>1, <1>3, <1>8, <3>2
    <3> QED
      BY <1>4, <3>1, <3>2
  <2> QED
    BY <1>1, <2>1, <2>2 DEF Matched
<1> QED
  BY <1>7, <1>8 DEF y

\* Of what ends with k characters of aim, the shorter matches are in aim itself.
LEMMA MatchedWithin ==
    ASSUME NEW S, NEW w \in Seq(S), NEW aim \in Seq(S), NEW k \in 0 .. Len(aim), Matched(w, aim, k),
           NEW j \in 0 .. k
    PROVE  Matched(w, aim, j) <=> SubSeq(aim, 1, j) = SubSeq(aim, k - j + 1, k)
<1> DEFINE a == SubSeq(aim, 0 + 1, j)
           d == k - j
           b == SubSeq(aim, d + 1, k)
           l == Len(w)
<1>1. l \in Nat /\ Len(aim) \in Nat /\ k \in Nat /\ j \in Nat /\ d \in 0 .. k /\ k <= Len(aim)
  OBVIOUS
<1>2. a \in Seq(S) /\ Len(a) = j - 0 /\ \A i \in 1 .. j - 0 : a[i] = aim[0 + i]
  <2>1. 0 \in 0 .. Len(aim) /\ j \in 0 .. Len(aim)
    BY <1>1
  <2> QED
    BY <2>1, PartIs
<1>3. b \in Seq(S) /\ Len(b) = k - d /\ \A i \in 1 .. k - d : b[i] = aim[d + i]
  <2>1. d \in 0 .. Len(aim) /\ k \in d .. Len(aim)
    BY <1>1
  <2> QED
    BY <2>1, PartIs
<1>4. k <= l /\ \A i \in 1 .. k : w[l - k + i] = aim[i]
  BY DEF Matched
<1>5. Matched(w, aim, j) <=> j <= l /\ \A i \in 1 .. j : w[l - j + i] = aim[i]
  BY DEF Matched
<1>9. 0 + 1 = 1 /\ d + 1 = k - j + 1
  OBVIOUS
<1>10. k - d = j /\ j - 0 = j
  OBVIOUS
<1> HIDE DEF l, a, b
<1>6. ASSUME NEW i \in 1 .. j PROVE w[l - j + i] = aim[d + i] /\ a[i] = aim[i] /\ b[i] = aim[d + i]
  <2>1. d + i \in 1 .. k /\ l - k + (d + i) = l - j + i
    BY <1>1
  <2>2. w[l - j + i] = aim[d + i]
    BY <1>4, <2>1
  <2>3. 0 + i = i /\ i \in 1 .. j - 0
    OBVIOUS
  <2>4. a[i] = aim[i]
    BY <1>2, <2>3
  <2>5. b[i] = aim[d + i]
    BY <1>3, <1>10
  <2> QED
    BY <2>2, <2>4, <2>5
<1> HIDE DEF d
<1>7. j <= l
  BY <1>1, <1>4
<1>8. a = b <=> \A i \in 1 .. j : a[i] = b[i]
  <2>1. Len(a) = j /\ Len(b) = j
    BY <1>2, <1>3, <1>10
  <2> QED
    BY <1>2, <1>3, <2>1, SameText
<1>11. Matched(w, aim, j) <=> a = b
  BY <1>5, <1>6, <1>7, <1>8
<1> QED
  BY <1>9, <1>11 DEF a, b

\* PutBefore one more character the index is of what is matched now.
LEMMA Advances ==
    ASSUME NEW S, NEW w \in Seq(S), NEW aim \in Seq(S), NEW k \in 0 .. Len(aim) - 1, Longest(w, aim, k), NEW c \in S
    PROVE  Advance(aim, k, c) \in 0 .. Len(aim) /\ Longest(Append(w, c), aim, Advance(aim, k, c))
<1> DEFINE y == Append(w, c)
           l == Len(aim)
<1>1. l \in Nat /\ k \in Nat /\ k < l /\ k \in 0 .. l
  OBVIOUS
<1>2. \A j \in Nat : Matched(y, aim, j + 1) <=> Matched(w, aim, j) /\ c = aim[j + 1]
  BY MatchedNext
<1>3. Matched(w, aim, k) /\ \A i \in 0 .. l : i > k => ~Matched(w, aim, i)
  BY DEF Longest
<1>4. ASSUME NEW i \in 0 .. l, i > k + 1 PROVE ~Matched(y, aim, i)
  <2>1. i - 1 \in Nat /\ i - 1 \in 0 .. l /\ i - 1 > k /\ (i - 1) + 1 = i
    BY <1>1, <1>4
  <2>2. ~Matched(w, aim, i - 1)
    BY <1>3, <2>1
  <2> DEFINE j == i - 1
  <2>3. j \in Nat /\ ~Matched(w, aim, j) /\ j + 1 = i
    BY <2>1, <2>2
  <2> HIDE DEF j, y
  <2> QED
    BY <1>2, <2>3
<1> HIDE DEF y
<1>5. CASE c = aim[k + 1]
  <2>1. Advance(aim, k, c) = k + 1
    BY <1>5 DEF Advance
  <2>2. Matched(y, aim, k + 1)
    BY <1>1, <1>2, <1>3, <1>5
  <2> HIDE DEF l
  <2> QED
    BY <1>1, <1>4, <2>1, <2>2 DEF Longest, y, l
<1>6. CASE c # aim[k + 1]
  <2> DEFINE right == {j \in 0 .. k - 1 : Overlaps(aim, k, j, c)}
  <2>1. Advance(aim, k, c) = IF right = {} THEN 0 ELSE 1 + CHOOSE j \in right : \A i \in right : i <= j
    BY <1>6 DEF Advance, WalkBack
  <2>2. ASSUME NEW j \in 0 .. k - 1 PROVE j \in right <=> Matched(y, aim, j + 1)
    <3>1. j \in 0 .. k /\ j \in Nat
      OBVIOUS
    <3>2. Matched(w, aim, j) <=> SubSeq(aim, 1, j) = SubSeq(aim, k - j + 1, k)
      BY <1>1, <1>3, <3>1, MatchedWithin
    <3> QED
      BY <1>2, <3>1, <3>2 DEF Overlaps
  <2>3. ASSUME NEW i \in 0 .. l, i > 0, Matched(y, aim, i) PROVE i - 1 \in right
    <3> DEFINE j == i - 1
    <3>1. j \in Nat /\ j + 1 = i /\ j \in 0 .. l
      BY <1>1, <2>3
    <3> HIDE DEF j, l, right
    <3>2. Matched(w, aim, j) /\ c = aim[j + 1]
      BY <1>2, <2>3, <3>1
    <3>3. ~(j > k) /\ j # k
      BY <1>3, <1>6, <3>1, <3>2
    <3>4. j \in 0 .. k - 1
      BY <1>1, <3>1, <3>3
    <3>5. j \in right
      BY <2>2, <2>3, <3>1, <3>4
    <3> QED
      BY <3>5 DEF j
  <2>4. right \in SUBSET (0 .. k)
    OBVIOUS
  <2>5. \A j \in right : j \in 0 .. k - 1
    OBVIOUS
  <2> HIDE DEF right, l
  <2>6. CASE right = {}
    <3>1. Advance(aim, k, c) = 0
      BY <2>1, <2>6
    <3>2. Matched(y, aim, 0)
      BY AppendProperties DEF Matched, y
    <3>3. \A i \in 0 .. l : i > 0 => ~Matched(y, aim, i)
      BY <2>3, <2>6
    <3> QED
      BY <1>1, <3>1, <3>2, <3>3 DEF Longest, y, l
  <2>7. CASE right # {}
    <3> DEFINE g == CHOOSE j \in right : \A i \in right : i <= j
    <3>1. \E j \in right : \A i \in right : i <= j
      BY <1>1, <2>4, <2>7, GreatestExists
    <3>2. g \in right /\ \A i \in right : i <= g
      BY <3>1
    <3>3. Advance(aim, k, c) = 1 + g
      BY <2>1, <2>7
    <3> HIDE DEF g
    <3>4. g \in 0 .. k - 1 /\ 1 + g = g + 1
      BY <2>5, <3>2
    <3>5. Matched(y, aim, g + 1)
      BY <2>2, <3>2, <3>4
    <3>6. ASSUME NEW i \in 0 .. l, i > g + 1 PROVE ~Matched(y, aim, i)
      <4> SUFFICES ASSUME Matched(y, aim, i) PROVE FALSE
        OBVIOUS
      <4>1. i > 0
        BY <1>1, <3>4, <3>6
      <4>2. i - 1 \in right
        BY <2>3, <4>1
      <4>3. i - 1 <= g
        BY <3>2, <4>2
      <4> QED
        BY <1>1, <3>4, <3>6, <4>3
    <3> QED
      BY <1>1, <3>3, <3>4, <3>5, <3>6 DEF Longest, y, l
  <2> QED
    BY <2>6, <2>7
<1> QED
  BY <1>5, <1>6

\* What ends with all of aim ...
LEMMA MatchedEnds ==
    ASSUME NEW S, NEW w \in Seq(S), NEW aim \in Seq(S)
    PROVE  Matched(w, aim, Len(aim)) <=> EndsWith(w, aim)
<1> DEFINE l == Len(aim)
           n == Len(w)
           d == n - l
           s == SubSeq(w, d + 1, n)
<1>1. l \in Nat /\ n \in Nat
  OBVIOUS
<1>2. EndsWith(w, aim) <=> n >= l /\ s = aim
  BY DEF EndsWith
<1>3. Matched(w, aim, l) <=> l <= n /\ \A i \in 1 .. l : w[d + i] = aim[i]
  BY DEF Matched
<1>4. ASSUME l <= n PROVE s = aim <=> \A i \in 1 .. l : w[d + i] = aim[i]
  <2>1. d \in 0 .. Len(w) /\ n \in d .. Len(w) /\ n - d = l
    BY <1>1, <1>4
  <2>2. s \in Seq(S) /\ Len(s) = n - d /\ \A i \in 1 .. n - d : s[i] = w[d + i]
    BY <2>1, PartIs
  <2> HIDE DEF s, d, n
  <2>3. Len(s) = Len(aim) /\ \A i \in 1 .. l : s[i] = w[d + i]
    BY <2>1, <2>2
  <2> QED
    BY <2>2, <2>3, SameText
<1> QED
  BY <1>1, <1>2, <1>3, <1>4

\* ... is the only one to contain it, if what came before does not.
LEMMA ContainsNext ==
    ASSUME NEW S, NEW w \in Seq(S), NEW aim \in Seq(S), NEW c \in S, ~Contains(w, aim),
           Contains(Append(w, c), aim)
    PROVE  EndsWith(Append(w, c), aim)
<1> DEFINE y == Append(w, c)
           l == Len(aim)
           n == Len(w)
<1>1. l \in Nat /\ n \in Nat /\ y \in Seq(S) /\ Len(y) = n + 1 /\ \A i \in 1 .. n : y[i] = w[i]
  BY AppendProperties
<1> HIDE DEF y
<1>2. PICK k \in 0 .. Len(y) - l : SubSeq(y, k + 1, k + l) = aim
  BY DEF Contains, y
<1>3. k \in Nat /\ k + l <= n + 1
  BY <1>1, <1>2
<1>4. CASE k + l = n + 1
  <2>1. k + 1 = n + 1 - l + 1 /\ n + 1 >= l
    BY <1>1, <1>3, <1>4
  <2> QED
    BY <1>1, <1>2, <1>4, <2>1 DEF EndsWith, y
<1>5. CASE k + l <= n
  <2>1. k \in 0 .. Len(y) /\ k + l \in k .. Len(y) /\ k \in 0 .. Len(w) /\ k + l \in k .. Len(w) /\ k + l - k = l
    BY <1>1, <1>3, <1>5
  <2> DEFINE a == SubSeq(y, k + 1, k + l)
             b == SubSeq(w, k + 1, k + l)
  <2>2. a \in Seq(S) /\ Len(a) = k + l - k /\ \A i \in 1 .. k + l - k : a[i] = y[k + i]
    BY <1>1, <2>1, PartIs
  <2>3. b \in Seq(S) /\ Len(b) = k + l - k /\ \A i \in 1 .. k + l - k : b[i] = w[k + i]
    BY <2>1, PartIs, SMTT(30)
  <2> HIDE DEF a, b, l, n
  <2>4. ASSUME NEW i \in 1 .. l PROVE a[i] = b[i]
    <3>1. k + i \in 1 .. n
      BY <1>1, <1>3, <1>5
    <3> QED
      BY <1>1, <2>1, <2>2, <2>3, <3>1
  <2>5. a = b
    BY <2>1, <2>2, <2>3, <2>4, SameText
  <2>6. k \in 0 .. n - l
    BY <1>1, <1>3, <1>5
  <2> QED
    BY <1>2, <2>5, <2>6 DEF Contains, a, b, l, n
<1> QED
  BY <1>1, <1>3, <1>4, <1>5

\* A target that is looked for and not found yet
Sought(w, aim, j) == j \in 0 .. Len(aim) - 1 /\ Longest(w, aim, j) /\ ~Contains(w, aim)

\* A call begins to look.
LEMMA SoughtFirst ==
    ASSUME NEW S, NEW aim \in Seq(S), aim # <<>>
    PROVE  Sought(<<>>, aim, 0)
<1>1. Len(aim) \in Nat /\ Len(aim) > 0 /\ Len(<<>>) = 0
  OBVIOUS
<1>2. Longest(<<>>, aim, 0)
  BY <1>1 DEF Longest, Matched
<1>3. ~Contains(<<>>, aim)
  BY <1>1 DEF Contains
<1> QED
  BY <1>1, <1>2, <1>3 DEF Sought

\* One byte more: still looked for, or found just now
LEMMA SoughtNext ==
    ASSUME NEW S, NEW w \in Seq(S), NEW aim \in Seq(S), NEW j, Sought(w, aim, j), NEW c \in S
    PROVE  /\ Advance(aim, j, c) \in 0 .. Len(aim)
           /\ Advance(aim, j, c) = Len(aim) => EndsWith(Append(w, c), aim)
           /\ Advance(aim, j, c) # Len(aim) => Sought(Append(w, c), aim, Advance(aim, j, c))
<1> DEFINE y == Append(w, c)
           i == Advance(aim, j, c)
           l == Len(aim)
<1>1. l \in Nat /\ y \in Seq(S)
  BY AppendProperties
<1>2. j \in 0 .. Len(aim) - 1 /\ Longest(w, aim, j) /\ ~Contains(w, aim)
  BY DEF Sought
<1>3. i \in 0 .. l /\ Longest(y, aim, i)
  BY <1>2, Advances
<1> HIDE DEF y, i
<1>4. Matched(y, aim, l) <=> EndsWith(y, aim)
  BY <1>1, MatchedEnds
<1>5. ASSUME i = l PROVE EndsWith(y, aim)
  BY <1>3, <1>4, <1>5 DEF Longest
<1>6. ASSUME i # l PROVE Sought(y, aim, i)
  <2>1. ~EndsWith(y, aim)
    <3>1. l \in 0 .. Len(aim) /\ l > i
      BY <1>1, <1>3, <1>6
    <3>2. ~Matched(y, aim, l)
      BY <1>3, <3>1 DEF Longest
    <3> QED
      BY <1>4, <3>2
  <2>2. ~Contains(y, aim)
    BY <1>2, <2>1, ContainsNext DEF y
  <2>3. i \in 0 .. l - 1
    BY <1>1, <1>3, <1>6
  <2> QED
    BY <1>3, <2>2, <2>3 DEF Sought
<1> QED
  BY <1>3, <1>5, <1>6 DEF y, i

\* The targets
LEMMA TextsAre ==
    ASSUME NEW aim \in Texts
    PROVE  aim \in Seq(Bytes) /\ Len(aim) \in 0 .. MaxTarget
<1>1. PICK n \in 0 .. MaxTarget : aim \in [1 .. n -> Letters]
  BY DEF Texts
<1>2. n \in Nat /\ aim \in [1 .. n -> Bytes]
  <2>1. n \in Nat /\ \A c \in Letters : c \in Bytes
    BY StreamAssumption DEF Bytes
  <2>2. \A i \in 1 .. n : aim[i] \in Bytes
    BY <1>1, <2>1
  <2> QED
    BY <1>1, <2>1, <2>2
<1>3. aim \in Seq(Bytes) /\ Len(aim) = n
  BY <1>2
<1> QED
  BY <1>3

\* LeastOf() is of the set.
LEMMA LeastOfIs ==
    ASSUME NEW S \in SUBSET Nat, S # {}
    PROVE  LeastOf(S) \in S
<1>1. \E k \in S : \A l \in S : k <= l
  BY LeastExists
<1> QED
  BY <1>1 DEF LeastOf

StreamTyped ==
    /\ taken \in Seq(Bytes) /\ byte \in Bytes \union {NoByte} /\ outcome \in Int /\ waited \in 0 .. TIMEOUT
    /\ index \in Seq(0 .. MaxTarget) /\ value \in Nat

\* Of each target as much is matched as can be, and while the call waits none is found.
FindInv ==
    query.f = "find" =>
        /\ query.targets \in Seq(Texts) /\ DOMAIN index = DOMAIN query.targets
        /\ stage = "wait" =>
              outcome = 0 /\ \A k \in DOMAIN index : Sought(taken, query.targets[k], index[k])
        /\ \A k \in DOMAIN query.targets : outcome = k => EndsWith(taken, query.targets[k])

LEMMA FindIsTrue == ASSUME FindInv PROVE FindsFirst
BY DEF FindInv, FindsFirst, Sought

\* A call of find() or findUntil()
LEMMA FindMultiFinds ==
    ASSUME NEW ts \in Seq(Texts), findMulti(ts)
    PROVE  FindInv' /\ outcome' \in Int /\ index' \in Seq(0 .. MaxTarget)
<1> DEFINE empty == {k \in DOMAIN ts : ts[k] = <<>>}
<1>1. /\ query' = [f |-> "find", targets |-> ts] /\ taken' = <<>>
      /\ outcome' = IF empty = {} THEN 0 ELSE LeastOf(empty)
      /\ stage' = (IF empty = {} THEN "wait" ELSE "return")
      /\ index' = [k \in DOMAIN ts |-> 0]
  BY DEF findMulti, Asks
<1>2. DOMAIN ts = 1 .. Len(ts) /\ Len(ts) \in Nat
  OBVIOUS
<1>3. 0 \in 0 .. MaxTarget
  BY StreamAssumption
<1>4. index' \in Seq(0 .. MaxTarget) /\ DOMAIN index' = DOMAIN ts /\ \A k \in DOMAIN ts : index'[k] = 0
  <2>1. index' = [k \in 1 .. Len(ts) |-> 0]
    BY <1>1, <1>2
  <2>2. index' \in [1 .. Len(ts) -> 0 .. MaxTarget]
    BY <1>3, <2>1
  <2> QED
    BY <1>2, <2>1, <2>2
<1>5. query'.f = "find" /\ query'.targets = ts
  BY <1>1
<1>6. empty \in SUBSET Nat /\ 0 \notin DOMAIN ts
  BY <1>2
<1>7. \A k \in empty : k \in DOMAIN ts /\ ts[k] = <<>>
  OBVIOUS
<1>8. \A k \in DOMAIN ts : k \notin empty => ts[k] # <<>>
  OBVIOUS
<1> HIDE DEF empty
<1>9. CASE empty = {}
  <2>1. outcome' = 0 /\ stage' = "wait"
    BY <1>1, <1>9
  <2>2. ASSUME NEW k \in DOMAIN ts PROVE Sought(taken', ts[k], index'[k])
    <3>1. ts[k] # <<>> /\ ts[k] \in Seq(Bytes)
      BY <1>8, <1>9, TextsAre
    <3>2. Sought(<<>>, ts[k], 0)
      BY <3>1, SoughtFirst
    <3> QED
      BY <1>1, <1>4, <3>2
  <2>3. \A k \in DOMAIN ts : outcome' # k
    BY <1>6, <2>1
  <2> QED
    BY <1>4, <1>5, <2>1, <2>2, <2>3 DEF FindInv
<1>10. CASE empty # {}
  <2>1. outcome' \in empty /\ stage' = "return"
    BY <1>1, <1>6, <1>10, LeastOfIs
  <2>2. outcome' \in Int
    BY <1>6, <2>1
  <2>3. ASSUME NEW k \in DOMAIN ts, outcome' = k PROVE EndsWith(taken', ts[k])
    <3>1. ts[k] = <<>> /\ taken' = <<>>
      BY <1>1, <1>7, <2>1, <2>3
    <3>2. EndsWith(<<>>, <<>>)
      BY DEF EndsWith
    <3> QED
      BY <3>1, <3>2
  <2> QED
    BY <1>4, <1>5, <2>1, <2>2, <2>3 DEF FindInv
<1> QED
  BY <1>9, <1>10

\* One byte more for it
LEMMA MatchFinds ==
    ASSUME FindInv, taken \in Seq(Bytes), byte \in Bytes, index \in Seq(0 .. MaxTarget),
           stage = "wait", Match, UNCHANGED query
    PROVE  /\ FindInv' /\ outcome' \in Int /\ index' \in Seq(0 .. MaxTarget)
           /\ taken' \in Seq(Bytes) /\ byte' = NoByte
<1> DEFINE ts == query.targets
           whole == {k \in DOMAIN index : index'[k] = Len(ts[k])}
           y == Append(taken, byte)
<1>1. /\ query.f = "find" /\ query' = query
      /\ index' = [k \in DOMAIN index |-> Advance(ts[k], index[k], byte)]
      /\ outcome' = (IF whole = {} THEN 0 ELSE LeastOf(whole))
      /\ stage' = (IF whole = {} THEN "wait" ELSE "return")
      /\ taken' = y /\ byte' = NoByte
  BY DEF Match
<1>2. ts \in Seq(Texts) /\ DOMAIN index = DOMAIN ts /\ \A k \in DOMAIN ts : Sought(taken, ts[k], index[k])
  BY <1>1 DEF FindInv
<1> HIDE DEF ts
<1>3. DOMAIN ts = 1 .. Len(ts) /\ Len(ts) \in Nat
  BY <1>2
<1>4. DOMAIN index' = DOMAIN ts /\ \A k \in DOMAIN ts : index'[k] = Advance(ts[k], index[k], byte)
  BY <1>1, <1>2
<1>5. ASSUME NEW k \in DOMAIN ts
      PROVE  /\ index'[k] \in 0 .. Len(ts[k]) /\ Len(ts[k]) \in 0 .. MaxTarget
             /\ index'[k] = Len(ts[k]) => EndsWith(y, ts[k])
             /\ index'[k] # Len(ts[k]) => Sought(y, ts[k], index'[k])
  <2> DEFINE aim == ts[k]
             j == index[k]
  <2>1. aim \in Seq(Bytes) /\ Len(aim) \in 0 .. MaxTarget
    BY <1>2, TextsAre
  <2>2. Sought(taken, aim, j)
    BY <1>2
  <2>3. index'[k] = Advance(aim, j, byte)
    BY <1>4
  <2> HIDE DEF aim, j, y
  <2>4. /\ Advance(aim, j, byte) \in 0 .. Len(aim)
        /\ Advance(aim, j, byte) = Len(aim) => EndsWith(Append(taken, byte), aim)
        /\ Advance(aim, j, byte) # Len(aim) => Sought(Append(taken, byte), aim, Advance(aim, j, byte))
    BY <2>1, <2>2, SoughtNext
  <2> QED
    BY <2>1, <2>3, <2>4 DEF aim, y
<1>6. index' \in Seq(0 .. MaxTarget)
  <2> DEFINE a(k) == Advance(ts[k], index[k], byte)
             n == Len(ts)
  <2>1. index' = [k \in 1 .. n |-> a(k)]
    BY <1>1, <1>2, <1>3
  <2>2. ASSUME NEW k \in 1 .. n PROVE a(k) \in 0 .. MaxTarget
    <3>1. a(k) \in 0 .. Len(ts[k]) /\ Len(ts[k]) \in 0 .. MaxTarget
      BY <1>3, <1>4, <1>5
    <3> HIDE DEF a
    <3> QED
      BY <3>1, StreamAssumption
  <2>4. n \in Nat
    BY <1>3
  <2> HIDE DEF a, n
  <2>3. index' \in [1 .. n -> 0 .. MaxTarget]
    BY <2>1, <2>2
  <2> DEFINE M == 0 .. MaxTarget
  <2>5. index' \in [1 .. n -> M]
    BY <2>3
  <2> HIDE DEF M
  <2>6. index' \in Seq(M)
    BY <2>4, <2>5
  <2> QED
    BY <2>6 DEF M
<1>7. taken' \in Seq(Bytes) /\ byte' = NoByte
  <2>1. y \in Seq(Bytes)
    BY AppendProperties
  <2> HIDE DEF y
  <2>2. taken' \in Seq(Bytes)
    BY <1>1, <2>1
  <2> QED
    BY <1>1, <2>2
<1>8. whole \in SUBSET Nat /\ 0 \notin DOMAIN ts
  BY <1>2, <1>3
<1>9. \A k \in DOMAIN ts : k \in whole <=> index'[k] = Len(ts[k])
  BY <1>2
<1>10. \A k \in whole : k \in DOMAIN ts
  BY <1>2
<1>11. query'.f = "find" /\ query'.targets = ts
  BY <1>1 DEF ts
<1> HIDE DEF whole, y
<1>12. CASE whole = {}
  <2>1. outcome' = 0 /\ stage' = "wait"
    BY <1>1, <1>12
  <2>2. \A k \in DOMAIN ts : Sought(taken', ts[k], index'[k])
    BY <1>1, <1>5, <1>9, <1>12
  <2>3. \A k \in DOMAIN ts : outcome' # k
    BY <1>8, <2>1
  <2> QED
    BY <1>2, <1>4, <1>6, <1>7, <1>11, <2>1, <2>2, <2>3 DEF FindInv
<1>13. CASE whole # {}
  <2>1. outcome' \in whole /\ stage' = "return"
    BY <1>1, <1>8, <1>13, LeastOfIs
  <2>2. outcome' \in Int
    BY <1>8, <2>1
  <2>3. ASSUME NEW k \in DOMAIN ts, outcome' = k PROVE EndsWith(taken', ts[k])
    BY <1>1, <1>5, <1>9, <2>1, <2>3
  <2> QED
    BY <1>2, <1>4, <1>6, <1>7, <1>11, <2>1, <2>2, <2>3 DEF FindInv
<1> QED
  BY <1>12, <1>13

\* The numbers of ones are numbers, each made of the one before it.
LEMMA OnesAre == Ones[0] = 0 /\ \A n \in Nat : Ones[n] \in Nat /\ Ones[n + 1] = Ones[n] * 10 + 1
<1> DEFINE Solves(u) == u = [n \in Nat |-> IF n = 0 THEN 0 ELSE u[n - 1] * 10 + 1]
           V == Nat
           make == [a \in Nat \X Series(V) |-> IF a[1] = 0 THEN 0 ELSE a[2][a[1] - 1] * 10 + 1]
<1>1. make \in Builders(V)
  <2>1. ASSUME NEW n \in Nat, NEW h \in Series(V)
        PROVE  (IF n = 0 THEN 0 ELSE h[n - 1] * 10 + 1) \in V
    <3>1. CASE n = 0
      BY <3>1
    <3>2. CASE n # 0
      <4>1. h[n - 1] \in Nat
        BY <3>2 DEF Series
      <4> QED
        BY <3>2, <4>1
    <3> QED
      BY <3>1, <3>2
  <2>2. ASSUME NEW a \in Nat \X Series(V)
        PROVE  (IF a[1] = 0 THEN 0 ELSE a[2][a[1] - 1] * 10 + 1) \in V
    <3>1. a[1] \in Nat /\ a[2] \in Series(V)
      OBVIOUS
    <3> HIDE DEF V
    <3> QED
      BY <2>1, <3>1
  <2> HIDE DEF V
  <2> QED
    BY <2>2 DEF Builders
<1>2. \A n \in Nat, h \in Series(V) : make[<<n, h>>] = IF n = 0 THEN 0 ELSE h[n - 1] * 10 + 1
  OBVIOUS
<1> HIDE DEF make
<1>3. LooksBack(V, make)
  <2>1. ASSUME NEW n \in Nat, NEW g \in Series(V), NEW h \in Series(V), \A w \in 0 .. n - 1 : g[w] = h[w]
        PROVE  make[<<n, g>>] = make[<<n, h>>]
    <3>1. n # 0 => g[n - 1] = h[n - 1]
      BY <2>1
    <3> QED
      BY <1>2, <3>1
  <2> QED
    BY <2>1 DEF LooksBack
<1>4. PICK g \in Series(V) : \A n \in Nat : g[n] = make[<<n, g>>]
  <2>1. 0 \in V
    OBVIOUS
  <2> HIDE DEF V
  <2>2. \E g \in Series(V) : Built(g, make)
    BY <1>1, <1>3, <2>1, EarlierExists
  <2> QED
    BY <2>2 DEF Built
<1>5. Solves(g)
  <2>1. \A n \in Nat : g[n] = IF n = 0 THEN 0 ELSE g[n - 1] * 10 + 1
    BY <1>2, <1>4
  <2> QED
    BY <2>1 DEF Series
<1>6. Ones = CHOOSE u : Solves(u)
  BY DEF Ones
<1>7. Solves(Ones)
  <2> HIDE DEF Solves
  <2> QED
    BY <1>5, <1>6
<1>8. \A n \in Nat : Ones[n] = IF n = 0 THEN 0 ELSE Ones[n - 1] * 10 + 1
  BY <1>7
<1> DEFINE S == {n \in Nat : Ones[n] \in Nat}
<1>9. ASSUME NEW n \in Nat, \A w \in 0 .. n - 1 : w \in S PROVE n \in S
  <2>1. CASE n = 0
    BY <1>8, <2>1
  <2>2. CASE n # 0
    <3>1. Ones[n - 1] \in Nat
      BY <1>9, <2>2
    <3> QED
      BY <1>8, <2>2, <3>1
  <2> QED
    BY <2>1, <2>2
<1> HIDE DEF S
<1>10. \A n \in Nat : n \in S
  BY <1>9, UpInduction
<1>11. \A n \in Nat : Ones[n] \in Nat
  BY <1>10 DEF S
<1>12. ASSUME NEW n \in Nat PROVE Ones[n + 1] = Ones[n] * 10 + 1
  <2>1. n + 1 \in Nat /\ n + 1 # 0 /\ n + 1 - 1 = n
    OBVIOUS
  <2> QED
    BY <1>8, <2>1
<1>13. Ones[0] = 0
  BY <1>8
<1> QED
  BY <1>11, <1>12, <1>13

PlacesOf(w, c) == {k \in DOMAIN w : w[k] = c}

\* One byte more: a place more of this byte
LEMMA PlacesNext ==
    ASSUME NEW S, NEW w \in Seq(S), NEW b \in S, NEW c
    PROVE  /\ IsFiniteSet(PlacesOf(w, c)) /\ Cardinality(PlacesOf(w, c)) \in Nat
           /\ b # c => PlacesOf(Append(w, b), c) = PlacesOf(w, c)
           /\ b = c => /\ PlacesOf(Append(w, b), c) = PlacesOf(w, c) \union {Len(w) + 1}
                       /\ Cardinality(PlacesOf(Append(w, b), c)) = Cardinality(PlacesOf(w, c)) + 1
<1> DEFINE p == PlacesOf(w, c)
           y == Append(w, b)
           n == Len(w)
<1>1. n \in Nat /\ DOMAIN w = 1 .. n
  OBVIOUS
<1>2. DOMAIN y = 1 .. n + 1 /\ (\A k \in 1 .. n : y[k] = w[k]) /\ y[n + 1] = b
  <2>1. y \in Seq(S) /\ Len(y) = n + 1 /\ (\A k \in 1 .. n : y[k] = w[k]) /\ y[n + 1] = b
    BY AppendProperties
  <2> HIDE DEF y
  <2> QED
    BY <2>1
<1> HIDE DEF y, n
<1>3. p \subseteq 1 .. n /\ n + 1 \notin p
  BY <1>1 DEF PlacesOf
<1>4. IsFiniteSet(p)
  <2>1. IsFiniteSet(1 .. n)
    BY <1>1, FS_Interval
  <2> HIDE DEF p
  <2> QED
    BY <1>3, <2>1, FS_Subset
<1>5. Cardinality(p) \in Nat
  <2> HIDE DEF p
  <2> QED
    BY <1>4, FS_CardinalityType
<1>6. \A k : k \in 1 .. n + 1 <=> k \in 1 .. n \/ k = n + 1
  BY <1>1
<1>7. b # c => PlacesOf(y, c) = p
  BY <1>1, <1>2, <1>6 DEF PlacesOf
<1>8. b = c => PlacesOf(y, c) = p \union {n + 1}
  BY <1>1, <1>2, <1>6 DEF PlacesOf
<1>9. Cardinality(p \union {n + 1}) = Cardinality(p) + 1
  <2> HIDE DEF p
  <2> QED
    BY <1>3, <1>4, FS_AddElement
<1> QED
  BY <1>4, <1>5, <1>7, <1>8, <1>9 DEF y, n

OnesIn  == PlacesOf(taken, Digit)
SignsIn == PlacesOf(taken, Sign)

\* What parseInt() has read is a number: a sign first if any, and the digits in value.
ParseInv == query.f = "parse" =>
    /\ query.ignore # Sign /\ (~numeric => taken = <<>>)
    /\ value = Ones[Cardinality(OnesIn)]
    /\ (isNegative <=> SignsIn # {}) /\ SignsIn \subseteq {1}
    /\ stage = "return" => outcome = Parsed /\ byte # Digit

StreamInv == StreamTyped /\ FindInv /\ ParseInv

LEMMA EmptyPlaces == ASSUME NEW c PROVE PlacesOf(<<>>, c) = {} /\ Ones[Cardinality({})] = 0
<1>1. PlacesOf(<<>>, c) = {}
  BY DEF PlacesOf
<1> QED
  BY <1>1, FS_EmptySet, OnesAre

\* What parseInt() returns is what it read.
LEMMA ParseIsTrue == ASSUME StreamTyped, ParseInv PROVE ReadsNumber
<1> SUFFICES ASSUME query.f = "parse", stage = "return" PROVE ReadsNumber
  BY DEF ReadsNumber
<1>1. /\ value = Ones[Cardinality(OnesIn)] /\ (isNegative <=> SignsIn # {}) /\ SignsIn \subseteq {1}
      /\ outcome = Parsed /\ byte # Digit
  BY DEF ParseInv
<1>2. outcome = (IF SignsIn = {} THEN Ones[Cardinality(OnesIn)] ELSE -Ones[Cardinality(OnesIn)])
  BY <1>1 DEF Parsed
<1>3. Cardinality(SignsIn) <= 1
  <2>1. CASE SignsIn = {}
    BY <2>1, FS_EmptySet
  <2>2. CASE SignsIn # {}
    <3>1. SignsIn = {1}
      BY <1>1, <2>2
    <3>2. Cardinality({1}) = 1
      BY FS_Singleton
    <3> QED
      BY <3>1, <3>2
  <2> QED
    BY <2>1, <2>2
<1>4. ASSUME NEW k \in SignsIn, NEW l \in OnesIn PROVE k < l
  <2>1. k = 1 /\ taken[k] = Sign /\ taken[l] = Digit /\ l \in DOMAIN taken
    BY <1>1, <1>4 DEF SignsIn, OnesIn, PlacesOf
  <2>2. DOMAIN taken = 1 .. Len(taken) /\ Len(taken) \in Nat
    BY DEF StreamTyped
  <2>3. Sign # Digit
    BY DEF Sign, Digit
  <2>4. l # 1 /\ l \in Nat /\ l >= 1
    BY <2>1, <2>2, <2>3
  <2> QED
    BY <2>1, <2>4
<1> QED
  BY <1>1, <1>2, <1>3, <1>4 DEF ReadsNumber, OnesIn, SignsIn, PlacesOf

\* One byte more for it
LEMMA CountParses ==
    ASSUME StreamTyped, ParseInv, stage = "wait", byte \in Bytes, Count, UNCHANGED query
    PROVE  ParseInv' /\ value' \in Nat /\ taken' \in Seq(Bytes)
<1> DEFINE y == Append(taken, byte)
<1>1. /\ query.f = "parse" /\ query' = query /\ taken' = y /\ stage' = stage
      /\ numeric' = TRUE /\ (isNegative' <=> isNegative \/ byte = Sign)
      /\ value' = (IF byte = Digit THEN value * 10 + 1 ELSE value)
      /\ (numeric => byte = Digit \/ byte = query.ignore)
  BY DEF Count, Goes
<1>2. /\ query.ignore # Sign /\ (~numeric => taken = <<>>) /\ value = Ones[Cardinality(OnesIn)]
      /\ (isNegative <=> SignsIn # {}) /\ SignsIn \subseteq {1}
  BY <1>1 DEF ParseInv
<1>3. taken \in Seq(Bytes) /\ value \in Nat /\ y \in Seq(Bytes)
  BY AppendProperties DEF StreamTyped
<1>4. Sign # Digit
  BY DEF Sign, Digit
<1>5. /\ Cardinality(OnesIn) \in Nat
      /\ byte # Digit => PlacesOf(y, Digit) = OnesIn
      /\ byte = Digit => Cardinality(PlacesOf(y, Digit)) = Cardinality(OnesIn) + 1
  BY <1>3, PlacesNext DEF OnesIn
<1>6. /\ byte # Sign => PlacesOf(y, Sign) = SignsIn
      /\ byte = Sign => PlacesOf(y, Sign) = SignsIn \union {Len(taken) + 1}
  BY <1>3, PlacesNext DEF SignsIn
<1>7. OnesIn' = PlacesOf(y, Digit) /\ SignsIn' = PlacesOf(y, Sign)
  BY <1>1 DEF OnesIn, SignsIn
<1> HIDE DEF y
<1>8. value' = Ones[Cardinality(OnesIn')]
  <2>1. CASE byte = Digit
    <3> DEFINE n == Cardinality(OnesIn)
    <3>1. n \in Nat /\ Cardinality(OnesIn') = n + 1 /\ value' = Ones[n] * 10 + 1
      BY <1>1, <1>2, <1>5, <1>7, <2>1
    <3> HIDE DEF n
    <3>2. Ones[n + 1] = Ones[n] * 10 + 1
      BY <3>1, OnesAre
    <3> QED
      BY <3>1, <3>2
  <2>2. CASE byte # Digit
    BY <1>1, <1>2, <1>5, <1>7, <2>2
  <2> QED
    BY <2>1, <2>2
<1>9. (isNegative' <=> SignsIn' # {}) /\ SignsIn' \subseteq {1}
  <2>1. CASE byte = Sign
    <3>1. ~numeric
      BY <1>1, <1>2, <1>4, <2>1
    <3>2. taken = <<>> /\ Len(<<>>) + 1 = 1
      BY <1>2, <3>1
    <3>3. SignsIn' = SignsIn \union {1}
      BY <1>6, <1>7, <2>1, <3>2
    <3> QED
      BY <1>1, <1>2, <2>1, <3>3
  <2>2. CASE byte # Sign
    BY <1>1, <1>2, <1>6, <1>7, <2>2
  <2> QED
    BY <2>1, <2>2
<1>10. value' \in Nat
  BY <1>1, <1>3
<1>11. query'.ignore # Sign /\ numeric' /\ stage' # "return"
  BY <1>1, <1>2
<1> QED
  BY <1>1, <1>3, <1>8, <1>9, <1>10, <1>11 DEF ParseInv

\* The end of a number
LEMMA EndsParse ==
    ASSUME StreamTyped, ParseInv, query.f = "parse", stage = "wait",
           UNCHANGED <<byte, query, taken, value, isNegative, numeric>>, stage' = "return",
           outcome' = Parsed, byte # Digit
    PROVE  ParseInv' /\ outcome' \in Int
<1>1. OnesIn' = OnesIn /\ SignsIn' = SignsIn /\ Parsed' = Parsed
  BY DEF OnesIn, SignsIn, Parsed
<1>2. Parsed \in Int
  BY DEF Parsed, StreamTyped
<1> QED
  BY <1>1, <1>2 DEF ParseInv

\* The steps of a call keep what is known, one by one.
LEMMA PollKeeps == ASSUME StreamInv, Poll PROVE StreamInv'
<1>1. /\ stage = "wait" /\ byte \in Bytes /\ waited' = 0 /\ query' = query
      /\ Match \/ Store \/ Skip \/ Refuse \/ Count \/ EndOfNumber
  BY DEF Poll, StreamInv, StreamTyped
<1>2. waited' \in 0 .. TIMEOUT
  BY <1>1, StreamAssumption
<1>3. StreamTyped /\ FindInv /\ ParseInv
  BY DEF StreamInv
<1>4. CASE Match
  <2>1. /\ FindInv' /\ outcome' \in Int /\ index' \in Seq(0 .. MaxTarget)
        /\ taken' \in Seq(Bytes) /\ byte' = NoByte
    BY <1>1, <1>3, <1>4, MatchFinds DEF StreamTyped
  <2>2. value' = value /\ query'.f = "find"
    BY <1>1, <1>4 DEF Match
  <2> QED
    BY <1>2, <1>3, <2>1, <2>2 DEF StreamInv, StreamTyped, ParseInv
<1>5. CASE Store
  <2>1. /\ query'.f = "read" /\ taken' = Append(taken, byte) /\ byte' = NoByte
        /\ UNCHANGED <<index, value>>
        /\ outcome' = outcome \/ outcome' = outcome + 1
    BY <1>1, <1>5 DEF Store
  <2>2. taken' \in Seq(Bytes)
    BY <1>1, <1>3, <2>1, AppendProperties DEF StreamTyped
  <2>3. outcome' \in Int
    BY <1>3, <2>1 DEF StreamTyped
  <2> QED
    BY <1>2, <1>3, <2>1, <2>2, <2>3 DEF StreamInv, StreamTyped, FindInv, ParseInv
<1>6. CASE Skip
  <2>1. /\ query'.f = "parse" /\ byte' = NoByte
        /\ UNCHANGED <<stage, outcome, taken, index, value, isNegative, numeric>>
    BY <1>1, <1>6 DEF Skip
  <2>2. ParseInv'
    BY <1>1, <1>3, <2>1 DEF ParseInv, OnesIn, SignsIn
  <2> QED
    BY <1>2, <1>3, <2>1, <2>2 DEF StreamInv, StreamTyped, FindInv
<1>7. CASE Refuse
  <2>1. /\ query.f = "parse" /\ ~numeric /\ stage' = "return" /\ outcome' = 0 /\ byte # Digit
        /\ UNCHANGED <<byte, taken, index, value, isNegative, numeric>>
    BY <1>7 DEF Refuse, Numeric
  <2>2. Parsed = 0
    <3>1. taken = <<>>
      BY <1>3, <2>1 DEF ParseInv
    <3>2. SignsIn = {} /\ OnesIn = {} /\ Ones[Cardinality({})] = 0
      BY <3>1, EmptyPlaces DEF SignsIn, OnesIn
    <3> QED
      BY <1>3, <2>1, <3>2 DEF ParseInv, Parsed
  <2>3. ParseInv' /\ outcome' \in Int
    BY <1>1, <1>3, <2>1, <2>2, EndsParse
  <2> QED
    BY <1>1, <1>2, <1>3, <2>1, <2>3 DEF StreamInv, StreamTyped, FindInv
<1>8. CASE Count
  <2>1. ParseInv' /\ value' \in Nat /\ taken' \in Seq(Bytes)
    BY <1>1, <1>3, <1>8, CountParses
  <2>2. query'.f = "parse" /\ byte' = NoByte /\ UNCHANGED <<outcome, index>>
    BY <1>1, <1>8 DEF Count
  <2> QED
    BY <1>2, <1>3, <2>1, <2>2 DEF StreamInv, StreamTyped, FindInv
<1>9. CASE EndOfNumber
  <2>1. /\ query.f = "parse" /\ stage' = "return" /\ outcome' = Parsed /\ byte # Digit
        /\ UNCHANGED <<byte, taken, index, value, isNegative, numeric>>
    BY <1>9 DEF EndOfNumber, Goes
  <2>2. ParseInv' /\ outcome' \in Int
    BY <1>1, <1>3, <2>1, EndsParse
  <2> QED
    BY <1>1, <1>2, <1>3, <2>1, <2>2 DEF StreamInv, StreamTyped, FindInv
<1> QED
  BY <1>1, <1>4, <1>5, <1>6, <1>7, <1>8, <1>9

LEMMA TimedOutKeeps == ASSUME StreamInv, TimedOut PROVE StreamInv'
<1>1. StreamTyped /\ FindInv /\ ParseInv
  BY DEF StreamInv
<1>2. /\ stage = "wait" /\ byte = NoByte /\ stage' = "return"
      /\ outcome' = (IF query.f = "parse" THEN Parsed ELSE outcome)
      /\ UNCHANGED <<byte, query, index, value, isNegative, numeric, waited, taken>>
  BY DEF TimedOut
<1>3. byte # Digit
  BY <1>2 DEF NoByte, Digit
<1>4. CASE query.f = "parse"
  <2>1. ParseInv' /\ outcome' \in Int
    BY <1>1, <1>2, <1>3, <1>4, EndsParse
  <2> QED
    BY <1>1, <1>2, <1>4, <2>1 DEF StreamInv, StreamTyped, FindInv
<1>5. CASE query.f # "parse"
  BY <1>1, <1>2, <1>5 DEF StreamInv, StreamTyped, FindInv, ParseInv
<1> QED
  BY <1>4, <1>5

LEMMA AsksKeeps ==
    ASSUME StreamInv, NEW q, NEW n \in Int, NEW b, Asks(q, n, b), q.f = "read" PROVE StreamInv'
<1>1. /\ query' = q /\ taken' = <<>> /\ outcome' = n /\ index' = <<>> /\ waited' = 0 /\ value' = 0
      /\ byte' = byte
  BY DEF Asks
<1>2. <<>> \in Seq(Bytes) /\ <<>> \in Seq(0 .. MaxTarget) /\ 0 \in 0 .. TIMEOUT
  BY StreamAssumption
<1> QED
  BY <1>1, <1>2 DEF StreamInv, StreamTyped, FindInv, ParseInv

LEMMA ParseIntKeeps ==
    ASSUME StreamInv, NEW l, NEW c, c # Sign, parseInt(l, c) PROVE StreamInv'
<1>1. /\ query' = [f |-> "parse", lookahead |-> l, ignore |-> c]
      /\ taken' = <<>> /\ outcome' = 0 /\ index' = <<>> /\ waited' = 0 /\ value' = 0
      /\ byte' = byte /\ isNegative' = FALSE /\ stage' = "wait"
  BY DEF parseInt, Asks
<1>2. SignsIn' = {} /\ OnesIn' = {} /\ Ones[Cardinality({})] = 0
  BY <1>1, EmptyPlaces DEF SignsIn, OnesIn
<1>3. <<>> \in Seq(Bytes) /\ <<>> \in Seq(0 .. MaxTarget) /\ 0 \in 0 .. TIMEOUT
  BY StreamAssumption
<1>4. ParseInv'
  BY <1>1, <1>2 DEF ParseInv
<1>5. FindInv'
  BY <1>1 DEF FindInv
<1> QED
  BY <1>1, <1>3, <1>4, <1>5 DEF StreamInv, StreamTyped

LEMMA FindMultiKeeps ==
    ASSUME StreamInv, NEW ts \in Seq(Texts), findMulti(ts) PROVE StreamInv'
<1>1. FindInv' /\ outcome' \in Int /\ index' \in Seq(0 .. MaxTarget)
  BY FindMultiFinds
<1>2. query' = [f |-> "find", targets |-> ts] /\ taken' = <<>> /\ waited' = 0 /\ value' = 0 /\ byte' = byte
  BY DEF findMulti, Asks
<1>3. <<>> \in Seq(Bytes) /\ 0 \in 0 .. TIMEOUT
  BY StreamAssumption
<1> QED
  BY <1>1, <1>2, <1>3 DEF StreamInv, StreamTyped, ParseInv

LEMMA StreamStepKeeps == ASSUME StreamInv, StreamNext PROVE StreamInv'
<1>1. ASSUME NEW aim \in Texts, findMulti(<<aim>>) \/ \E u \in Texts : Len(u) < MaxTarget /\ findMulti(<<aim, u>>)
      PROVE  StreamInv'
  <2>1. <<aim>> \in Seq(Texts) /\ \A u \in Texts : <<aim, u>> \in Seq(Texts)
    OBVIOUS
  <2> QED
    BY <1>1, <2>1, FindMultiKeeps
<1>2. ASSUME NEW c, NEW n, readBytesUntil(c, n) PROVE StreamInv'
  <2> DEFINE q == [f |-> "read", terminator |-> c, length |-> n]
  <2>1. Asks(q, 0, n > 0) /\ q.f = "read"
    BY <1>2 DEF readBytesUntil
  <2> HIDE DEF q
  <2> QED
    BY <2>1, AsksKeeps
<1>3. ASSUME NEW l, NEW c \in {Space, NoByte}, parseInt(l, c) PROVE StreamInv'
  <2>1. c # Sign
    BY DEF Space, NoByte, Sign
  <2> QED
    BY <1>3, <2>1, ParseIntKeeps
<1>4. CASE Leave
  <2>1. /\ query' = NoQuery /\ taken' = <<>> /\ index' = <<>> /\ value' = 0 /\ waited' = 0
        /\ outcome' = 0 /\ byte' = byte
    BY <1>4 DEF Leave
  <2>2. <<>> \in Seq(Bytes) /\ <<>> \in Seq(0 .. MaxTarget) /\ 0 \in 0 .. TIMEOUT
    BY StreamAssumption
  <2> QED
    BY <2>1, <2>2 DEF StreamInv, StreamTyped, FindInv, ParseInv, NoQuery
<1>5. CASE TickStream
  <2>1. /\ stage = "wait" /\ waited < TIMEOUT /\ waited' = waited + 1
        /\ UNCHANGED <<byte, query, stage, index, value, isNegative, numeric, outcome, taken>>
    BY <1>5 DEF TickStream
  <2>2. waited' \in 0 .. TIMEOUT
    BY <2>1, StreamAssumption DEF StreamInv, StreamTyped
  <2>3. StreamTyped'
    BY <2>1, <2>2 DEF StreamInv, StreamTyped
  <2>4. FindInv'
    BY <2>1 DEF StreamInv, FindInv
  <2>5. ParseInv'
    BY <2>1 DEF StreamInv, ParseInv, OnesIn, SignsIn
  <2> QED
    BY <2>3, <2>4, <2>5 DEF StreamInv
<1>6. ASSUME NEW c \in Heard, Arrive(c) PROVE StreamInv'
  <2>1. /\ stage = "wait" /\ byte' = c
        /\ UNCHANGED <<query, stage, index, value, isNegative, numeric, waited, outcome, taken>>
    BY <1>6 DEF Arrive
  <2>2. c \in Bytes
    <3>1. (CHOOSE l \in Letters : TRUE) \in Letters
      BY StreamAssumption
    <3> QED
      BY <3>1 DEF Heard, Bytes
  <2>3. StreamTyped'
    BY <2>1, <2>2 DEF StreamInv, StreamTyped
  <2>4. FindInv'
    BY <2>1 DEF StreamInv, FindInv
  <2>5. ParseInv'
    BY <2>1 DEF StreamInv, ParseInv, OnesIn, SignsIn
  <2> QED
    BY <2>3, <2>4, <2>5 DEF StreamInv
<1> QED
  BY <1>1, <1>2, <1>3, <1>4, <1>5, <1>6, PollKeeps, TimedOutKeeps DEF StreamNext, InStream

\* Every step keeps it.
LEMMA StreamKeeps == ASSUME StreamInv, [WaitsNext]_waitVars PROVE StreamInv'
<1>1. CASE UNCHANGED streamVars
  BY <1>1 DEF streamVars, StreamInv, StreamTyped, FindInv, ParseInv, OnesIn, SignsIn, Parsed
<1>2. StreamNext \/ UNCHANGED streamVars
  BY DEF WaitsNext, waitVars, streamVars
<1> QED
  BY <1>1, <1>2, StreamStepKeeps

LEMMA StreamStarts == StreamInit => StreamInv
<1>1. <<>> \in Seq(Bytes) /\ <<>> \in Seq(0 .. MaxTarget) /\ 0 \in 0 .. TIMEOUT
  BY StreamAssumption
<1> QED
  BY <1>1 DEF StreamInit, StreamInv, StreamTyped, FindInv, ParseInv, NoQuery

-----------------------------------------------------------------------------
(* Texts, and the types of all *)

LEMMA KindsAreTypes == ASSUME Kinds, StringGood, StreamInv PROVE TypeOK
<1>1. Len(wr) <= DEPTH /\ Len(rd) <= DEPTH /\ writecount \in Nat /\ count \in Nat
  BY DEF Kinds, FifoKinds, FifoInv, FifoTypes
<1>2. capacity \in NoBuffer .. WIDTH - 2
  BY DEF StringGood, Capacities
<1>3. index \in Seq(0 .. MaxTarget) /\ waited \in 0 .. TIMEOUT /\ outcome \in Int /\ taken \in Seq(Bytes)
  BY DEF StreamInv, StreamTyped
<1>4. /\ maxloops \in 0 .. ULONG - 1 /\ width \in 0 .. ULONG - 1 /\ startMicros \in 0 .. ULONG - 1
      /\ began \in 0 .. ULONG - 1 /\ result \in 0 .. ULONG /\ since \in 0 .. LAG
  BY DEF Kinds, PulseTypes
<1>5. /\ prescaler \in 1 .. 7 /\ OCR2A \in 0 .. OCR_MAX /\ tone_pins \in TonePins \union {255}
      /\ toggle_count \in Int /\ output \in [TonePins -> {0, 1}]
  BY DEF Kinds, ToneKinds
<1>6. tcnt \in 0 .. TOP - 1 /\ timer0_millis \in 0 .. U32 - 1 /\ timer0_overflow_count \in 0 .. U32 - 1
  BY DEF Kinds, ClockKinds
<1> QED
  BY <1>1, <1>2, <1>3, <1>4, <1>5, <1>6 DEF TypeOK

\* find() and parseInt() return at the first byte that ends what they look for, and what
\* they return is what stands in the stream (Stream.cpp:150, 277); every change of a
\* string is made whole or not at all and within its buffer, and the loops of replace()
\* that work from the left, from the right and in place make the same text, of the length
\* computed before (WString.cpp:672): for all characters, lengths and targets.
THEOREM TextsAreTrue == ASSUME ~Reckless PROVE WaitsSpec => []TextTrue
<1>1. WaitsInit => StringGood /\ StreamInv
  BY StringStarts, StreamStarts DEF WaitsInit
<1>2. StringGood /\ StreamInv /\ [WaitsNext]_waitVars => StringGood' /\ StreamInv'
  BY StringKeeps, StreamKeeps
<1>3. StringGood /\ StreamInv => TextTrue
  BY FindIsTrue, ParseIsTrue DEF StringGood, StreamInv, TextTrue
<1> QED
  BY <1>1, <1>2, <1>3, PTL DEF WaitsSpec

\* Every variable of the waits has its type, also while replacements are reckless, a tone is
\* changed under its handler, and interrupts are off for longer than the clock bears.
THEOREM WaitsWellTyped == WaitsSpec => []TypeOK
<1>1. WaitsInit => Kinds /\ StringGood /\ StreamInv
  BY KindsStart, StringStarts, StreamStarts DEF WaitsInit
<1>2. Kinds /\ StringGood /\ StreamInv /\ [WaitsNext]_waitVars => Kinds' /\ StringGood' /\ StreamInv'
  BY KindsKeep, StringKeeps, StreamKeeps
<1>3. Kinds /\ StringGood /\ StreamInv => TypeOK
  BY KindsAreTypes
<1> QED
  BY <1>1, <1>2, <1>3, PTL DEF WaitsSpec
=============================================================================
