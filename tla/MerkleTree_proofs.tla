-------------------------- MODULE MerkleTree_proofs --------------------------
(***************************************************************************)
(* What the definitions of MerkleTree come to for every number of leaves   *)
(* and every fan-out: that what they build is a tree numbered in preorder, *)
(* that its leaves are the chunks in their order, that the indices in the  *)
(* lattice are a permutation, and that a tree can be built again from how  *)
(* many leaves it has and how many children its widest node has.           *)
(***************************************************************************)
EXTENDS MerkleTree, FiniteSetTheorems, WellFoundedInduction, TLAPS

(* Numbers *)

LEMMA LeastNumber ==
  ASSUME NEW X \in SUBSET Nat, X # {}
  PROVE  \E m \in X : \A x \in X : m <= x
<1>1. PICK m \in X : \A y \in X : <<y, m>> \notin OpToRel(<, Nat)
  BY WFMin, NatLessThanWellFounded
<1>2. ASSUME NEW y \in X PROVE m <= y
  <2>1. m \in Nat /\ y \in Nat
    OBVIOUS
  <2>2. <<y, m>> \in OpToRel(<, Nat) <=> y < m
    <3> DEFINE yx == <<y, m>>
    <3>1. yx \in Nat \X Nat /\ yx[1] = y /\ yx[2] = m
      BY <2>1
    <3> HIDE DEF yx
    <3>2. yx \in OpToRel(<, Nat) <=> yx[1] < yx[2]
      BY <3>1, Zenon DEF OpToRel
    <3>3. yx[1] < yx[2] <=> y < m
      BY <3>1
    <3> QED BY <3>2, <3>3, Zenon DEF yx
  <2>3. ~(y < m)
    BY <1>1, <2>2, Zenon
  <2> QED BY <2>1, <2>3
<1> QED BY <1>2

\* Induction: a set of numbers with 0 and the successor of each member has them all.
LEMMA AllNumbers ==
  ASSUME NEW X, 0 \in X, \A n \in Nat : n \in X => n + 1 \in X
  PROVE  \A n \in Nat : n \in X
<1> DEFINE Y == {n \in Nat : n \notin X}
<1> SUFFICES ASSUME Y # {} PROVE FALSE
  OBVIOUS
<1>1. PICK m \in Y : \A y \in Y : m <= y
  <2> HIDE DEF Y
  <2>1. Y \in SUBSET Nat
    BY DEF Y
  <2> QED BY <2>1, LeastNumber
<1>2. m \in Nat /\ m \notin X /\ m # 0
  OBVIOUS
<1>3. m - 1 \in Nat /\ m - 1 \notin Y
  BY <1>1, <1>2
<1>4. m - 1 \in X
  BY <1>3
<1>5. (m - 1) + 1 \in X
  BY <1>3, <1>4
<1> QED BY <1>2, <1>5

\* A set of numbers under a bound has a greatest one, and Max chooses it.
LEMMA GreatestNumber ==
  ASSUME NEW X \in SUBSET Nat, X # {}, NEW b \in Nat, \A x \in X : x <= b
  PROVE  Max(X) \in X /\ \A x \in X : x <= Max(X)
<1> DEFINE bounds == {m \in Nat : \A x \in X : x <= m}
<1>1. PICK m \in bounds : \A y \in bounds : m <= y
  <2>1. bounds \in SUBSET Nat /\ bounds # {}
    OBVIOUS
  <2> HIDE DEF bounds
  <2> QED BY <2>1, LeastNumber
<1>2. m \in X
  <2> SUFFICES ASSUME m \notin X PROVE FALSE
    OBVIOUS
  <2>1. m # 0
    <3>1. PICK x \in X : TRUE
      OBVIOUS
    <3> QED BY <1>1, <3>1
  <2>2. m - 1 \in Nat /\ \A x \in X : x <= m - 1
    BY <1>1, <2>1
  <2>3. m - 1 \in bounds
    BY <2>2
  <2>4. m <= m - 1
    BY <1>1, <2>3
  <2> QED BY <1>1, <2>4
<1>3. \A x \in X : m >= x
  BY <1>1
<1>4. Max(X) \in X /\ \A x \in X : Max(X) >= x
  BY <1>2, <1>3 DEF Max
<1> QED BY <1>4

LEMMA LeastOf ==
  ASSUME NEW X \in SUBSET Nat, X # {}
  PROVE  Min(X) \in X /\ \A x \in X : Min(X) <= x
<1>1. PICK m \in X : \A x \in X : m <= x
  BY LeastNumber
<1>2. Min(X) \in X /\ \A x \in X : Min(X) =< x
  BY <1>1 DEF Min
<1> QED BY <1>2

-----------------------------------------------------------------------------
(* Finite sets in an order *)

\* below[x] are the members of T before x.
IsOrder(T, below) ==
  /\ \A x \in T : below[x] \subseteq T /\ x \notin below[x]
  /\ \A x, y \in T : x \in below[y] => below[x] \subseteq below[y]
  /\ \A x, y \in T : x = y \/ x \in below[y] \/ y \in below[x]

\* Counting what is before it numbers the members from 0, in their order.
LEMMA Ranks ==
  ASSUME NEW T, IsFiniteSet(T), NEW below, IsOrder(T, below)
  PROVE  /\ Cardinality(T) \in Nat
         /\ \A x \in T : Cardinality(below[x]) \in 0..(Cardinality(T) - 1)
         /\ \A x, y \in T : x \in below[y] <=> Cardinality(below[x]) < Cardinality(below[y])
         /\ \A x, y \in T : Cardinality(below[x]) = Cardinality(below[y]) => x = y
         /\ \A m \in 0..(Cardinality(T) - 1) : \E x \in T : Cardinality(below[x]) = m
<1> DEFINE n == Cardinality(T)
           f == [x \in T |-> Cardinality(below[x])]
<1>1. n \in Nat
  BY FS_CardinalityType
<1>2. ASSUME NEW x \in T PROVE IsFiniteSet(below[x]) /\ f[x] \in 0..(n - 1)
  <2>1. below[x] \in SUBSET T /\ below[x] # T
    BY DEF IsOrder
  <2>2. IsFiniteSet(below[x]) /\ Cardinality(below[x]) <= n /\ Cardinality(below[x]) # n
    BY <2>1, FS_Subset
  <2>3. Cardinality(below[x]) \in Nat
    BY <2>2, FS_CardinalityType
  <2> QED BY <1>1, <2>2, <2>3
<1>3. ASSUME NEW x \in T, NEW y \in T, x \in below[y] PROVE f[x] < f[y]
  <2>1. below[x] \in SUBSET below[y] /\ below[x] # below[y]
    BY <1>3 DEF IsOrder
  <2>2. IsFiniteSet(below[y])
    BY <1>2
  <2>3. Cardinality(below[x]) <= Cardinality(below[y])
        /\ Cardinality(below[x]) # Cardinality(below[y])
    BY <2>1, <2>2, FS_Subset
  <2>4. f[x] \in Int /\ f[y] \in Int /\ f[x] = Cardinality(below[x])
        /\ f[y] = Cardinality(below[y])
    BY <1>2
  <2> QED BY <2>3, <2>4
<1>4. ASSUME NEW x \in T, NEW y \in T, f[x] = f[y] PROVE x = y
  <2>1. f[x] \in Int /\ ~(f[x] < f[y]) /\ ~(f[y] < f[x])
    BY <1>2, <1>4
  <2>2. x \notin below[y] /\ y \notin below[x]
    BY <1>3, <2>1
  <2> QED BY <2>2 DEF IsOrder
<1>5. ASSUME NEW x \in T, NEW y \in T, f[x] < f[y] PROVE x \in below[y]
  <2>1. f[x] \in Int /\ f[y] \in Int /\ x # y /\ ~(f[y] < f[x])
    BY <1>2, <1>5
  <2>2. y \notin below[x]
    BY <1>3, <2>1
  <2> QED BY <2>1, <2>2 DEF IsOrder
<1>6. \A m \in 0..(n - 1) : \E x \in T : f[x] = m
  <2> DEFINE U == 0..(n - 1)
  <2>1. IsFiniteSet(U) /\ Cardinality(U) = n
    BY <1>1, FS_Interval
  <2>2. f \in [T -> U] /\ \A x, y \in T : f[x] = f[y] => x = y
    BY <1>2, <1>4
  <2> HIDE DEF f, U
  <2>3. f \in Injection(T, U)
    BY <2>2 DEF Injection, IsInjective
  <2>4. f \in Surjection(T, U)
    BY <2>1, <2>3, FS_Injection
  <2> QED BY <2>4 DEF Surjection, U
<1>7. \A x \in T : f[x] = Cardinality(below[x])
  OBVIOUS
<1> HIDE DEF f
<1> QED BY <1>1, <1>2, <1>3, <1>4, <1>5, <1>6, <1>7

\* What InOrder makes of the set.
IsArranged(s, T, rank) == s = [r \in 1..Cardinality(T) |-> CHOOSE x \in T : rank[x] = r - 1]

LEMMA Arranged ==
  ASSUME NEW T, IsFiniteSet(T), NEW below, IsOrder(T, below),
         NEW rank, \A x \in T : rank[x] = Cardinality(below[x]),
         NEW s, IsArranged(s, T, rank)
  PROVE  /\ s \in [1..Cardinality(T) -> T]
         /\ \A x \in T : \E r \in 1..Cardinality(T) : s[r] = x
         /\ \A i, j \in 1..Cardinality(T) : i < j <=> s[i] \in below[s[j]]
<1> DEFINE n == Cardinality(T)
<1>1. n \in Nat
  BY Ranks
<1>2. ASSUME NEW r \in 1..n PROVE s[r] \in T /\ Cardinality(below[s[r]]) = r - 1
  <2>1. r - 1 \in 0..(n - 1)
    BY <1>1
  <2>2. \E x \in T : rank[x] = r - 1
    BY <2>1, Ranks
  <2>3. s[r] = CHOOSE x \in T : rank[x] = r - 1
    BY DEF IsArranged
  <2> QED BY <2>2, <2>3
<1>3. s \in [1..n -> T]
  BY <1>2 DEF IsArranged
<1>4. ASSUME NEW x \in T PROVE \E r \in 1..n : s[r] = x
  <2> DEFINE r == Cardinality(below[x]) + 1
  <2>1. r \in 1..n /\ Cardinality(below[x]) = r - 1
    BY <1>1, Ranks
  <2> HIDE DEF r
  <2>2. s[r] \in T /\ Cardinality(below[s[r]]) = Cardinality(below[x])
    BY <1>2, <2>1
  <2> QED BY <2>1, <2>2, Ranks
<1>5. ASSUME NEW i \in 1..n, NEW j \in 1..n PROVE i < j <=> s[i] \in below[s[j]]
  <2>1. i - 1 < j - 1 <=> s[i] \in below[s[j]]
    BY <1>2, Ranks
  <2> QED BY <1>1, <2>1
<1> QED BY <1>3, <1>4, <1>5

LEMMA Increasing ==
  ASSUME NEW T \in SUBSET Nat, IsFiniteSet(T)
  PROVE  /\ Cardinality(T) \in Nat
         /\ Ascending(T) \in [1..Cardinality(T) -> T]
         /\ \A x \in T : \E r \in 1..Cardinality(T) : Ascending(T)[r] = x
         /\ \A i, j \in 1..Cardinality(T) : i < j <=> Ascending(T)[i] < Ascending(T)[j]
<1> DEFINE below == [x \in T |-> {y \in T : y < x}]
           rank == [x \in T |-> Cardinality({y \in T : y < x})]
           s == Ascending(T)
<1>1. \A x \in T : below[x] = {y \in T : y < x}
  OBVIOUS
<1>2. \A x \in T : rank[x] = Cardinality(below[x])
  BY <1>1
<1>3. IsArranged(s, T, rank)
  BY DEF Ascending, InOrder, IsArranged
<1>4. Cardinality(T) \in Nat
  BY FS_CardinalityType
<1> HIDE DEF below, rank, s
<1>5. \A x, y \in T : x \in below[y] <=> x < y
  BY <1>1
<1>6. IsOrder(T, below)
  <2>1. \A x \in T : below[x] \subseteq T /\ x \notin below[x]
    BY <1>1
  <2>2. ASSUME NEW x \in T, NEW y \in T, x \in below[y] PROVE below[x] \subseteq below[y]
    <3>1. x < y
      BY <1>5, <2>2
    <3>2. ASSUME NEW z \in below[x] PROVE z \in below[y]
      <4>1. z \in T /\ z < x
        BY <1>5, <2>1
      <4>2. x \in Nat /\ y \in Nat /\ z \in Nat
        BY <4>1
      <4>3. z < y
        BY <3>1, <4>1, <4>2
      <4> QED BY <1>5, <4>1, <4>3
    <3> QED BY <3>2
  <2>3. ASSUME NEW x \in T, NEW y \in T PROVE x = y \/ x \in below[y] \/ y \in below[x]
    BY <1>5
  <2> QED BY <2>1, <2>2, <2>3 DEF IsOrder
<1>7. /\ s \in [1..Cardinality(T) -> T]
      /\ \A x \in T : \E r \in 1..Cardinality(T) : s[r] = x
      /\ \A i, j \in 1..Cardinality(T) : i < j <=> s[i] \in below[s[j]]
  BY <1>2, <1>3, <1>6, Arranged
<1>8. \A i, j \in 1..Cardinality(T) : i < j <=> s[i] < s[j]
  BY <1>5, <1>7
<1> QED BY <1>4, <1>7, <1>8 DEF s

-----------------------------------------------------------------------------
(* Levels *)

IsSpan(f, fanout, D) == f = [h \in D |-> IF h = 0 THEN 1 ELSE fanout * f[h - 1]]

LEMMA SpanUpTo ==
  ASSUME NEW fanout, NEW n \in Nat
  PROVE  \E f : IsSpan(f, fanout, 0..n)
<1> DEFINE X == {m \in Nat : \E f : IsSpan(f, fanout, 0..m)}
<1>1. 0 \in X
  <2> DEFINE f == [h \in 0..0 |-> 1]
  <2>1. f = [h \in 0..0 |-> IF h = 0 THEN 1 ELSE fanout * f[h - 1]]
    OBVIOUS
  <2> HIDE DEF f
  <2> QED BY <2>1 DEF IsSpan
<1>2. ASSUME NEW m \in Nat, m \in X PROVE m + 1 \in X
  <2>1. PICK g : IsSpan(g, fanout, 0..m)
    BY <1>2
  <2> DEFINE f == [h \in 0..(m + 1) |-> IF h = 0 THEN 1 ELSE fanout * g[h - 1]]
  <2>2. ASSUME NEW h \in 0..(m + 1) PROVE h # 0 => f[h - 1] = g[h - 1]
    <3> SUFFICES ASSUME h # 0 PROVE f[h - 1] = g[h - 1]
      OBVIOUS
    <3>1. h - 1 \in 0..m /\ h - 1 \in 0..(m + 1)
      OBVIOUS
    <3>2. g[h - 1] = IF h - 1 = 0 THEN 1 ELSE fanout * g[(h - 1) - 1]
      BY <2>1, <3>1 DEF IsSpan
    <3> QED BY <3>1, <3>2
  <2>3. f = [h \in 0..(m + 1) |-> IF h = 0 THEN 1 ELSE fanout * f[h - 1]]
    <3> HIDE DEF f
    <3>1. f = [h \in 0..(m + 1) |-> IF h = 0 THEN 1 ELSE fanout * g[h - 1]]
      BY DEF f
    <3>2. \A h \in 0..(m + 1) : (IF h = 0 THEN 1 ELSE fanout * g[h - 1])
                                = IF h = 0 THEN 1 ELSE fanout * f[h - 1]
      BY <2>2
    <3> QED BY <3>1, <3>2
  <2> HIDE DEF f
  <2>4. IsSpan(f, fanout, 0..(m + 1))
    BY <2>3 DEF IsSpan
  <2> QED BY <2>4
<1> HIDE DEF X
<1>3. n \in X
  BY <1>1, <1>2, AllNumbers
<1> QED BY <1>3 DEF X

LEMMA SpanUnique ==
  ASSUME NEW fanout, NEW n \in Nat, NEW m \in Nat, n <= m,
         NEW f, IsSpan(f, fanout, 0..n), NEW g, IsSpan(g, fanout, 0..m)
  PROVE  f[n] = g[n]
<1> DEFINE X == {r \in Nat : r <= n => f[r] = g[r]}
<1>1. 0 \in X
  BY DEF IsSpan
<1>2. ASSUME NEW r \in Nat, r \in X PROVE r + 1 \in X
  <2> SUFFICES ASSUME r + 1 <= n PROVE f[r + 1] = g[r + 1]
    OBVIOUS
  <2>1. f[r] = g[r]
    BY <1>2
  <2>2. r + 1 \in 0..n /\ r + 1 \in 0..m /\ (r + 1) - 1 = r /\ r + 1 # 0
    OBVIOUS
  <2>3. f[r + 1] = fanout * f[(r + 1) - 1] /\ g[r + 1] = fanout * g[(r + 1) - 1]
    BY <2>2 DEF IsSpan
  <2> QED BY <2>1, <2>2, <2>3
<1> HIDE DEF X
<1>3. n \in X
  BY <1>1, <1>2, AllNumbers
<1> QED BY <1>3 DEF X

\* The recursion of Span has a solution, and Span is it.
LEMMA SpanIs ==
  ASSUME NEW fanout \in Nat
  PROVE  /\ Span(fanout)[0] = 1
         /\ \A h \in Nat : Span(fanout)[h + 1] = fanout * Span(fanout)[h]
         /\ \A h \in Nat : Span(fanout)[h] \in Nat
<1> DEFINE g(n) == CHOOSE f : IsSpan(f, fanout, 0..n)
           w == [h \in Nat |-> g(h)[h]]
<1>1. ASSUME NEW n \in Nat PROVE IsSpan(g(n), fanout, 0..n)
  BY SpanUpTo
<1> HIDE DEF g
<1>2. w = [h \in Nat |-> IF h = 0 THEN 1 ELSE fanout * w[h - 1]]
  <2>1. ASSUME NEW h \in Nat PROVE w[h] = IF h = 0 THEN 1 ELSE fanout * w[h - 1]
    <3>1. CASE h = 0
      <4>1. g(0)[0] = 1
        BY <1>1 DEF IsSpan
      <4> QED BY <3>1, <4>1
    <3>2. CASE h # 0
      <4>1. h - 1 \in Nat /\ h - 1 <= h /\ h \in 0..h
        BY <3>2
      <4>2. IsSpan(g(h), fanout, 0..h) /\ IsSpan(g(h - 1), fanout, 0..(h - 1))
        BY <1>1, <4>1
      <4>3. g(h - 1)[h - 1] = g(h)[h - 1]
        BY <4>1, <4>2, SpanUnique
      <4>4. g(h)[h] = fanout * g(h)[h - 1]
        BY <3>2, <4>1, <4>2 DEF IsSpan
      <4> QED BY <3>2, <4>1, <4>3, <4>4
    <3> QED BY <3>1, <3>2
  <2> HIDE DEF w
  <2>2. w = [h \in Nat |-> w[h]]
    BY DEF w
  <2> QED BY <2>1, <2>2
<1> HIDE DEF w
<1>3. \E f : f = [h \in Nat |-> IF h = 0 THEN 1 ELSE fanout * f[h - 1]]
  BY <1>2
<1> DEFINE span == Span(fanout)
<1>4. span = [h \in Nat |-> IF h = 0 THEN 1 ELSE fanout * span[h - 1]]
  BY <1>3 DEF Span
<1> HIDE DEF span
<1>5. span[0] = 1
  BY <1>4
<1>6. ASSUME NEW h \in Nat PROVE span[h + 1] = fanout * span[h]
  <2>1. h + 1 \in Nat /\ h + 1 # 0 /\ (h + 1) - 1 = h
    OBVIOUS
  <2>2. span[h + 1] = fanout * span[(h + 1) - 1]
    BY <1>4, <2>1
  <2> QED BY <2>1, <2>2
<1>7. \A h \in Nat : span[h] \in Nat
  <2> DEFINE X == {h \in Nat : span[h] \in Nat}
  <2>1. 0 \in X
    BY <1>5
  <2>2. \A h \in Nat : h \in X => h + 1 \in X
    BY <1>6
  <2> HIDE DEF X
  <2>3. \A h \in Nat : h \in X
    BY <2>1, <2>2, AllNumbers
  <2> QED BY <2>3 DEF X
<1> QED BY <1>5, <1>6, <1>7 DEF span

LEMMA TimesMore ==
  ASSUME NEW a \in Nat, NEW b \in Nat, NEW c \in Nat, a <= b
  PROVE  a * c <= b * c
BY SMT

LEMMA TimesLess ==
  ASSUME NEW a \in Nat, NEW b \in Nat, NEW c \in Nat \ {0}, a < b
  PROVE  a * c + c <= b * c /\ a * c < b * c
<1>1. (a + 1) * c <= b * c
  BY TimesMore
<1>2. (a + 1) * c = a * c + c
  OBVIOUS
<1> QED BY <1>1, <1>2

LEMMA SpanGrows ==
  ASSUME NEW fanout \in Nat \ {0, 1}
  PROVE  \A h \in Nat : Span(fanout)[h] > h
<1> DEFINE s == Span(fanout)
           X == {h \in Nat : s[h] > h}
<1>0. s[0] = 1 /\ \A h \in Nat : s[h + 1] = fanout * s[h] /\ s[h] \in Nat
  BY SpanIs
<1> HIDE DEF s
<1>1. 0 \in X
  BY <1>0
<1>2. ASSUME NEW h \in Nat, h \in X PROVE h + 1 \in X
  <2>1. s[h] \in Nat /\ s[h] >= h + 1 /\ s[h + 1] \in Nat
    BY <1>0, <1>2
  <2>2. 2 * s[h] <= fanout * s[h]
    BY <2>1, TimesMore
  <2>3. s[h + 1] >= 2 * s[h]
    BY <1>0, <2>2
  <2>4. 2 * s[h] > h + 1
    BY <2>1
  <2> QED BY <2>1, <2>3, <2>4
<1> HIDE DEF X
<1>3. \A h \in Nat : h \in X
  BY <1>1, <1>2, AllNumbers
<1> QED BY <1>3 DEF X, s

\* The trees that are built: the loop over the levels ends.
Buildable(leaves, fanout) ==
  /\ leaves \in Nat \ {0}
  /\ fanout \in Nat
  /\ leaves = 1 \/ fanout \notin {0, 1}

LEMMA DepthIs ==
  ASSUME NEW leaves, NEW fanout, Buildable(leaves, fanout)
  PROVE  /\ Depth(leaves, fanout) \in 1..leaves
         /\ Span(fanout)[Depth(leaves, fanout) - 1] >= leaves
         /\ \A e \in 1..(Depth(leaves, fanout) - 1) : Span(fanout)[e - 1] < leaves
         /\ \A h \in 0..(Depth(leaves, fanout) - 1) : Span(fanout)[h] \in Nat \ {0}
<1> DEFINE s == Span(fanout)
           X == {d \in Nat : d \in 1..leaves /\ s[d - 1] >= leaves}
<1>0. leaves \in Nat \ {0} /\ fanout \in Nat
  BY DEF Buildable
<1>1. s[0] = 1 /\ \A h \in Nat : s[h] \in Nat
  BY <1>0, SpanIs
<1>2. leaves # 1 => \A h \in Nat : s[h] > h
  <2> SUFFICES ASSUME leaves # 1 PROVE \A h \in Nat : s[h] > h
    OBVIOUS
  <2>1. fanout \in Nat \ {0, 1}
    BY DEF Buildable
  <2> QED BY <2>1, SpanGrows
<1> HIDE DEF s
<1>3. leaves \in X
  <2>1. leaves - 1 \in Nat /\ (leaves = 1 => leaves - 1 = 0)
    BY <1>0
  <2>2. s[leaves - 1] >= leaves
    <3>1. CASE leaves = 1
      BY <1>1, <2>1, <3>1
    <3>2. CASE leaves # 1
      <4>1. s[leaves - 1] \in Nat /\ s[leaves - 1] > leaves - 1
        BY <1>1, <1>2, <2>1, <3>2
      <4> QED BY <1>0, <4>1
    <3> QED BY <3>1, <3>2
  <2> QED BY <1>0, <2>2
<1>4. PICK d \in X : \A x \in X : d <= x
  <2> HIDE DEF X
  <2>1. X \in SUBSET Nat
    BY DEF X
  <2> QED BY <1>3, <2>1, LeastNumber
<1>5. d \in 1..leaves /\ s[d - 1] >= leaves
  OBVIOUS
<1>6. ASSUME NEW e \in 1..(d - 1) PROVE s[e - 1] < leaves
  <2>1. e \in Nat /\ e \in 1..leaves /\ e - 1 \in Nat /\ ~(d <= e)
    BY <1>0, <1>5
  <2>2. e \notin X
    BY <1>4, <2>1
  <2>3. ~(s[e - 1] >= leaves)
    BY <2>1, <2>2
  <2> QED BY <1>0, <1>1, <2>1, <2>3
<1>7. /\ Depth(leaves, fanout) \in 1..leaves
      /\ s[Depth(leaves, fanout) - 1] >= leaves
      /\ \A e \in 1..(Depth(leaves, fanout) - 1) : s[e - 1] < leaves
  BY <1>5, <1>6 DEF Depth, s
<1>8. ASSUME NEW h \in 0..(Depth(leaves, fanout) - 1) PROVE s[h] \in Nat \ {0}
  <2>1. h \in Nat /\ s[h] \in Nat
    BY <1>0, <1>1, <1>7
  <2>2. CASE leaves = 1
    <3>1. h = 0
      BY <1>7, <2>2
    <3> QED BY <1>1, <3>1
  <2>3. CASE leaves # 1
    <3>1. s[h] > h
      BY <1>2, <2>1, <2>3
    <3> QED BY <2>1, <3>1
  <2> QED BY <2>2, <2>3
<1> QED BY <1>7, <1>8 DEF s

LEMMA MadeIs ==
  ASSUME NEW leaves, NEW fanout, Buildable(leaves, fanout)
  PROVE  /\ \A h, i : <<h, i>> \in Made(leaves, fanout) <=>
                        /\ h \in 0..(Depth(leaves, fanout) - 1) /\ i \in Nat
                        /\ i * Span(fanout)[h] < leaves
         /\ \A x \in Made(leaves, fanout) :
              /\ x = <<x[1], x[2]>>
              /\ x[1] \in 0..(Depth(leaves, fanout) - 1) /\ x[2] \in Nat
              /\ Span(fanout)[x[1]] \in Nat \ {0}
              /\ FirstLeaf(fanout, x) = x[2] * Span(fanout)[x[1]]
              /\ FirstLeaf(fanout, x) \in 0..(leaves - 1)
         /\ IsFiniteSet(Made(leaves, fanout))
<1> DEFINE s == Span(fanout)
           D == Depth(leaves, fanout)
           M == Made(leaves, fanout)
           B == (0..(D - 1)) \X (0..(leaves - 1))
<1>0. leaves \in Nat \ {0} /\ fanout \in Nat
  BY DEF Buildable
<1>1. D \in 1..leaves /\ \A h \in 0..(D - 1) : s[h] \in Nat \ {0}
  BY DepthIs
<1>2. M = {x \in B : x[2] * s[x[1]] < leaves}
  BY DEF Made, FirstLeaf
<1> HIDE DEF s, D, M
<1>3. ASSUME NEW h, NEW i PROVE
        <<h, i>> \in M <=> h \in 0..(D - 1) /\ i \in Nat /\ i * s[h] < leaves
  <2>1. <<h, i>> \in M <=> h \in 0..(D - 1) /\ i \in 0..(leaves - 1) /\ i * s[h] < leaves
    BY <1>2
  <2>2. ASSUME h \in 0..(D - 1), i \in Nat, i * s[h] < leaves PROVE i \in 0..(leaves - 1)
    <3>1. s[h] \in Nat \ {0} /\ 1 <= s[h]
      BY <1>1, <2>2
    <3>2. 1 * i <= s[h] * i
      BY <2>2, <3>1, TimesMore
    <3>3. s[h] * i = i * s[h]
      BY <2>2, <3>1
    <3>4. i <= i * s[h] /\ i * s[h] \in Nat
      BY <2>2, <3>1, <3>2, <3>3
    <3> QED BY <1>0, <2>2, <3>4
  <2> QED BY <2>1, <2>2
<1>4. ASSUME NEW x \in M
      PROVE  /\ x = <<x[1], x[2]>> /\ x[1] \in 0..(D - 1) /\ x[2] \in Nat
             /\ s[x[1]] \in Nat \ {0}
             /\ FirstLeaf(fanout, x) = x[2] * s[x[1]]
             /\ FirstLeaf(fanout, x) \in 0..(leaves - 1)
  <2>1. x \in B /\ x[2] * s[x[1]] < leaves
    BY <1>2
  <2>2. x = <<x[1], x[2]>> /\ x[1] \in 0..(D - 1) /\ x[2] \in Nat
    BY <2>1
  <2>3. s[x[1]] \in Nat \ {0}
    BY <1>1, <2>2
  <2>4. FirstLeaf(fanout, x) = x[2] * s[x[1]]
    BY DEF FirstLeaf, s
  <2>5. x[2] * s[x[1]] \in Nat
    BY <2>2, <2>3
  <2> QED BY <1>0, <2>1, <2>2, <2>3, <2>4, <2>5
<1>5. IsFiniteSet(M)
  <2>1. IsFiniteSet(B)
    <3>1. D - 1 \in Int /\ leaves - 1 \in Int
      BY <1>0, <1>1
    <3>2. IsFiniteSet(0..(D - 1)) /\ IsFiniteSet(0..(leaves - 1))
      BY <3>1, FS_Interval
    <3> QED BY <3>2, FS_Product
  <2>2. M \in SUBSET B
    BY <1>2
  <2> QED BY <2>1, <2>2, FS_Subset
<1> QED BY <1>3, <1>4, <1>5 DEF s, D, M

-----------------------------------------------------------------------------
(* Numbers in preorder *)

Number(leaves, fanout, x) ==
  Cardinality({y \in Made(leaves, fanout) : ComesBefore(fanout, y, x)})

HasParent(leaves, fanout, x) == x[1] + 1 < Depth(leaves, fanout)

\* Preorder orders the nodes.
LEMMA MadeOrdered ==
  ASSUME NEW leaves, NEW fanout, Buildable(leaves, fanout)
  PROVE  LET M == Made(leaves, fanout)
         IN  IsOrder(M, [x \in M |-> {y \in M : ComesBefore(fanout, y, x)}])
<1> DEFINE M == Made(leaves, fanout)
           s == Span(fanout)
           first(x) == FirstLeaf(fanout, x)
           below == [x \in M |-> {y \in M : ComesBefore(fanout, y, x)}]
<1>1. \A x, y \in M : y \in below[x] <=> first(y) < first(x)
                                         \/ (first(y) = first(x) /\ y[1] > x[1])
  BY DEF ComesBefore
<1>2. \A x \in M : /\ x = <<x[1], x[2]>> /\ x[1] \in Nat /\ x[2] \in Nat
                   /\ first(x) \in Nat /\ s[x[1]] \in Nat \ {0} /\ first(x) = x[2] * s[x[1]]
  <2>1. Depth(leaves, fanout) \in Int
    BY DepthIs DEF Buildable
  <2> QED BY <2>1, MadeIs DEF Buildable
<1>3. \A x \in M : below[x] \subseteq M
  OBVIOUS
<1> HIDE DEF M, s, first, below
<1>4. \A x \in M : x \notin below[x]
  BY <1>1, <1>2
<1>5. ASSUME NEW x \in M, NEW y \in M, x \in below[y] PROVE below[x] \subseteq below[y]
  <2> SUFFICES ASSUME NEW z \in below[x] PROVE z \in below[y]
    OBVIOUS
  <2>1. z \in M
    BY <1>3
  <2>2. first(x) < first(y) \/ (first(x) = first(y) /\ x[1] > y[1])
    BY <1>1, <1>5
  <2>3. first(z) < first(x) \/ (first(z) = first(x) /\ z[1] > x[1])
    BY <1>1, <2>1
  <2>4. first(z) < first(y) \/ (first(z) = first(y) /\ z[1] > y[1])
    BY <1>2, <2>1, <2>2, <2>3
  <2> QED BY <1>1, <2>1, <2>4
<1>6. ASSUME NEW x \in M, NEW y \in M PROVE x = y \/ x \in below[y] \/ y \in below[x]
  <2> SUFFICES ASSUME x \notin below[y], y \notin below[x] PROVE x = y
    OBVIOUS
  <2>1. first(x) = first(y) /\ x[1] = y[1]
    BY <1>1, <1>2
  <2>2. x[2] * s[x[1]] = y[2] * s[x[1]] /\ s[x[1]] \in Nat \ {0}
        /\ x[2] \in Nat /\ y[2] \in Nat
    BY <1>2, <2>1
  <2>3. ~(x[2] < y[2]) /\ ~(y[2] < x[2])
    <3>1. x[2] < y[2] => x[2] * s[x[1]] < y[2] * s[x[1]]
      BY <2>2, TimesLess
    <3>2. y[2] < x[2] => y[2] * s[x[1]] < x[2] * s[x[1]]
      BY <2>2, TimesLess
    <3>3. x[2] * s[x[1]] \in Nat
      BY <2>2
    <3> QED BY <2>2, <3>1, <3>2, <3>3
  <2>4. x[2] = y[2]
    BY <2>2, <2>3
  <2> QED BY <1>2, <2>1, <2>4
<1>7. IsOrder(M, below)
  BY <1>3, <1>4, <1>5, <1>6 DEF IsOrder
<1> QED BY <1>7 DEF M, below

\* Every node has a number of its own, and the numbers are in preorder.
LEMMA Numbered ==
  ASSUME NEW leaves, NEW fanout, Buildable(leaves, fanout)
  PROVE  /\ Size(leaves, fanout) \in Nat
         /\ \A x \in Made(leaves, fanout) :
              Number(leaves, fanout, x) \in 0..(Size(leaves, fanout) - 1)
         /\ \A x, y \in Made(leaves, fanout) :
              ComesBefore(fanout, x, y)
              <=> Number(leaves, fanout, x) < Number(leaves, fanout, y)
         /\ \A x, y \in Made(leaves, fanout) :
              Number(leaves, fanout, x) = Number(leaves, fanout, y) => x = y
         /\ \A m \in 0..(Size(leaves, fanout) - 1) :
              \E x \in Made(leaves, fanout) : Number(leaves, fanout, x) = m
<1> DEFINE M == Made(leaves, fanout)
           below == [x \in M |-> {y \in M : ComesBefore(fanout, y, x)}]
<1>1. IsOrder(M, below)
  BY MadeOrdered
<1>2. IsFiniteSet(M)
  BY MadeIs
<1>3. \A x, y \in M : x \in below[y] <=> ComesBefore(fanout, x, y)
  OBVIOUS
<1>4. \A x \in M : Cardinality(below[x]) = Number(leaves, fanout, x)
  BY DEF Number
<1>5. Cardinality(M) = Size(leaves, fanout)
  BY DEF Size
<1> HIDE DEF M, below
<1>6. /\ Cardinality(M) \in Nat
      /\ \A x \in M : Cardinality(below[x]) \in 0..(Cardinality(M) - 1)
      /\ \A x, y \in M : x \in below[y] <=> Cardinality(below[x]) < Cardinality(below[y])
      /\ \A x, y \in M : Cardinality(below[x]) = Cardinality(below[y]) => x = y
      /\ \A m \in 0..(Cardinality(M) - 1) : \E x \in M : Cardinality(below[x]) = m
  BY <1>1, <1>2, Ranks
<1>7. \A x, y \in M : ComesBefore(fanout, x, y)
                      <=> Number(leaves, fanout, x) < Number(leaves, fanout, y)
  BY <1>3, <1>4, <1>6
<1>8. \A x, y \in M : Number(leaves, fanout, x) = Number(leaves, fanout, y) => x = y
  BY <1>4, <1>6
<1>9. \A m \in 0..(Size(leaves, fanout) - 1) : \E x \in M : Number(leaves, fanout, x) = m
  BY <1>4, <1>5, <1>6
<1>10. \A x \in M : Number(leaves, fanout, x) \in 0..(Size(leaves, fanout) - 1)
  BY <1>4, <1>5, <1>6
<1> QED BY <1>5, <1>6, <1>7, <1>8, <1>9, <1>10 DEF M

\* The nodes of a tree with more than one have parents: the root alone has none, and
\* has the first number.
LEMMA RootIs ==
  ASSUME NEW leaves, NEW fanout, Buildable(leaves, fanout)
  PROVE  /\ <<Depth(leaves, fanout) - 1, 0>> \in Made(leaves, fanout)
         /\ Number(leaves, fanout, <<Depth(leaves, fanout) - 1, 0>>) = 0
         /\ \A x \in Made(leaves, fanout) :
              HasParent(leaves, fanout, x) <=> x # <<Depth(leaves, fanout) - 1, 0>>
<1> DEFINE D == Depth(leaves, fanout)
           s == Span(fanout)
           M == Made(leaves, fanout)
           root == <<D - 1, 0>>
<1>0. leaves \in Nat \ {0} /\ D \in 1..leaves /\ s[D - 1] >= leaves
      /\ s[D - 1] \in Nat \ {0}
  BY DepthIs DEF Buildable
<1>1. \A h, i : <<h, i>> \in M <=> h \in 0..(D - 1) /\ i \in Nat /\ i * s[h] < leaves
  BY MadeIs
<1>2. \A x \in M : /\ x = <<x[1], x[2]>> /\ x[1] \in 0..(D - 1) /\ x[2] \in Nat
                   /\ FirstLeaf(fanout, x) = x[2] * s[x[1]] /\ FirstLeaf(fanout, x) \in Nat
  BY MadeIs, <1>0
<1>3. \A x \in M : HasParent(leaves, fanout, x) <=> x[1] + 1 < D
  BY DEF HasParent
<1> HIDE DEF D, s, M
<1>4. root \in M
  <2>1. D - 1 \in 0..(D - 1) /\ 0 * s[D - 1] = 0
    BY <1>0
  <2> QED BY <1>0, <1>1, <2>1
<1>5. ASSUME NEW x \in M PROVE x[1] + 1 < D <=> x # root
  <2>1. CASE x[1] = D - 1
    <3>1. x[2] * s[D - 1] < leaves /\ x[2] \in Nat
      BY <1>1, <1>2, <2>1
    <3>2. x[2] = 0
      <4> SUFFICES ASSUME x[2] # 0 PROVE FALSE
        OBVIOUS
      <4>1. 1 * s[D - 1] <= x[2] * s[D - 1]
        BY <1>0, <3>1, TimesMore
      <4>2. x[2] * s[D - 1] \in Nat
        BY <1>0, <3>1
      <4> QED BY <1>0, <3>1, <4>1, <4>2
    <3> QED BY <1>0, <1>2, <2>1, <3>2
  <2>2. CASE x[1] # D - 1
    BY <1>0, <1>2, <2>2
  <2> QED BY <2>1, <2>2
<1>6. Number(leaves, fanout, root) = 0
  <2>1. ASSUME NEW y \in M PROVE ~ComesBefore(fanout, y, root)
    <3>1. root[1] = D - 1 /\ FirstLeaf(fanout, root) = 0
      BY <1>0 DEF FirstLeaf, s
    <3>2. y[1] \in 0..(D - 1) /\ FirstLeaf(fanout, y) \in Nat
      BY <1>2
    <3> QED BY <1>0, <3>1, <3>2 DEF ComesBefore
  <2>2. {y \in M : ComesBefore(fanout, y, root)} = {}
    BY <2>1
  <2> QED BY <2>2, FS_EmptySet DEF Number, M
<1> QED BY <1>3, <1>4, <1>5, <1>6 DEF D, M

\* What dividing by the fan-out leaves over.
LEMMA Quotient ==
  ASSUME NEW i \in Nat, NEW k \in Nat \ {0}
  PROVE  /\ i \div k \in Nat
         /\ i - k * (i \div k) \in 0..(k - 1)
<1>1. i \div k \in Int /\ i % k \in 0..(k - 1) /\ i = k * (i \div k) + (i % k)
  BY SMT
<1>2. i \div k \in Nat
  BY SMT
<1> QED BY <1>1, <1>2

\* A parent is made one level up, comes before its child, and has the leaves below it
\* among its own.
LEMMA ParentIs ==
  ASSUME NEW leaves, NEW fanout, Buildable(leaves, fanout),
         NEW x \in Made(leaves, fanout), HasParent(leaves, fanout, x)
  PROVE  LET p == MadeParent(fanout, x)
         IN  /\ p \in Made(leaves, fanout)
             /\ p[1] = x[1] + 1
             /\ FirstLeaf(fanout, p) <= FirstLeaf(fanout, x)
             /\ FirstLeaf(fanout, x) + Span(fanout)[x[1]]
                <= FirstLeaf(fanout, p) + Span(fanout)[p[1]]
             /\ ComesBefore(fanout, p, x)
<1> DEFINE D == Depth(leaves, fanout)
           s == Span(fanout)
           M == Made(leaves, fanout)
           p == MadeParent(fanout, x)
           h == x[1]
           i == x[2]
           q == i \div fanout
           r == i - fanout * q
<1>1. /\ x = <<h, i>> /\ h \in 0..(D - 1) /\ i \in Nat
      /\ FirstLeaf(fanout, x) = i * s[h] /\ i * s[h] < leaves /\ s[h] \in Nat \ {0}
  <2>1. leaves \in Nat
    BY DEF Buildable
  <2> QED BY <2>1, MadeIs
<1>2. leaves \in Nat \ {0} /\ D \in 1..leaves /\ h + 1 < D
  BY DepthIs DEF Buildable, HasParent
<1>3. h \in Nat /\ h + 1 \in 0..(D - 1)
  BY <1>1, <1>2
<1>4. fanout \in Nat \ {0, 1}
  BY <1>1, <1>2 DEF Buildable
<1>5. q \in Nat /\ r \in 0..(fanout - 1)
  BY <1>1, <1>4, Quotient
<1>6. s[h + 1] = fanout * s[h]
  BY <1>3, <1>4, SpanIs
<1>7. p = <<h + 1, q>> /\ p[1] = h + 1 /\ p[2] = q
  BY DEF MadeParent
<1>8. FirstLeaf(fanout, p) = q * s[h + 1]
  BY <1>7 DEF FirstLeaf
<1> HIDE DEF D, s, M, p, h, i
<1>9. i * s[h] = q * s[h + 1] + r * s[h]
  <2>1. i = q * fanout + r
    BY <1>1, <1>4, <1>5
  <2> HIDE DEF r, q
  <2>2. i * s[h] = (q * fanout) * s[h] + r * s[h]
    BY <1>1, <1>4, <1>5, <2>1
  <2>3. (q * fanout) * s[h] = q * (fanout * s[h])
    BY <1>1, <1>4, <1>5
  <2> QED BY <1>6, <2>2, <2>3
<1> HIDE DEF r, q
<1>10. q * s[h + 1] \in Nat /\ s[h + 1] \in Nat /\ r * s[h] \in Nat /\ r * s[h] + s[h] <= s[h + 1]
  <2>1. r * s[h] + s[h] <= fanout * s[h]
    BY <1>1, <1>4, <1>5, TimesLess
  <2>2. fanout * s[h] \in Nat /\ r * s[h] \in Nat
    BY <1>1, <1>4, <1>5
  <2>3. s[h + 1] \in Nat
    BY <1>6, <2>2
  <2> QED BY <1>5, <1>6, <2>1, <2>2, <2>3
<1>11. q * s[h + 1] <= i * s[h] /\ i * s[h] + s[h] <= q * s[h + 1] + s[h + 1]
  BY <1>1, <1>9, <1>10
<1>12. p \in M
  <2>1. q * s[h + 1] < leaves
    BY <1>1, <1>2, <1>9, <1>10
  <2> QED BY <1>3, <1>5, <1>7, <2>1, MadeIs DEF D, s, M
<1>13. ComesBefore(fanout, p, x)
  <2>1. p[1] > x[1]
    BY <1>3, <1>7 DEF h
  <2>2. FirstLeaf(fanout, p) <= FirstLeaf(fanout, x)
    BY <1>1, <1>8, <1>11
  <2>3. FirstLeaf(fanout, p) \in Int /\ FirstLeaf(fanout, x) \in Int
    BY <1>1, <1>8, <1>10
  <2> QED BY <2>1, <2>2, <2>3 DEF ComesBefore
<1> QED BY <1>1, <1>7, <1>8, <1>11, <1>12, <1>13 DEF h, p, M, s

-----------------------------------------------------------------------------
(* The tree *)

KidsOf(leaves, fanout, n) ==
  {m \in 0..(Size(leaves, fanout) - 1) :
     \E x \in Made(leaves, fanout) :
       /\ HasParent(leaves, fanout, x)
       /\ n = Number(leaves, fanout, MadeParent(fanout, x))
       /\ m = Number(leaves, fanout, x)}

LEMMA TreeIs ==
  ASSUME NEW leaves, NEW fanout
  PROVE  /\ Tree(leaves, fanout).size = Size(leaves, fanout)
         /\ Tree(leaves, fanout).children
            = [n \in 0..(Size(leaves, fanout) - 1) |-> Ascending(KidsOf(leaves, fanout, n))]
         /\ Tree(leaves, fanout) = [size |-> Tree(leaves, fanout).size,
                                    children |-> Tree(leaves, fanout).children]
<1> DEFINE made == Made(leaves, fanout)
           size == Size(leaves, fanout)
           num(x) == Number(leaves, fanout, x)
           links == {<<num(MadeParent(fanout, x)), num(x)>> :
                     x \in {y \in made : y[1] + 1 < Depth(leaves, fanout)}}
           numbers == 0..(size - 1)
<1>1. Tree(leaves, fanout)
      = [size |-> size,
         children |-> [n \in numbers |-> Ascending({m \in numbers : <<n, m>> \in links})]]
  BY DEF Tree, Number, Size
<1>2. ASSUME NEW n, NEW m
      PROVE  <<n, m>> \in links
             <=> \E x \in made : /\ HasParent(leaves, fanout, x)
                                 /\ n = num(MadeParent(fanout, x)) /\ m = num(x)
  <2> HIDE DEF num, made
  <2> QED BY DEF HasParent
<1>3. ASSUME NEW n
      PROVE  {m \in numbers : <<n, m>> \in links} = KidsOf(leaves, fanout, n)
  <2> DEFINE linked(m) == \E x \in made : /\ HasParent(leaves, fanout, x)
                                          /\ n = num(MadeParent(fanout, x)) /\ m = num(x)
  <2>1. KidsOf(leaves, fanout, n) = {m \in numbers : linked(m)}
    BY DEF KidsOf
  <2>2. \A m : <<n, m>> \in links <=> linked(m)
    BY <1>2
  <2> HIDE DEF links, linked, numbers
  <2> QED BY <2>1, <2>2
<1> HIDE DEF links, num, made
<1>4. [n \in numbers |-> Ascending({m \in numbers : <<n, m>> \in links})]
      = [n \in numbers |-> Ascending(KidsOf(leaves, fanout, n))]
  BY <1>3, Zenon
<1> QED BY <1>1, <1>4

\* The children of a node are the nodes made its children, in the order of their numbers.
LEMMA KidsAre ==
  ASSUME NEW leaves, NEW fanout, Buildable(leaves, fanout)
  PROVE  /\ \A x \in Made(leaves, fanout) :
              HasParent(leaves, fanout, x) =>
                Number(leaves, fanout, x)
                \in KidsOf(leaves, fanout, Number(leaves, fanout, MadeParent(fanout, x)))
         /\ \A n : \A x \in Made(leaves, fanout) :
              Number(leaves, fanout, x) \in KidsOf(leaves, fanout, n) =>
                /\ HasParent(leaves, fanout, x)
                /\ n = Number(leaves, fanout, MadeParent(fanout, x))
         /\ \A n : \A m \in KidsOf(leaves, fanout, n) :
              \E x \in Made(leaves, fanout) : m = Number(leaves, fanout, x)
         /\ \A n : /\ KidsOf(leaves, fanout, n) \subseteq 1..(Size(leaves, fanout) - 1)
                   /\ \A m \in KidsOf(leaves, fanout, n) : n < m
                   /\ IsFiniteSet(KidsOf(leaves, fanout, n))
                   /\ Cardinality(KidsOf(leaves, fanout, n)) \in Nat
<1> DEFINE M == Made(leaves, fanout)
           size == Size(leaves, fanout)
           num(x) == Number(leaves, fanout, x)
           par(x) == MadeParent(fanout, x)
           hasp(x) == HasParent(leaves, fanout, x)
           kids(n) == KidsOf(leaves, fanout, n)
<1>1. size \in Nat /\ \A x \in M : num(x) \in 0..(size - 1)
  BY Numbered
<1>2. \A x, y \in M : num(x) = num(y) => x = y
  BY Numbered
<1>3. \A x \in M : hasp(x) => par(x) \in M /\ num(par(x)) < num(x)
  BY ParentIs, Numbered
<1>4. \A n, m : m \in kids(n) <=> m \in 0..(size - 1)
                                  /\ \E x \in M : hasp(x) /\ n = num(par(x)) /\ m = num(x)
  BY DEF KidsOf
<1> HIDE DEF M, size, num, par, hasp, kids
<1>5. \A x \in M : hasp(x) => num(x) \in kids(num(par(x)))
  BY <1>1, <1>4
<1>6. ASSUME NEW n, NEW x \in M, num(x) \in kids(n) PROVE hasp(x) /\ n = num(par(x))
  <2>1. PICK y \in M : hasp(y) /\ n = num(par(y)) /\ num(x) = num(y)
    BY <1>4, <1>6
  <2>2. x = y
    BY <1>2, <2>1
  <2> QED BY <2>1, <2>2
<1>7. \A n : \A m \in kids(n) : \E x \in M : m = num(x)
  BY <1>4
<1>8. ASSUME NEW n
      PROVE  /\ kids(n) \subseteq 1..(size - 1) /\ \A m \in kids(n) : n < m
             /\ IsFiniteSet(kids(n)) /\ Cardinality(kids(n)) \in Nat
  <2>1. ASSUME NEW m \in kids(n) PROVE m \in 1..(size - 1) /\ n < m
    <3>1. PICK x \in M : m \in 0..(size - 1) /\ hasp(x) /\ n = num(par(x)) /\ m = num(x)
      BY <1>4
    <3>2. n < m /\ n \in 0..(size - 1)
      BY <1>1, <1>3, <3>1
    <3> QED BY <1>1, <3>1, <3>2
  <2>2. IsFiniteSet(1..(size - 1))
    BY <1>1, FS_Interval
  <2>3. kids(n) \in SUBSET (1..(size - 1))
    BY <2>1
  <2>4. IsFiniteSet(kids(n))
    BY <2>2, <2>3, FS_Subset
  <2> QED BY <2>1, <2>4, FS_CardinalityType
<1> QED BY <1>5, <1>6, <1>7, <1>8 DEF M, size, num, par, hasp, kids

LEMMA ChildrenAre ==
  ASSUME NEW leaves, NEW fanout, Buildable(leaves, fanout), NEW t, t = Tree(leaves, fanout)
  PROVE  /\ t.size = Size(leaves, fanout) /\ t.size \in Nat \ {0}
         /\ t.children \in [Nodes(t) -> Seq(Nodes(t) \ {0})]
         /\ \A n \in Nodes(t) :
              /\ t.children[n] = Ascending(KidsOf(leaves, fanout, n))
              /\ Len(t.children[n]) = Cardinality(KidsOf(leaves, fanout, n))
              /\ Range(t.children[n]) = KidsOf(leaves, fanout, n)
<1> DEFINE size == Size(leaves, fanout)
           kids(n) == KidsOf(leaves, fanout, n)
<1>1. t.size = size /\ t.children = [n \in 0..(size - 1) |-> Ascending(kids(n))]
  BY TreeIs
<1>2. size \in Nat
  BY Numbered
<1>3. size # 0
  <2>1. \E x \in Made(leaves, fanout) : Number(leaves, fanout, x) = 0
    BY RootIs
  <2>2. 0 \in 0..(size - 1)
    BY <2>1, Numbered
  <2> QED BY <1>2, <2>2
<1>4. Nodes(t) = 0..(size - 1)
  BY <1>1 DEF Nodes
<1>5. ASSUME NEW n
      PROVE  /\ kids(n) \subseteq Nodes(t) \ {0}
             /\ Cardinality(kids(n)) \in Nat
             /\ Ascending(kids(n)) \in [1..Cardinality(kids(n)) -> kids(n)]
             /\ \A x \in kids(n) : \E r \in 1..Cardinality(kids(n)) : Ascending(kids(n))[r] = x
  <2>1. kids(n) \subseteq 1..(size - 1) /\ IsFiniteSet(kids(n))
    BY KidsAre
  <2> HIDE DEF kids, size
  <2>2. kids(n) \in SUBSET Nat /\ kids(n) \subseteq Nodes(t) \ {0}
    BY <1>2, <1>4, <2>1
  <2> QED BY <2>1, <2>2, Increasing
<1> HIDE DEF size, kids
<1>6. ASSUME NEW n
      PROVE  /\ Ascending(kids(n)) \in Seq(Nodes(t) \ {0})
             /\ Len(Ascending(kids(n))) = Cardinality(kids(n))
             /\ Range(Ascending(kids(n))) = kids(n)
  <2> DEFINE c == Cardinality(kids(n))
             a == Ascending(kids(n))
  <2>1. c \in Nat /\ a \in [1..c -> kids(n)] /\ \A x \in kids(n) : \E r \in 1..c : a[r] = x
    BY <1>5
  <2>2. kids(n) \subseteq Nodes(t) \ {0}
    BY <1>5
  <2> HIDE DEF c, a
  <2>3. a \in [1..c -> Nodes(t) \ {0}]
    BY <2>1, <2>2
  <2>4. a \in Seq(Nodes(t) \ {0}) /\ Len(a) = c
    BY <2>1, <2>3
  <2>5. Range(a) = kids(n)
    BY <2>1 DEF Range
  <2> QED BY <2>4, <2>5 DEF a, c
<1>7. \A n \in Nodes(t) : t.children[n] = Ascending(kids(n))
  BY <1>1, <1>4
<1>8. t.children \in [Nodes(t) -> Seq(Nodes(t) \ {0})]
  BY <1>1, <1>4, <1>6
<1>9. \A n \in Nodes(t) : Len(t.children[n]) = Cardinality(kids(n))
                          /\ Range(t.children[n]) = kids(n)
  BY <1>6, <1>7
<1> QED BY <1>1, <1>2, <1>3, <1>7, <1>8, <1>9 DEF size, kids

\* What ConstructTree links from the leaves upwards is a tree, for every number of leaves and
\* every fan-out but 1, a last parent of fewer children included: nobody has two parents, the
\* root (PreOrderIdx 0) has none, and MaxChildren is the most children of a node.
THEOREM BuiltIsTree ==
  ASSUME NEW leaves, NEW fanout, Buildable(leaves, fanout)
  PROVE  IsTree(Tree(leaves, fanout))
<1> DEFINE t == Tree(leaves, fanout)
           size == Size(leaves, fanout)
           kids(n) == KidsOf(leaves, fanout, n)
           widths == {Len(t.children[n]) : n \in Nodes(t)}
<1>1. /\ t.size = size /\ t.size \in Nat \ {0}
      /\ t.children \in [Nodes(t) -> Seq(Nodes(t) \ {0})]
      /\ \A n \in Nodes(t) : /\ Len(t.children[n]) = Cardinality(kids(n))
                             /\ Range(t.children[n]) = kids(n)
  BY ChildrenAre
<1>2. ASSUME NEW n, NEW m, kids(n) \cap kids(m) # {} PROVE n = m
  <2>1. PICK j : j \in kids(n) /\ j \in kids(m)
    BY <1>2
  <2>2. PICK x \in Made(leaves, fanout) : j = Number(leaves, fanout, x)
    BY <2>1, KidsAre
  <2> QED BY <2>1, <2>2, KidsAre
<1>3. ASSUME NEW n
      PROVE  Cardinality(kids(n)) \in Nat /\ Cardinality(kids(n)) <= size
  <2>1. kids(n) \in SUBSET (1..(size - 1)) /\ Cardinality(kids(n)) \in Nat
    BY KidsAre
  <2>2. IsFiniteSet(1..(size - 1)) /\ Cardinality(1..(size - 1)) <= size
    BY <1>1, FS_Interval
  <2>3. Cardinality(kids(n)) <= Cardinality(1..(size - 1))
    BY <2>1, <2>2, FS_Subset
  <2>4. Cardinality(1..(size - 1)) \in Nat
    BY <2>2, FS_CardinalityType
  <2> QED BY <1>1, <2>1, <2>2, <2>3, <2>4
<1> HIDE DEF t, size, kids
<1>4. widths \in SUBSET Nat /\ widths # {} /\ size \in Nat /\ \A w \in widths : w <= size
  <2>1. 0 \in Nodes(t)
    BY <1>1 DEF Nodes
  <2> QED BY <1>1, <1>3, <2>1
<1>5. MaxChildren(t) = Max(widths)
  BY DEF MaxChildren
<1>6. \A n \in Nodes(t) : Len(t.children[n]) \in widths
  OBVIOUS
<1> HIDE DEF widths
<1>7. Max(widths) \in Nat /\ \A w \in widths : w <= Max(widths)
  BY <1>4, GreatestNumber
<1>8. \A n, m \in Nodes(t) : Range(t.children[n]) \cap Range(t.children[m]) # {} => n = m
  BY <1>1, <1>2
<1>9. IsTree(t)
  BY <1>1, <1>5, <1>6, <1>7, <1>8 DEF IsTree
<1> QED BY <1>9 DEF t

\* A node has children unless it is of the lowest level.
LEMMA KidlessAre ==
  ASSUME NEW leaves, NEW fanout, Buildable(leaves, fanout), NEW x \in Made(leaves, fanout)
  PROVE  KidsOf(leaves, fanout, Number(leaves, fanout, x)) = {} <=> x[1] = 0
<1> DEFINE D == Depth(leaves, fanout)
           s == Span(fanout)
           M == Made(leaves, fanout)
           n == Number(leaves, fanout, x)
           h == x[1]
           i == x[2]
<1>1. leaves \in Nat \ {0} /\ D \in 1..leaves
  BY DepthIs DEF Buildable
<1>2. x = <<h, i>> /\ h \in 0..(D - 1) /\ i \in Nat /\ i * s[h] < leaves
  <2>1. x = <<h, i>> /\ h \in 0..(D - 1) /\ i \in Nat /\ FirstLeaf(fanout, x) = i * s[h]
        /\ FirstLeaf(fanout, x) \in 0..(leaves - 1)
    BY MadeIs
  <2> QED BY <1>1, <2>1
<1>3. CASE h = 0
  <2> SUFFICES ASSUME NEW m \in KidsOf(leaves, fanout, n) PROVE FALSE
    BY <1>3
  <2>1. PICK y \in M : m = Number(leaves, fanout, y)
    BY KidsAre
  <2>2. HasParent(leaves, fanout, y) /\ n = Number(leaves, fanout, MadeParent(fanout, y))
    BY <2>1, KidsAre
  <2>3. MadeParent(fanout, y) \in M /\ MadeParent(fanout, y)[1] = y[1] + 1
    BY <2>2, ParentIs
  <2>4. MadeParent(fanout, y) = x
    BY <2>2, <2>3, Numbered
  <2>5. y[1] \in 0..(D - 1)
    BY MadeIs
  <2> QED BY <1>1, <1>3, <2>3, <2>4, <2>5
<1>4. CASE h # 0
  <2> DEFINE y == <<h - 1, i * fanout>>
  <2>1. fanout \in Nat \ {0, 1}
    <3>1. leaves # 1
      BY <1>1, <1>2, <1>4
    <3> QED BY <3>1 DEF Buildable
  <2>2. h - 1 \in Nat /\ h - 1 \in 0..(D - 1) /\ (h - 1) + 1 = h /\ h < D
    BY <1>1, <1>2, <1>4
  <2>3. s[(h - 1) + 1] = fanout * s[h - 1] /\ s[h - 1] \in Nat
    BY <2>1, <2>2, SpanIs
  <2>4. (i * fanout) * s[h - 1] = i * s[h]
    <3>1. (i * fanout) * s[h - 1] = i * (fanout * s[h - 1])
      BY <1>2, <2>1, <2>3
    <3> QED BY <2>2, <2>3, <3>1
  <2>5. i * fanout \in Nat /\ (i * fanout) \div fanout = i
    <3>1. i * fanout \in Nat
      BY <1>2, <2>1
    <3> DEFINE a == i * fanout
               q == a \div fanout
    <3>2. q \in Nat /\ a - fanout * q \in 0..(fanout - 1)
      BY <2>1, <3>1, Quotient
    <3>3. a = fanout * i
      BY <1>2, <2>1
    <3> HIDE DEF a, q
    <3>4. fanout * i - fanout * q \in 0..(fanout - 1)
      BY <3>2, <3>3
    <3>5. fanout * i \in Nat /\ fanout * q \in Nat
      BY <1>2, <2>1, <3>2
    <3>6. ~(q < i)
      <4> SUFFICES ASSUME q < i PROVE FALSE
        OBVIOUS
      <4>1. q * fanout + fanout <= i * fanout
        BY <1>2, <2>1, <3>2, TimesLess
      <4>2. q * fanout = fanout * q /\ i * fanout = fanout * i
        BY <1>2, <2>1, <3>2
      <4> QED BY <2>1, <3>4, <3>5, <4>1, <4>2
    <3>7. ~(i < q)
      <4> SUFFICES ASSUME i < q PROVE FALSE
        OBVIOUS
      <4>1. i * fanout + fanout <= q * fanout
        BY <1>2, <2>1, <3>2, TimesLess
      <4>2. q * fanout = fanout * q /\ i * fanout = fanout * i
        BY <1>2, <2>1, <3>2
      <4> QED BY <2>1, <3>4, <3>5, <4>1, <4>2
    <3>8. q = i
      BY <1>2, <3>2, <3>6, <3>7
    <3> QED BY <3>1, <3>8 DEF a, q
  <2>6. y \in M
    BY <1>2, <2>2, <2>4, <2>5, MadeIs
  <2>7. HasParent(leaves, fanout, y)
    BY <2>2 DEF HasParent
  <2>8. MadeParent(fanout, y) = x
    BY <1>2, <2>2, <2>5 DEF MadeParent
  <2>9. Number(leaves, fanout, y) \in KidsOf(leaves, fanout, n)
    BY <2>6, <2>7, <2>8, KidsAre
  <2> QED BY <1>4, <2>9
<1> QED BY <1>3, <1>4

LEMMA InnerAre ==
  ASSUME NEW leaves, NEW fanout, Buildable(leaves, fanout), NEW t, t = Tree(leaves, fanout)
  PROVE  /\ \A n \in Nodes(t) : n \in Inner(t) <=> KidsOf(leaves, fanout, n) # {}
         /\ \A x \in Made(leaves, fanout) :
              /\ Number(leaves, fanout, x) \in Inner(t) <=> x[1] # 0
              /\ Number(leaves, fanout, x) \in Leaves(t) <=> x[1] = 0
<1>1. t.children \in [Nodes(t) -> Seq(Nodes(t) \ {0})]
  BY ChildrenAre
<1>2. ASSUME NEW n \in Nodes(t) PROVE n \in Inner(t) <=> KidsOf(leaves, fanout, n) # {}
  <2> DEFINE c == Cardinality(KidsOf(leaves, fanout, n))
  <2>1. t.children[n] \in Seq(Nodes(t) \ {0}) /\ Len(t.children[n]) = c
    BY <1>1, ChildrenAre
  <2>2. t.children[n] = <<>> <=> Len(t.children[n]) = 0
    BY <2>1
  <2>3. IsFiniteSet(KidsOf(leaves, fanout, n))
    BY KidsAre
  <2>4. c = 0 <=> KidsOf(leaves, fanout, n) = {}
    BY <2>3, FS_EmptySet
  <2> QED BY <2>1, <2>2, <2>4 DEF Inner
<1>3. ASSUME NEW x \in Made(leaves, fanout)
      PROVE  /\ Number(leaves, fanout, x) \in Inner(t) <=> x[1] # 0
             /\ Number(leaves, fanout, x) \in Leaves(t) <=> x[1] = 0
  <2>1. Number(leaves, fanout, x) \in Nodes(t)
    BY ChildrenAre, Numbered DEF Nodes
  <2>2. KidsOf(leaves, fanout, Number(leaves, fanout, x)) = {} <=> x[1] = 0
    BY KidlessAre
  <2> QED BY <1>2, <2>1, <2>2 DEF Leaves
<1> QED BY <1>2, <1>3

LEMMA ParentsAre ==
  ASSUME NEW leaves, NEW fanout, Buildable(leaves, fanout), NEW t, t = Tree(leaves, fanout)
  PROVE  /\ \A x \in Made(leaves, fanout) :
              HasParent(leaves, fanout, x) =>
                Parent(t, Number(leaves, fanout, x))
                = Number(leaves, fanout, MadeParent(fanout, x))
         /\ \A n \in Nodes(t) \ {0} :
              /\ Parent(t, n) \in Inner(t) /\ Parent(t, n) < n
              /\ n \in Range(t.children[Parent(t, n)])
<1>1. ASSUME NEW x \in Made(leaves, fanout), HasParent(leaves, fanout, x)
      PROVE  LET n == Number(leaves, fanout, x)
                 p == Number(leaves, fanout, MadeParent(fanout, x))
             IN  /\ Parent(t, n) = p /\ p \in Inner(t) /\ p < n
                 /\ n \in Range(t.children[p])
  <2> DEFINE n == Number(leaves, fanout, x)
             p == Number(leaves, fanout, MadeParent(fanout, x))
  <2>1. MadeParent(fanout, x) \in Made(leaves, fanout)
    BY <1>1, ParentIs
  <2>2. p \in Nodes(t)
    BY <2>1, ChildrenAre, Numbered DEF Nodes
  <2>3. n \in KidsOf(leaves, fanout, p)
    BY <1>1, KidsAre
  <2>4. p \in Inner(t) /\ n \in Range(t.children[p])
    <3> HIDE DEF n, p
    <3>1. KidsOf(leaves, fanout, p) # {}
      BY <2>3
    <3>2. p \in Inner(t)
      BY <2>2, <3>1, InnerAre
    <3>3. Range(t.children[p]) = KidsOf(leaves, fanout, p)
      BY <2>2, ChildrenAre
    <3> QED BY <2>3, <3>2, <3>3
  <2>5. p < n
    BY <2>3, KidsAre
  <2>6. ASSUME NEW m \in Inner(t), n \in Range(t.children[m]) PROVE m = p
    <3>1. m \in Nodes(t)
      BY DEF Inner
    <3>2. n \in KidsOf(leaves, fanout, m)
      BY <2>6, <3>1, ChildrenAre
    <3> QED BY <3>2, KidsAre
  <2>7. Parent(t, n) = p
    <3> HIDE DEF n, p
    <3> QED BY <2>4, <2>6 DEF Parent
  <2> QED BY <2>4, <2>5, <2>7
<1>2. ASSUME NEW n \in Nodes(t) \ {0}
      PROVE  /\ Parent(t, n) \in Inner(t) /\ Parent(t, n) < n
             /\ n \in Range(t.children[Parent(t, n)])
  <2>1. n \in 0..(Size(leaves, fanout) - 1)
    BY ChildrenAre DEF Nodes
  <2>2. PICK x \in Made(leaves, fanout) : Number(leaves, fanout, x) = n
    BY <2>1, Numbered
  <2>3. HasParent(leaves, fanout, x)
    BY <2>2, RootIs
  <2> QED BY <1>1, <2>2, <2>3
<1> QED BY <1>1, <1>2

-----------------------------------------------------------------------------
(* The nodes above a node *)

\* Every node but the root has a parent, with a smaller number.
Rooted(t) ==
  /\ IsTree(t)
  /\ \A n \in Nodes(t) \ {0} : /\ Parent(t, n) \in Inner(t) /\ Parent(t, n) < n
                               /\ n \in Range(t.children[Parent(t, n)])

IsAbove(f, t, D) == f = [m \in D |-> IF m = 0 THEN {} ELSE {Parent(t, m)} \cup f[Parent(t, m)]]

LEMMA AboveExists ==
  ASSUME NEW t, Rooted(t), NEW n \in Nodes(t)
  PROVE  \E f : IsAbove(f, t, 0..n)
<1> DEFINE X == {m \in Nat : m \in Nodes(t) => \E f : IsAbove(f, t, 0..m)}
<1>0. t.size \in Nat \ {0} /\ Nodes(t) = 0..(t.size - 1)
  BY DEF Rooted, IsTree, Nodes
<1>1. 0 \in X
  <2> DEFINE f == [m \in 0..0 |-> {}]
  <2>1. f = [m \in 0..0 |-> IF m = 0 THEN {} ELSE {Parent(t, m)} \cup f[Parent(t, m)]]
    OBVIOUS
  <2> HIDE DEF f
  <2> QED BY <2>1 DEF IsAbove
<1>2. ASSUME NEW m \in Nat, m \in X PROVE m + 1 \in X
  <2> SUFFICES ASSUME m + 1 \in Nodes(t) PROVE \E f : IsAbove(f, t, 0..(m + 1))
    OBVIOUS
  <2>1. m \in Nodes(t)
    BY <1>0
  <2>2. PICK g : IsAbove(g, t, 0..m)
    BY <1>2, <2>1
  <2> DEFINE f == [x \in 0..(m + 1) |->
                     IF x = 0 THEN {} ELSE {Parent(t, x)} \cup g[Parent(t, x)]]
  <2>3. ASSUME NEW x \in 0..(m + 1), x # 0
        PROVE  Parent(t, x) \in 0..m /\ f[Parent(t, x)] = g[Parent(t, x)]
    <3> DEFINE p == Parent(t, x)
    <3>1. x \in Nodes(t) \ {0}
      BY <1>0, <2>3
    <3>2. p \in Inner(t) /\ p < x
      BY <3>1 DEF Rooted
    <3>3. p \in 0..m
      BY <1>0, <3>2 DEF Inner
    <3> HIDE DEF p
    <3>4. g[p] = IF p = 0 THEN {} ELSE {Parent(t, p)} \cup g[Parent(t, p)]
      BY <2>2, <3>3 DEF IsAbove
    <3>5. f[p] = IF p = 0 THEN {} ELSE {Parent(t, p)} \cup g[Parent(t, p)]
      BY <3>3
    <3> QED BY <3>3, <3>4, <3>5 DEF p
  <2>4. f = [x \in 0..(m + 1) |-> IF x = 0 THEN {} ELSE {Parent(t, x)} \cup f[Parent(t, x)]]
    <3> HIDE DEF f
    <3>1. f = [x \in 0..(m + 1) |-> IF x = 0 THEN {} ELSE {Parent(t, x)} \cup g[Parent(t, x)]]
      BY DEF f
    <3>2. \A x \in 0..(m + 1) : (IF x = 0 THEN {} ELSE {Parent(t, x)} \cup g[Parent(t, x)])
                                = IF x = 0 THEN {} ELSE {Parent(t, x)} \cup f[Parent(t, x)]
      BY <2>3
    <3> QED BY <3>1, <3>2
  <2> HIDE DEF f
  <2>5. IsAbove(f, t, 0..(m + 1))
    BY <2>4 DEF IsAbove
  <2> QED BY <2>5
<1> HIDE DEF X
<1>3. n \in Nat /\ n \in X
  BY <1>0, <1>1, <1>2, AllNumbers
<1> QED BY <1>3 DEF X

\* The walk up from a node.
LEMMA AboveIs ==
  ASSUME NEW t, Rooted(t), NEW n \in Nodes(t)
  PROVE  Above(t, n) = IF n = 0 THEN {} ELSE {Parent(t, n)} \cup Above(t, Parent(t, n))
<1> DEFINE up == CHOOSE f : IsAbove(f, t, Nodes(t))
<1>1. t.size \in Nat \ {0} /\ Nodes(t) = 0..(t.size - 1)
  BY DEF Rooted, IsTree, Nodes
<1>2. IsAbove(up, t, Nodes(t))
  <2>1. t.size - 1 \in Nodes(t)
    BY <1>1
  <2>2. \E f : IsAbove(f, t, Nodes(t))
    BY <1>1, <2>1, AboveExists
  <2> QED BY <2>2
<1>3. \A m : Above(t, m) = up[m]
  BY DEF Above, IsAbove
<1> HIDE DEF up
<1>4. up[n] = IF n = 0 THEN {} ELSE {Parent(t, n)} \cup up[Parent(t, n)]
  BY <1>2 DEF IsAbove
<1> QED BY <1>3, <1>4

LineOf(t, n) == {n} \cup Above(t, n)

LEMMA LineIs ==
  ASSUME NEW t, Rooted(t), NEW n \in Nodes(t)
  PROVE  /\ n = 0 => LineOf(t, n) = {0}
         /\ n # 0 => LineOf(t, n) = {n} \cup LineOf(t, Parent(t, n))
BY AboveIs DEF LineOf

\* A line of nodes goes up to the root, from parent to parent.
LineUp(t, n) ==
  /\ 0 \in LineOf(t, n) /\ LineOf(t, n) \subseteq 0..n
  /\ \A m \in LineOf(t, n) \ {0} : \E p \in LineOf(t, n) :
       p < m /\ m \in Range(t.children[p]) /\ \A x \in LineOf(t, n) : x < m => x <= p

LEMMA LinesUp ==
  ASSUME NEW t, Rooted(t), NEW n \in Nodes(t)
  PROVE  LineUp(t, n)
<1> DEFINE X == {m \in Nat : m \in Nodes(t) /\ ~LineUp(t, m)}
<1>0. t.size \in Nat \ {0} /\ Nodes(t) = 0..(t.size - 1)
  BY DEF Rooted, IsTree, Nodes
<1> SUFFICES ASSUME X # {} PROVE FALSE
  BY <1>0
<1>1. PICK m \in X : \A x \in X : m <= x
  <2> HIDE DEF X
  <2>1. X \in SUBSET Nat
    BY DEF X
  <2> QED BY <2>1, LeastNumber
<1>2. m \in Nat /\ m \in Nodes(t) /\ ~LineUp(t, m)
  OBVIOUS
<1>3. CASE m = 0
  BY <1>2, <1>3, LineIs DEF LineUp
<1>4. CASE m # 0
  <2> DEFINE p == Parent(t, m)
             above == LineOf(t, p)
             line == LineOf(t, m)
  <2>1. p \in Inner(t) /\ p < m /\ m \in Range(t.children[p])
    BY <1>2, <1>4 DEF Rooted
  <2>2. p \in Nodes(t) /\ p \in Nat
    BY <1>0, <2>1 DEF Inner
  <2>3. p \notin X
    BY <1>1, <1>2, <2>1, <2>2
  <2>4. LineUp(t, p)
    BY <2>2, <2>3
  <2>5. line = {m} \cup above
    BY <1>2, <1>4, LineIs
  <2>6. p \in above
    BY DEF LineOf
  <2> HIDE DEF p, above, line, X
  <2>7. /\ 0 \in above /\ above \subseteq 0..p
        /\ \A y \in above \ {0} : \E q \in above :
             q < y /\ y \in Range(t.children[q]) /\ \A x \in above : x < y => x <= q
    BY <2>4 DEF LineUp, above
  <2>8. \A x \in above : x \in Nat /\ x <= p /\ x < m
    BY <1>2, <2>1, <2>2, <2>7
  <2>9. 0 \in line /\ line \subseteq 0..m
    BY <1>2, <2>5, <2>7, <2>8
  <2>10. ASSUME NEW y \in line \ {0}
         PROVE  \E q \in line : q < y /\ y \in Range(t.children[q])
                                /\ \A x \in line : x < y => x <= q
    <3>1. CASE y = m
      <4>1. \A x \in line : x < m => x <= p
        BY <1>2, <2>5, <2>8
      <4> QED BY <2>1, <2>5, <2>6, <3>1, <4>1
    <3>2. CASE y # m
      <4>1. y \in above \ {0}
        BY <2>5, <3>2
      <4>2. PICK q \in above : q < y /\ y \in Range(t.children[q])
                               /\ \A x \in above : x < y => x <= q
        BY <2>7, <4>1
      <4>3. y \in Nat /\ ~(m < y)
        BY <1>2, <2>8, <4>1
      <4>4. \A x \in line : x < y => x <= q
        BY <2>5, <4>2, <4>3
      <4> QED BY <2>5, <4>2, <4>4
    <3> QED BY <3>1, <3>2
  <2>11. LineUp(t, m)
    BY <2>9, <2>10 DEF LineUp, line
  <2> QED BY <1>2, <2>11
<1> QED BY <1>3, <1>4

LEMMA BuiltIsRooted ==
  ASSUME NEW leaves, NEW fanout, Buildable(leaves, fanout)
  PROVE  Rooted(Tree(leaves, fanout))
BY BuiltIsTree, ParentsAre DEF Rooted

\* The leaves below a node are among those below every node above it.
Covers(fanout, y, x) ==
  /\ FirstLeaf(fanout, y) <= FirstLeaf(fanout, x)
  /\ FirstLeaf(fanout, x) + Span(fanout)[x[1]] <= FirstLeaf(fanout, y) + Span(fanout)[y[1]]

LEMMA LinesCover ==
  ASSUME NEW leaves, NEW fanout, Buildable(leaves, fanout), NEW t, t = Tree(leaves, fanout),
         NEW x \in Made(leaves, fanout), NEW m \in LineOf(t, Number(leaves, fanout, x))
  PROVE  \E y \in Made(leaves, fanout) : m = Number(leaves, fanout, y) /\ Covers(fanout, y, x)
<1> DEFINE M == Made(leaves, fanout)
           num(y) == Number(leaves, fanout, y)
           first(y) == FirstLeaf(fanout, y)
           last(y) == FirstLeaf(fanout, y) + Span(fanout)[y[1]]
           covered(y) == \A l \in LineOf(t, num(y)) : \E z \in M : l = num(z) /\ Covers(fanout, z, y)
           X == {n \in Nat : \E y \in M : n = num(y) /\ ~covered(y)}
<1>0. \A y \in M : first(y) \in Int /\ last(y) \in Int
  <2>1. \A y \in M : first(y) \in 0..(leaves - 1) /\ Span(fanout)[y[1]] \in Nat \ {0}
    BY MadeIs
  <2>2. leaves \in Nat
    BY DEF Buildable
  <2> QED BY <2>1, <2>2
<1>1. \A y, z \in M : Covers(fanout, z, y) <=> first(z) <= first(y) /\ last(y) <= last(z)
  BY DEF Covers
<1>2. Rooted(t) /\ \A y \in M : num(y) \in Nodes(t) /\ num(y) \in Nat
  <2>1. Size(leaves, fanout) \in Nat /\ t.size = Size(leaves, fanout)
    BY ChildrenAre, Numbered
  <2>2. \A y \in M : num(y) \in 0..(Size(leaves, fanout) - 1)
    BY Numbered
  <2> QED BY <2>1, <2>2, BuiltIsRooted DEF Nodes
<1>3. \A y \in M : HasParent(leaves, fanout, y) =>
        /\ MadeParent(fanout, y) \in M
        /\ first(MadeParent(fanout, y)) <= first(y) /\ last(y) <= last(MadeParent(fanout, y))
        /\ num(MadeParent(fanout, y)) < num(y)
  BY ParentIs, Numbered
<1>4. \A y \in M : HasParent(leaves, fanout, y) =>
        num(y) # 0 /\ Parent(t, num(y)) = num(MadeParent(fanout, y))
  <2>1. ASSUME NEW y \in M, HasParent(leaves, fanout, y) PROVE num(y) # 0
    <3>1. num(MadeParent(fanout, y)) < num(y) /\ num(MadeParent(fanout, y)) \in Nat
          /\ num(y) \in Nat
      BY <1>2, <1>3, <2>1
    <3> QED BY <3>1
  <2> QED BY <2>1, ParentsAre
<1>5. \A y \in M : ~HasParent(leaves, fanout, y) => num(y) = 0
  BY RootIs
<1> SUFFICES ASSUME ~covered(x) PROVE FALSE
  OBVIOUS
<1> HIDE DEF M, num, first, last
<1>6. X \in SUBSET Nat /\ X # {}
  <2> HIDE DEF covered
  <2>1. x \in M /\ num(x) \in Nat /\ ~covered(x)
    BY <1>2 DEF M
  <2> QED BY <2>1
<1>7. PICK n \in X : \A l \in X : n <= l
  <2> HIDE DEF X
  <2> QED BY <1>6, LeastNumber
<1>8. PICK y \in M : n = num(y) /\ ~covered(y)
  OBVIOUS
<1>9. Covers(fanout, y, y)
  BY <1>0, <1>1
<1>10. CASE ~HasParent(leaves, fanout, y)
  <2>1. LineOf(t, num(y)) = {num(y)}
    BY <1>2, <1>5, <1>10, LineIs
  <2> QED BY <1>8, <1>9, <2>1
<1>11. CASE HasParent(leaves, fanout, y)
  <2> DEFINE p == MadeParent(fanout, y)
  <2>1. p \in M /\ first(p) <= first(y) /\ last(y) <= last(p) /\ num(p) < num(y)
    BY <1>3, <1>11
  <2>2. LineOf(t, num(y)) = {num(y)} \cup LineOf(t, num(p))
    BY <1>2, <1>4, <1>11, LineIs
  <2> HIDE DEF p
  <2>3. num(p) \in Nat /\ num(y) \in Nat
    BY <1>2, <2>1
  <2>4. num(p) \notin X
    BY <1>7, <1>8, <2>1, <2>3
  <2>5. covered(p)
    BY <2>1, <2>3, <2>4
  <2>6. ASSUME NEW l \in LineOf(t, num(p))
        PROVE  \E z \in M : l = num(z) /\ Covers(fanout, z, y)
    <3>1. PICK z \in M : l = num(z) /\ Covers(fanout, z, p)
      BY <2>5
    <3>2. first(z) <= first(p) /\ last(p) <= last(z)
      BY <1>1, <2>1, <3>1
    <3>3. first(z) <= first(y) /\ last(y) <= last(z)
      BY <1>0, <2>1, <3>2
    <3> QED BY <1>1, <3>1, <3>3
  <2> QED BY <1>8, <1>9, <2>2, <2>6
<1> QED BY <1>10, <1>11

\* The numbers that assignPreOrderIndex gives to what was built are in preorder: following the
\* parents a walk of ipfs comes from any node up to 0, each parent has a smaller number than
\* what is below it, and all that is below a child comes before the next child.
THEOREM BuiltInPreorder ==
  ASSUME NEW leaves, NEW fanout, Buildable(leaves, fanout)
  PROVE  InPreorder(Tree(leaves, fanout))
<1> DEFINE t == Tree(leaves, fanout)
           M == Made(leaves, fanout)
           num(x) == Number(leaves, fanout, x)
           first(x) == FirstLeaf(fanout, x)
           s == Span(fanout)
<1>0. Rooted(t)
  BY BuiltIsRooted
<1>1. ASSUME NEW n \in Nodes(t), NEW x \in Nodes(t),
             NEW i \in DOMAIN t.children[n], NEW j \in DOMAIN t.children[n],
             i < j, t.children[n][i] \in LineOf(t, x)
      PROVE  x < t.children[n][j]
  <2> DEFINE kids == KidsOf(leaves, fanout, n)
             a == t.children[n][i]
             b == t.children[n][j]
  <2>1. t.children[n] = Ascending(kids)
    BY ChildrenAre
  <2>2. kids \subseteq 1..(Size(leaves, fanout) - 1) /\ IsFiniteSet(kids)
    BY KidsAre
  <2>3. kids \in SUBSET Nat
    BY <2>2, Numbered
  <2>4. a \in kids /\ b \in kids /\ a < b
    <3> HIDE DEF kids
    <3>1. /\ Ascending(kids) \in [1..Cardinality(kids) -> kids]
          /\ \A u, v \in 1..Cardinality(kids) : u < v <=> Ascending(kids)[u] < Ascending(kids)[v]
      BY <2>2, <2>3, Increasing
    <3>2. i \in 1..Cardinality(kids) /\ j \in 1..Cardinality(kids)
      BY <2>1, <3>1
    <3> QED BY <1>1, <2>1, <3>1, <3>2
  <2>5. PICK ya \in M : a = num(ya)
    BY <2>4, KidsAre
  <2>6. PICK yb \in M : b = num(yb)
    BY <2>4, KidsAre
  <2>7. /\ HasParent(leaves, fanout, ya) /\ HasParent(leaves, fanout, yb)
        /\ num(MadeParent(fanout, ya)) = num(MadeParent(fanout, yb))
    BY <2>4, <2>5, <2>6, KidsAre
  <2>8. /\ MadeParent(fanout, ya) \in M /\ MadeParent(fanout, yb) \in M
        /\ MadeParent(fanout, ya)[1] = ya[1] + 1 /\ MadeParent(fanout, yb)[1] = yb[1] + 1
    BY <2>7, ParentIs
  <2>9. MadeParent(fanout, ya) = MadeParent(fanout, yb)
    BY <2>7, <2>8, Numbered
  <2>10. PICK w \in M : x = num(w)
    <3>1. x \in 0..(Size(leaves, fanout) - 1)
      BY ChildrenAre DEF Nodes
    <3> QED BY <3>1, Numbered
  <2>11. Covers(fanout, ya, w)
    <3>1. PICK y \in M : a = num(y) /\ Covers(fanout, y, w)
      BY <1>1, <2>10, LinesCover
    <3>2. y = ya
      BY <2>5, <3>1, Numbered
    <3> QED BY <3>1, <3>2
  <2>12. ComesBefore(fanout, ya, yb)
    BY <2>4, <2>5, <2>6, Numbered
  <2>13. \A y \in M : /\ y[1] \in Nat /\ y[2] \in Nat /\ s[y[1]] \in Nat \ {0}
                      /\ first(y) = y[2] * s[y[1]] /\ first(y) \in Nat
    <3>1. leaves \in Nat \ {0} /\ Depth(leaves, fanout) \in 1..leaves
      BY DepthIs DEF Buildable
    <3> QED BY <3>1, MadeIs
  <2>14. ya[1] = yb[1]
    <3>1. ya[1] + 1 = yb[1] + 1
      BY <2>8, <2>9
    <3>2. ya[1] \in Nat /\ yb[1] \in Nat
      BY <2>13
    <3> QED BY <3>1, <3>2
  <2>15. first(ya) < first(yb)
    BY <2>12, <2>13, <2>14 DEF ComesBefore
  <2>16. first(ya) + s[ya[1]] <= first(yb)
    <3>1. ya[2] < yb[2]
      <4> SUFFICES ASSUME yb[2] <= ya[2] PROVE FALSE
        BY <2>13
      <4>1. yb[2] * s[ya[1]] <= ya[2] * s[ya[1]]
        BY <2>13, TimesMore
      <4> QED BY <2>13, <2>14, <2>15, <4>1
    <3>2. ya[2] * s[ya[1]] + s[ya[1]] <= yb[2] * s[ya[1]]
      BY <2>13, <3>1, TimesLess
    <3> QED BY <2>13, <2>14, <3>2
  <2>17. first(w) + s[w[1]] <= first(ya) + s[ya[1]]
    BY <2>11 DEF Covers
  <2>18. first(w) < first(yb)
    <3> HIDE DEF first, s
    <3> QED BY <2>13, <2>16, <2>17
  <2>19. ComesBefore(fanout, w, yb)
    BY <2>18 DEF ComesBefore
  <2> QED BY <2>6, <2>10, <2>19, Numbered
<1>2. \A n \in Nodes(t) : LineUp(t, n)
  BY <1>0, LinesUp
<1> HIDE DEF t
<1>3. InPreorder(t)
  BY <1>1, <1>2 DEF InPreorder, LineUp, LineOf
<1> QED BY <1>3 DEF t

-----------------------------------------------------------------------------
(* The leaves *)

\* There are as many leaves as chunks.
LEMMA LeafCount ==
  ASSUME NEW leaves, NEW fanout, Buildable(leaves, fanout), NEW t, t = Tree(leaves, fanout)
  PROVE  /\ Leaves(t) \in SUBSET Nat
         /\ IsFiniteSet(Leaves(t)) /\ Cardinality(Leaves(t)) = leaves
<1> DEFINE f == [i \in 0..(leaves - 1) |-> Number(leaves, fanout, <<0, i>>)]
<1>0. leaves \in Nat \ {0} /\ Depth(leaves, fanout) \in 1..leaves /\ Span(fanout)[0] = 1
  BY DepthIs, SpanIs DEF Buildable
<1>1. \A i \in 0..(leaves - 1) : <<0, i>> \in Made(leaves, fanout) /\ <<0, i>>[1] = 0
  BY <1>0, MadeIs
<1>2. Nodes(t) \in SUBSET Nat /\ Leaves(t) \subseteq Nodes(t)
      /\ Nodes(t) = 0..(Size(leaves, fanout) - 1)
  <2>1. t.size = Size(leaves, fanout) /\ t.size \in Nat \ {0}
    BY ChildrenAre
  <2> QED BY <2>1 DEF Nodes, Leaves
<1>3. f \in [0..(leaves - 1) -> Leaves(t)]
  BY <1>1, InnerAre
<1>4. \A i, j \in 0..(leaves - 1) : f[i] = f[j] => i = j
  <2> SUFFICES ASSUME NEW i \in 0..(leaves - 1), NEW j \in 0..(leaves - 1), f[i] = f[j]
               PROVE  i = j
    OBVIOUS
  <2>1. <<0, i>> = <<0, j>>
    BY <1>1, Numbered
  <2> QED BY <2>1
<1>5. \A n \in Leaves(t) : \E i \in 0..(leaves - 1) : f[i] = n
  <2> SUFFICES ASSUME NEW n \in Leaves(t) PROVE \E i \in 0..(leaves - 1) : f[i] = n
    OBVIOUS
  <2>1. PICK x \in Made(leaves, fanout) : Number(leaves, fanout, x) = n
    BY <1>2, Numbered
  <2>2. x[1] = 0
    BY <2>1, InnerAre
  <2>3. x = <<x[1], x[2]>> /\ x[2] \in Nat /\ FirstLeaf(fanout, x) = x[2] * Span(fanout)[x[1]]
        /\ FirstLeaf(fanout, x) \in 0..(leaves - 1)
    BY MadeIs
  <2>4. x[2] \in 0..(leaves - 1)
    BY <1>0, <2>2, <2>3
  <2> QED BY <2>1, <2>2, <2>3, <2>4
<1> HIDE DEF f
<1>6. f \in Bijection(0..(leaves - 1), Leaves(t))
  BY <1>3, <1>4, <1>5 DEF Bijection, Injection, IsInjective, Surjection
<1>7. IsFiniteSet(0..(leaves - 1)) /\ Cardinality(0..(leaves - 1)) = leaves
  <2> DEFINE d == leaves - 1
  <2>1. d \in Nat /\ leaves = d + 1 /\ 0 \in Int /\ d \in Int
    BY <1>0
  <2> HIDE DEF d
  <2>2. IsFiniteSet(0..d) /\ Cardinality(0..d) = IF 0 > d THEN 0 ELSE d - 0 + 1
    BY ONLY <2>1, FS_Interval
  <2>3. (IF 0 > d THEN 0 ELSE d - 0 + 1) = leaves
    BY <2>1
  <2> QED BY <2>2, <2>3 DEF d
<1>8. IsFiniteSet(Leaves(t)) /\ Cardinality(Leaves(t)) = leaves
  BY <1>6, <1>7, FS_Bijection DEF ExistsBijection
<1> QED BY <1>2, <1>8

\* In their order, they are a sequence of that length.
LEMMA LeavesInOrder ==
  ASSUME NEW leaves, NEW fanout, Buildable(leaves, fanout), NEW t, t = Tree(leaves, fanout)
  PROVE  /\ LeafSeq(t) \in [1..leaves -> Leaves(t)] /\ Range(LeafSeq(t)) = Leaves(t)
         /\ \A i, j \in 1..leaves : i < j => LeafSeq(t)[i] < LeafSeq(t)[j]
<1>1. /\ Leaves(t) \in SUBSET Nat
      /\ IsFiniteSet(Leaves(t)) /\ Cardinality(Leaves(t)) = leaves
  BY LeafCount
<1>2. LeafSeq(t) = Ascending(Leaves(t))
  BY DEF LeafSeq
<1>3. /\ LeafSeq(t) \in [1..leaves -> Leaves(t)]
      /\ \A x \in Leaves(t) : \E r \in 1..leaves : LeafSeq(t)[r] = x
      /\ \A i, j \in 1..leaves : i < j <=> LeafSeq(t)[i] < LeafSeq(t)[j]
  BY <1>1, <1>2, Increasing
<1>4. Range(LeafSeq(t)) = Leaves(t)
  BY <1>3 DEF Range
<1> QED BY <1>3, <1>4

-----------------------------------------------------------------------------
(* The trees of the strands *)

\* The pieces a parity is cut across are leaves that the tree has.
LEMMA PiecesFit ==
  ASSUME NEW blocks \in Nat \ {0}, NEW i \in 1..blocks
  PROVE  /\ PiecesOf(i) \subseteq 0..(ParityLeaves(blocks) - 1)
         /\ ParityLeaves(blocks) \in Nat \ {0, 1}
<1> DEFINE l == ParityLeaves(blocks)
           from == ((i - 1) * 262158) \div 262144
           to == (i * 262158 - 1) \div 262144
<1>1. l \in Int /\ 262144 * l <= blocks * 262158 + 262143 /\ blocks * 262158 <= 262144 * l
  BY DEF ParityLeaves
<1>2. from \in Int /\ 262144 * from <= (i - 1) * 262158 /\ (i - 1) * 262158 < 262144 * from + 262144
  OBVIOUS
<1>3. to \in Int /\ 262144 * to <= i * 262158 - 1
  OBVIOUS
<1>4. PiecesOf(i) = from..to
  BY DEF PiecesOf
<1> HIDE DEF l, from, to
<1>5. l \in Nat \ {0, 1}
  BY <1>1
<1>6. 0 <= from /\ to <= l - 1
  BY <1>1, <1>2, <1>3
<1>7. from..to \subseteq 0..(l - 1)
  BY <1>2, <1>3, <1>5, <1>6
<1> QED BY <1>4, <1>5, <1>7 DEF l

\* A parity tree is built like the tree of a file.
LEMMA ParityTreeIs ==
  ASSUME NEW blocks \in Nat \ {0}, NEW fanout \in Nat \ {1}
  PROVE  \E k : /\ Buildable(ParityLeaves(blocks), k)
                /\ ParityTree(blocks, fanout) = Tree(ParityLeaves(blocks), k)
                /\ k = IF fanout = 0 THEN ParityLeaves(blocks) ELSE fanout
<1>1. ParityLeaves(blocks) \in Nat \ {0, 1}
  <2>1. 1 \in 1..blocks
    OBVIOUS
  <2> QED BY <2>1, PiecesFit
<1> DEFINE k == IF fanout = 0 THEN ParityLeaves(blocks) ELSE fanout
<1>2. k \in Nat \ {0, 1}
  BY <1>1
<1>3. ParityTree(blocks, fanout) = Tree(ParityLeaves(blocks), k)
  BY DEF ParityTree
<1>4. Buildable(ParityLeaves(blocks), k)
  BY <1>1, <1>2 DEF Buildable
<1> QED BY <1>3, <1>4

LEMMA PiecesAreNodes ==
  ASSUME NEW blocks \in Nat \ {0}, NEW fanout \in Nat \ {1},
         NEW s, s = ParityTree(blocks, fanout), NEW i \in 1..blocks
  PROVE  ParityPieces(s, i) \subseteq Nodes(s)
<1> DEFINE l == ParityLeaves(blocks)
<1>1. PICK k : Buildable(l, k) /\ s = Tree(l, k)
  BY ParityTreeIs
<1>2. PiecesOf(i) \subseteq 0..(l - 1) /\ l \in Nat
  BY PiecesFit
<1>3. LeafSeq(s) \in [1..l -> Leaves(s)]
  BY <1>1, LeavesInOrder
<1> HIDE DEF l
<1>4. \A b \in PiecesOf(i) : LeafSeq(s)[b + 1] \in Leaves(s)
  BY <1>2, <1>3
<1> QED BY <1>4 DEF ParityPieces, Leaves

-----------------------------------------------------------------------------
(* The indices in the lattice *)

\* A function on 0..n may be defined from its value at 0 and a step.
Iterates(f, X, base, n, step) ==
  f \in [0..n -> X] /\ f[0] = base /\ \A r \in 1..n : f[r] = step[<<r, f[r - 1]>>]

LEMMA Iterated ==
  ASSUME NEW X, NEW base \in X, NEW n \in Nat, NEW step \in [(1..n) \X X -> X]
  PROVE  \E f : Iterates(f, X, base, n, step)
<1> DEFINE To(f, m) == /\ f \in [0..m -> X] /\ f[0] = base
                       /\ \A r \in 1..m : f[r] = step[<<r, f[r - 1]>>]
           Y == {m \in Nat : m <= n => \E f : To(f, m)}
<1>1. 0 \in Y
  <2> DEFINE f == [r \in 0..0 |-> base]
  <2>1. To(f, 0)
    OBVIOUS
  <2> QED BY <2>1
<1>2. ASSUME NEW m \in Nat, m \in Y PROVE m + 1 \in Y
  <2> SUFFICES ASSUME m + 1 <= n PROVE \E f : To(f, m + 1)
    OBVIOUS
  <2>1. PICK g : To(g, m)
    BY <1>2
  <2> DEFINE f == [r \in 0..(m + 1) |-> IF r = m + 1 THEN step[<<m + 1, g[m]>>] ELSE g[r]]
  <2>2. <<m + 1, g[m]>> \in (1..n) \X X
    BY <2>1
  <2>3. f \in [0..(m + 1) -> X] /\ f[0] = base
    BY <2>1, <2>2
  <2>4. ASSUME NEW r \in 1..(m + 1) PROVE f[r] = step[<<r, f[r - 1]>>]
    <3>1. f[r - 1] = g[r - 1]
      OBVIOUS
    <3>2. CASE r = m + 1
      <4>1. f[r] = step[<<m + 1, g[m]>>] /\ r - 1 = m
        BY <3>2
      <4> QED BY <3>1, <3>2, <4>1
    <3>3. CASE r # m + 1
      <4>1. r \in 1..m /\ f[r] = g[r]
        BY <3>3
      <4>2. g[r] = step[<<r, g[r - 1]>>]
        BY <2>1, <4>1
      <4> QED BY <3>1, <4>1, <4>2
    <3> QED BY <3>2, <3>3
  <2> HIDE DEF f
  <2>5. To(f, m + 1)
    BY <2>3, <2>4
  <2> QED BY <2>5
<1> HIDE DEF Y
<1>3. n \in Y
  BY <1>1, <1>2, AllNumbers
<1>4. PICK f : To(f, n)
  BY <1>3 DEF Y
<1> QED BY <1>4 DEF Iterates

\* The permutations of the nodes.
Shuffles(t) ==
  {f \in [Nodes(t) -> Nodes(t)] : \A n \in Nodes(t) : \E m \in Nodes(t) : f[m] = n}

LEMMA IdentityShuffles ==
  ASSUME NEW t
  PROVE  Identity(t) \in Shuffles(t) /\ \A n \in Nodes(t) : Identity(t)[n] = n
<1>1. Identity(t) \in [Nodes(t) -> Nodes(t)] /\ \A n \in Nodes(t) : Identity(t)[n] = n
  BY DEF Identity
<1> QED BY <1>1 DEF Shuffles

\* What is swapped and what is not.
LEMMA SwapIs ==
  ASSUME NEW N, NEW f \in [N -> N], NEW i \in N, NEW j \in N
  PROVE  /\ Swap(f, i, j) \in [N -> N]
         /\ Swap(f, i, j)[i] = f[j] /\ Swap(f, i, j)[j] = f[i]
         /\ \A n \in N \ {i, j} : Swap(f, i, j)[n] = f[n]
BY DEF Swap

LEMMA SwapShuffles ==
  ASSUME NEW t, NEW f \in Shuffles(t), NEW i \in Nodes(t), NEW j \in Nodes(t)
  PROVE  Swap(f, i, j) \in Shuffles(t)
<1> DEFINE N == Nodes(t)
           g == Swap(f, i, j)
<1>1. f \in [N -> N] /\ \A n \in N : \E m \in N : f[m] = n
  BY DEF Shuffles
<1> HIDE DEF N, g
<1>2. i \in N /\ j \in N
  BY DEF N
<1>3. /\ g \in [N -> N] /\ g[i] = f[j] /\ g[j] = f[i]
      /\ \A n \in N \ {i, j} : g[n] = f[n]
  BY <1>1, <1>2 DEF Swap, g
<1>4. ASSUME NEW n \in N PROVE \E m \in N : g[m] = n
  <2>1. PICK m \in N : f[m] = n
    BY <1>1
  <2> QED BY <1>2, <1>3, <2>1
<1> QED BY <1>3, <1>4 DEF Shuffles, N, g

\* The place an inner node goes to.
LEMMA TargetsAre ==
  ASSUME NEW t, t.size \in Nat \ {0}, NEW n, NEW nodes
  PROVE  /\ Targets(t, n, nodes) \in SUBSET Nat /\ Targets(t, n, nodes) \subseteq Nodes(t)
         /\ Targets(t, n, nodes) # {} =>
              Min(Targets(t, n, nodes)) \in Targets(t, n, nodes)
<1>1. S * P \in Nat
  BY PositionsAssumption
<1>2. Targets(t, n, nodes) \subseteq (S * P)..(t.size - 1)
  BY DEF Targets
<1>3. Targets(t, n, nodes) \in SUBSET Nat /\ Targets(t, n, nodes) \subseteq Nodes(t)
  <2> DEFINE T == Targets(t, n, nodes)
  <2> HIDE DEF T
  <2>1. T \subseteq (S * P)..(t.size - 1)
    BY <1>2 DEF T
  <2>2. T \in SUBSET Nat /\ T \subseteq Nodes(t)
    BY <1>1, <2>1 DEF Nodes
  <2> QED BY <2>2 DEF T
<1> QED BY <1>3, LeastOf

LEMMA MovedShuffles ==
  ASSUME NEW t, t.size \in Nat \ {0}, NEW n, NEW nodes, NEW place \in Nodes(t),
         NEW f \in Shuffles(t)
  PROVE  Moved(t, n, nodes, place, f) \in Shuffles(t)
<1> DEFINE T == Targets(t, n, nodes)
<1>1. T \subseteq Nodes(t) /\ (T # {} => Min(T) \in T)
  BY TargetsAre
<1>2. Moved(t, n, nodes, place, f) = IF T = {} THEN f ELSE Swap(f, Min(T), place)
  BY DEF Moved
<1> HIDE DEF T
<1>3. CASE T = {}
  BY <1>2, <1>3
<1>4. CASE T # {}
  <2>1. Min(T) \in Nodes(t)
    BY <1>1, <1>4
  <2>2. Swap(f, Min(T), place) \in Shuffles(t)
    BY <2>1, SwapShuffles
  <2> QED BY <1>2, <1>4, <2>2
<1> QED BY <1>3, <1>4

\* What the two orders go through, from one inner node to the next.
IsIndexing(g, t, order) ==
  g = [r \in 0..Len(order) |->
         IF r = 0 THEN Identity(t)
         ELSE Moved(t, order[r], Identity(t), order[r] - 1, g[r - 1])]

IsFlattening(g, t, order) ==
  g = [r \in 0..Len(order) |->
         IF r = 0 THEN Identity(t)
         ELSE Moved(t, order[r], g[r - 1], order[r] - 1, g[r - 1])]

LEMMA IndexingExists ==
  ASSUME NEW t, t.size \in Nat \ {0}, NEW order \in Seq(Nodes(t) \ {0})
  PROVE  /\ \E g : IsIndexing(g, t, order)
         /\ \E g : IsFlattening(g, t, order)
<1> DEFINE c == Len(order)
           X == Shuffles(t)
           step == [y \in (1..c) \X X |->
                      Moved(t, order[y[1]], Identity(t), order[y[1]] - 1, y[2])]
           move == [y \in (1..c) \X X |->
                      Moved(t, order[y[1]], y[2], order[y[1]] - 1, y[2])]
<1>1. Identity(t) \in X /\ c \in Nat
  BY IdentityShuffles
<1>2. \A r \in 1..c : order[r] - 1 \in Nodes(t)
  <2> SUFFICES ASSUME NEW r \in 1..c PROVE order[r] - 1 \in Nodes(t)
    OBVIOUS
  <2>1. order[r] \in Nodes(t) \ {0}
    OBVIOUS
  <2> QED BY <2>1 DEF Nodes
<1>3. step \in [(1..c) \X X -> X] /\ move \in [(1..c) \X X -> X]
  <2>1. ASSUME NEW y \in (1..c) \X X
        PROVE  /\ Moved(t, order[y[1]], Identity(t), order[y[1]] - 1, y[2]) \in X
               /\ Moved(t, order[y[1]], y[2], order[y[1]] - 1, y[2]) \in X
    <3>1. order[y[1]] - 1 \in Nodes(t) /\ y[2] \in Shuffles(t)
      BY <1>2
    <3> QED BY <3>1, MovedShuffles
  <2> HIDE DEF c, X
  <2> QED BY <2>1
<1>4. /\ \A r \in 1..c, h \in X :
           step[<<r, h>>] = Moved(t, order[r], Identity(t), order[r] - 1, h)
      /\ \A r \in 1..c, h \in X :
           move[<<r, h>>] = Moved(t, order[r], h, order[r] - 1, h)
  OBVIOUS
<1> HIDE DEF step, move, c, X
<1>5. PICK f : Iterates(f, X, Identity(t), c, step)
  BY <1>1, <1>3, Iterated
<1>6. PICK g : Iterates(g, X, Identity(t), c, move)
  BY <1>1, <1>3, Iterated
<1>7. \A r \in 0..c :
        f[r] = IF r = 0 THEN Identity(t)
               ELSE Moved(t, order[r], Identity(t), order[r] - 1, f[r - 1])
  <2> SUFFICES ASSUME NEW r \in 0..c, r # 0
               PROVE  f[r] = Moved(t, order[r], Identity(t), order[r] - 1, f[r - 1])
    BY <1>5 DEF Iterates
  <2>1. r \in 1..c /\ r - 1 \in 0..c
    BY <1>1
  <2>2. f[r - 1] \in X
    BY <1>5, <2>1 DEF Iterates
  <2> QED BY <1>4, <1>5, <2>1, <2>2 DEF Iterates
<1>8. \A r \in 0..c :
        g[r] = IF r = 0 THEN Identity(t)
               ELSE Moved(t, order[r], g[r - 1], order[r] - 1, g[r - 1])
  <2> SUFFICES ASSUME NEW r \in 0..c, r # 0
               PROVE  g[r] = Moved(t, order[r], g[r - 1], order[r] - 1, g[r - 1])
    BY <1>6 DEF Iterates
  <2>1. r \in 1..c /\ r - 1 \in 0..c
    BY <1>1
  <2>2. g[r - 1] \in X
    BY <1>6, <2>1 DEF Iterates
  <2> QED BY <1>4, <1>6, <2>1, <2>2 DEF Iterates
<1>9. IsIndexing(f, t, order)
  BY <1>5, <1>7 DEF Iterates, IsIndexing, c
<1>10. IsFlattening(g, t, order)
  BY <1>6, <1>8 DEF Iterates, IsFlattening, c
<1> QED BY <1>9, <1>10

LEMMA IndexingShuffles ==
  ASSUME NEW t, t.size \in Nat \ {0}, NEW order \in Seq(Nodes(t) \ {0}),
         NEW g, IsIndexing(g, t, order)
  PROVE  g[Len(order)] \in Shuffles(t)
<1> DEFINE X == {r \in Nat : r <= Len(order) => g[r] \in Shuffles(t)}
<1>0. /\ Len(order) \in Nat
      /\ \A r \in 0..Len(order) :
           g[r] = IF r = 0 THEN Identity(t)
                  ELSE Moved(t, order[r], Identity(t), order[r] - 1, g[r - 1])
  BY DEF IsIndexing
<1>1. 0 \in X
  BY <1>0, IdentityShuffles
<1>2. ASSUME NEW r \in Nat, r \in X PROVE r + 1 \in X
  <2> SUFFICES ASSUME r + 1 <= Len(order) PROVE g[r + 1] \in Shuffles(t)
    OBVIOUS
  <2>1. g[r] \in Shuffles(t) /\ r + 1 \in 0..Len(order) /\ r + 1 # 0 /\ (r + 1) - 1 = r
    BY <1>0, <1>2
  <2>2. g[r + 1] = Moved(t, order[r + 1], Identity(t), order[r + 1] - 1, g[r])
    BY <1>0, <2>1
  <2>3. order[r + 1] \in Nodes(t) \ {0}
    BY <2>1
  <2>4. order[r + 1] - 1 \in Nodes(t)
    BY <2>3 DEF Nodes
  <2> QED BY <2>1, <2>2, <2>4, MovedShuffles
<1> HIDE DEF X
<1>3. Len(order) \in X
  BY <1>0, <1>1, <1>2, AllNumbers
<1> QED BY <1>0, <1>3 DEF X

\* Inner nodes but the root, from the first to the last.
LEMMA PreOrderIs ==
  ASSUME NEW t, t.size \in Nat \ {0}
  PROVE  LET T == Inner(t) \ {0}
         IN  /\ Cardinality(T) \in Nat /\ IsFiniteSet(T)
             /\ PreOrder(t) \in [1..Cardinality(T) -> T]
             /\ PreOrder(t) \in Seq(Nodes(t) \ {0}) /\ Len(PreOrder(t)) = Cardinality(T)
             /\ \A x \in T : \E r \in 1..Cardinality(T) : PreOrder(t)[r] = x
             /\ \A i, j \in 1..Cardinality(T) : i < j <=> PreOrder(t)[i] < PreOrder(t)[j]
<1> DEFINE T == Inner(t) \ {0}
<1>1. T \subseteq Nodes(t) \ {0}
  BY DEF Inner
<1>2. Nodes(t) \in SUBSET Nat /\ IsFiniteSet(Nodes(t))
  <2>1. t.size - 1 \in Int
    OBVIOUS
  <2>2. IsFiniteSet(0..(t.size - 1))
    BY <2>1, FS_Interval
  <2> QED BY <2>2 DEF Nodes
<1>3. T \in SUBSET Nat /\ IsFiniteSet(T)
  BY <1>1, <1>2, FS_Subset
<1>4. PreOrder(t) = Ascending(T)
  BY DEF PreOrder
<1> HIDE DEF T
<1>5. /\ Cardinality(T) \in Nat
      /\ PreOrder(t) \in [1..Cardinality(T) -> T]
      /\ \A x \in T : \E r \in 1..Cardinality(T) : PreOrder(t)[r] = x
      /\ \A i, j \in 1..Cardinality(T) : i < j <=> PreOrder(t)[i] < PreOrder(t)[j]
  BY <1>3, <1>4, Increasing
<1>6. PreOrder(t) \in Seq(T) /\ Len(PreOrder(t)) = Cardinality(T)
  BY <1>5
<1>7. PreOrder(t) \in Seq(Nodes(t) \ {0})
  BY <1>1, <1>6
<1> QED BY <1>3, <1>5, <1>6, <1>7 DEF T

\* Every node has an index of its own.
LEMMA IndexShuffles ==
  ASSUME NEW t, t.size \in Nat \ {0}
  PROVE  LatticeIdx(t) \in [Nodes(t) -> Nodes(t)] /\ Range(LatticeIdx(t)) = Nodes(t)
<1> DEFINE order == PreOrder(t)
           g == CHOOSE f : IsIndexing(f, t, order)
<1>1. order \in Seq(Nodes(t) \ {0})
  BY PreOrderIs
<1>2. IsIndexing(g, t, order)
  <2> HIDE DEF order
  <2>1. \E f : IsIndexing(f, t, order)
    BY <1>1, IndexingExists
  <2> QED BY <2>1
<1>3. LatticeIdx(t) = g[Len(order)]
  BY DEF LatticeIdx, IsIndexing
<1> HIDE DEF order, g
<1>4. LatticeIdx(t) \in Shuffles(t)
  BY <1>1, <1>2, <1>3, IndexingShuffles
<1>5. /\ LatticeIdx(t) \in [Nodes(t) -> Nodes(t)]
      /\ \A n \in Nodes(t) : \E m \in Nodes(t) : LatticeIdx(t)[m] = n
  BY <1>4 DEF Shuffles
<1> QED BY <1>5 DEF Range

-----------------------------------------------------------------------------
(* Building a tree again *)

\* How many children the widest node has.
MostChildren(leaves, fanout) ==
  IF leaves = 1 THEN 0 ELSE IF leaves <= fanout THEN leaves ELSE fanout

\* No node has more children than that.
LEMMA KidsFew ==
  ASSUME NEW leaves, NEW fanout, Buildable(leaves, fanout), NEW n
  PROVE  Cardinality(KidsOf(leaves, fanout, n)) <= MostChildren(leaves, fanout)
<1> DEFINE M == Made(leaves, fanout)
           num(x) == Number(leaves, fanout, x)
           kids == KidsOf(leaves, fanout, n)
           w == MostChildren(leaves, fanout)
           s == Span(fanout)
<1>0. leaves \in Nat \ {0} /\ fanout \in Nat /\ w \in Nat
  BY DEF Buildable, MostChildren
<1>1. /\ IsFiniteSet(kids) /\ Cardinality(kids) \in Nat
      /\ \A m \in kids : \E x \in M : m = num(x)
      /\ \A x \in M : num(x) \in kids =>
           HasParent(leaves, fanout, x) /\ n = num(MadeParent(fanout, x))
  BY KidsAre
<1>2. CASE leaves = 1
  <2>1. \A x \in M : ~HasParent(leaves, fanout, x)
    <3>1. Depth(leaves, fanout) = 1
      BY <1>2, DepthIs
    <3>2. \A x \in M : x[1] \in 0..(Depth(leaves, fanout) - 1)
      BY MadeIs
    <3> QED BY <3>1, <3>2 DEF HasParent
  <2>2. kids = {}
    BY <1>1, <2>1
  <2>3. Cardinality(kids) = 0
    BY <2>2, FS_EmptySet
  <2> QED BY <1>0, <2>3
<1>3. CASE leaves # 1
  <2>0. fanout \in Nat \ {0, 1} /\ w \in Nat \ {0} /\ w = IF leaves <= fanout THEN leaves ELSE fanout
    BY <1>0, <1>3 DEF Buildable, MostChildren
  <2> DEFINE at == [m \in kids |-> CHOOSE x \in M : m = num(x)]
             place == [m \in kids |-> at[m][2] - fanout * (at[m][2] \div fanout)]
  <2>1. ASSUME NEW m \in kids
        PROVE  /\ at[m] \in M /\ m = num(at[m]) /\ HasParent(leaves, fanout, at[m])
               /\ n = num(MadeParent(fanout, at[m]))
    BY <1>1
  <2> HIDE DEF at
  <2>2. ASSUME NEW m \in kids
        PROVE  /\ at[m] = <<at[m][1], at[m][2]>> /\ at[m][1] \in Nat /\ at[m][2] \in Nat
               /\ at[m][2] < leaves /\ at[m][2] \div fanout \in Nat
               /\ place[m] \in 0..(fanout - 1) /\ place[m] <= at[m][2]
    <3>1. at[m] \in M
      BY <2>1
    <3>2. /\ at[m] = <<at[m][1], at[m][2]>> /\ at[m][2] \in Nat
          /\ at[m][1] \in 0..(Depth(leaves, fanout) - 1)
          /\ s[at[m][1]] \in Nat \ {0}
          /\ FirstLeaf(fanout, at[m]) = at[m][2] * s[at[m][1]]
          /\ FirstLeaf(fanout, at[m]) \in 0..(leaves - 1)
      BY <3>1, MadeIs
    <3>3. Depth(leaves, fanout) \in 1..leaves
      BY DepthIs
    <3>4. at[m][1] \in Nat
      BY <1>0, <3>2, <3>3
    <3> DEFINE i == at[m][2]
               sp == s[at[m][1]]
    <3>5. i \in Nat /\ sp \in Nat /\ 1 <= sp /\ i * sp < leaves
      BY <1>0, <3>2
    <3> HIDE DEF i, sp
    <3>6. 1 * i <= sp * i
      BY <3>5, TimesMore
    <3>7. i < leaves
      BY <1>0, <3>5, <3>6
    <3>8. i \div fanout \in Nat /\ i - fanout * (i \div fanout) \in 0..(fanout - 1)
      BY <2>0, <3>5, Quotient
    <3>9. fanout * (i \div fanout) \in Nat
      BY <2>0, <3>8
    <3>10. i - fanout * (i \div fanout) <= i
      BY <3>5, <3>9
    <3>11. place[m] = i - fanout * (i \div fanout)
      BY DEF i
    <3> QED BY <3>2, <3>4, <3>5, <3>7, <3>8, <3>10, <3>11 DEF i
  <2>3. \A m \in kids : place[m] \in 0..(w - 1)
    <3> HIDE DEF place
    <3> SUFFICES ASSUME NEW m \in kids PROVE place[m] \in 0..(w - 1)
      OBVIOUS
    <3>1. /\ place[m] \in 0..(fanout - 1) /\ place[m] <= at[m][2] /\ at[m][2] < leaves
          /\ at[m][2] \in Nat
      BY <2>2
    <3> QED BY <1>0, <2>0, <3>1
  <2>4. \A m, l \in kids : place[m] = place[l] => m = l
    <3> SUFFICES ASSUME NEW m \in kids, NEW l \in kids, place[m] = place[l] PROVE m = l
      OBVIOUS
    <3> DEFINE x == at[m]
               y == at[l]
    <3>1. /\ x \in M /\ m = num(x) /\ HasParent(leaves, fanout, x)
          /\ y \in M /\ l = num(y) /\ HasParent(leaves, fanout, y)
          /\ num(MadeParent(fanout, x)) = num(MadeParent(fanout, y))
      BY <2>1
    <3>2. MadeParent(fanout, x) = MadeParent(fanout, y)
      <4>1. MadeParent(fanout, x) \in M /\ MadeParent(fanout, y) \in M
        BY <3>1, ParentIs
      <4> QED BY <3>1, <4>1, Numbered
    <3>3. x[1] + 1 = y[1] + 1 /\ x[2] \div fanout = y[2] \div fanout
      BY <3>2 DEF MadeParent
    <3>4. /\ x = <<x[1], x[2]>> /\ x[1] \in Nat /\ x[2] \in Nat /\ x[2] \div fanout \in Nat
          /\ y = <<y[1], y[2]>> /\ y[1] \in Nat /\ y[2] \in Nat
      BY <2>2
    <3>5. x[2] - fanout * (x[2] \div fanout) = y[2] - fanout * (y[2] \div fanout)
      OBVIOUS
    <3>6. fanout * (x[2] \div fanout) \in Nat
      BY <2>0, <3>4
    <3> HIDE DEF x, y
    <3>7. x[1] = y[1] /\ x[2] = y[2]
      BY <3>3, <3>4, <3>5, <3>6
    <3> QED BY <3>1, <3>4, <3>7
  <2> HIDE DEF place, kids, w
  <2>5. place \in [kids -> 0..(w - 1)]
    BY <2>3 DEF place
  <2>6. place \in Injection(kids, 0..(w - 1))
    BY <2>4, <2>5 DEF Injection, IsInjective
  <2>7. IsFiniteSet(0..(w - 1)) /\ Cardinality(0..(w - 1)) = w
    <3> DEFINE d == w - 1
    <3>1. d \in Nat /\ w = d + 1 /\ 0 \in Int /\ d \in Int
      BY <2>0
    <3> HIDE DEF d
    <3>2. IsFiniteSet(0..d) /\ Cardinality(0..d) = IF 0 > d THEN 0 ELSE d - 0 + 1
      BY ONLY <3>1, FS_Interval
    <3>3. (IF 0 > d THEN 0 ELSE d - 0 + 1) = w
      BY <3>1
    <3> QED BY <3>2, <3>3 DEF d
  <2>8. Cardinality(kids) <= Cardinality(0..(w - 1))
    BY <2>6, <2>7, FS_Injection
  <2> QED BY <2>7, <2>8 DEF kids, w
<1> QED BY <1>2, <1>3

\* A node has that many.
LEMMA KidsMany ==
  ASSUME NEW leaves, NEW fanout, Buildable(leaves, fanout)
  PROVE  \E n \in 0..(Size(leaves, fanout) - 1) :
           MostChildren(leaves, fanout) <= Cardinality(KidsOf(leaves, fanout, n))
<1> DEFINE M == Made(leaves, fanout)
           num(x) == Number(leaves, fanout, x)
           w == MostChildren(leaves, fanout)
           D == Depth(leaves, fanout)
<1>0. leaves \in Nat \ {0} /\ fanout \in Nat /\ w \in Nat /\ Span(fanout)[0] = 1
      /\ D \in 1..leaves /\ Span(fanout)[D - 1] >= leaves
  BY DepthIs, SpanIs DEF Buildable, MostChildren
<1>1. CASE leaves = 1
  <2>1. w = 0
    BY <1>1 DEF MostChildren
  <2>2. PICK n \in 0..(Size(leaves, fanout) - 1) : TRUE
    <3> DEFINE r == <<D - 1, 0>>
    <3>1. r \in M
      BY RootIs
    <3>2. num(r) \in 0..(Size(leaves, fanout) - 1)
      BY <3>1, Numbered
    <3> QED BY <3>2
  <2>3. Cardinality(KidsOf(leaves, fanout, n)) \in Nat
    BY KidsAre
  <2> QED BY <2>1, <2>2, <2>3
<1>2. CASE leaves # 1
  <2>0. fanout \in Nat \ {0, 1} /\ w \in Nat \ {0} /\ w <= leaves /\ w <= fanout
    BY <1>0, <1>2 DEF Buildable, MostChildren
  <2>1. D >= 2
    <3>1. D # 1
      BY <1>0, <1>2
    <3> QED BY <1>0, <3>1
  <2> DEFINE p == <<1, 0>>
             kids == KidsOf(leaves, fanout, num(p))
             f == [i \in 0..(w - 1) |-> num(<<0, i>>)]
  <2>2. p \in M
    <3>1. Span(fanout)[1] \in Nat
      BY <1>0, SpanIs
    <3>2. 0 * Span(fanout)[1] < leaves
      BY <1>0, <3>1
    <3> QED BY <1>0, <2>1, <3>2, MadeIs
  <2>3. ASSUME NEW i \in 0..(w - 1)
        PROVE  /\ <<0, i>> \in M /\ HasParent(leaves, fanout, <<0, i>>)
               /\ MadeParent(fanout, <<0, i>>) = p
    <3>1. i \in Nat /\ i < leaves /\ i < fanout
      BY <1>0, <2>0
    <3>2. <<0, i>> \in M
      BY <1>0, <2>1, <3>1, MadeIs
    <3>3. i \div fanout = 0
      BY <2>0, <3>1
    <3> QED BY <1>0, <2>1, <3>2, <3>3 DEF HasParent, MadeParent
  <2>4. \A i \in 0..(w - 1) : f[i] \in kids
    <3> SUFFICES ASSUME NEW i \in 0..(w - 1) PROVE f[i] \in kids
      OBVIOUS
    <3>1. <<0, i>> \in M /\ HasParent(leaves, fanout, <<0, i>>)
      BY <2>3
    <3>2. num(<<0, i>>) \in KidsOf(leaves, fanout, num(MadeParent(fanout, <<0, i>>)))
      BY <3>1, KidsAre
    <3>3. MadeParent(fanout, <<0, i>>) = p
      BY <2>3
    <3>4. num(<<0, i>>) \in KidsOf(leaves, fanout, num(p))
      BY <3>2, <3>3
    <3> QED BY <3>4
  <2>5. \A i, j \in 0..(w - 1) : f[i] = f[j] => i = j
    <3> SUFFICES ASSUME NEW i \in 0..(w - 1), NEW j \in 0..(w - 1), f[i] = f[j] PROVE i = j
      OBVIOUS
    <3>1. <<0, i>> = <<0, j>>
      BY <2>3, Numbered
    <3> QED BY <3>1
  <2>6. IsFiniteSet(kids) /\ Cardinality(kids) \in Nat
    BY KidsAre
  <2>7. num(p) \in 0..(Size(leaves, fanout) - 1)
    BY <2>2, Numbered
  <2> HIDE DEF kids, w, p
  <2>8. f \in [0..(w - 1) -> kids]
    BY <2>4
  <2> HIDE DEF f
  <2>9. f \in Injection(0..(w - 1), kids)
    BY <2>5, <2>8 DEF Injection, IsInjective
  <2>10. Cardinality(0..(w - 1)) = w
    <3> DEFINE d == w - 1
    <3>1. d \in Nat /\ w = d + 1 /\ 0 \in Int /\ d \in Int
      BY <2>0
    <3> HIDE DEF d
    <3>2. IsFiniteSet(0..d) /\ Cardinality(0..d) = IF 0 > d THEN 0 ELSE d - 0 + 1
      BY ONLY <3>1, FS_Interval
    <3>3. (IF 0 > d THEN 0 ELSE d - 0 + 1) = w
      BY <3>1
    <3> QED BY <3>2, <3>3 DEF d
  <2>11. Cardinality(0..(w - 1)) <= Cardinality(kids)
    BY <2>6, <2>9, FS_Injection
  <2> QED BY <2>7, <2>10, <2>11 DEF kids, w
<1> QED BY <1>1, <1>2

\* So that is what GetMerkleTree returns.
LEMMA WidestIs ==
  ASSUME NEW leaves, NEW fanout, Buildable(leaves, fanout)
  PROVE  MaxChildren(Tree(leaves, fanout)) = MostChildren(leaves, fanout)
<1> DEFINE t == Tree(leaves, fanout)
           widths == {Len(t.children[n]) : n \in Nodes(t)}
           w == MostChildren(leaves, fanout)
<1>1. /\ t.size = Size(leaves, fanout)
      /\ \A n \in Nodes(t) : Len(t.children[n]) = Cardinality(KidsOf(leaves, fanout, n))
  BY ChildrenAre
<1>2. w \in Nat
  BY DEF MostChildren, Buildable
<1>3. \A n \in Nodes(t) : Len(t.children[n]) \in Nat /\ Len(t.children[n]) <= w
  BY <1>1, KidsAre, KidsFew
<1>4. PICK n \in Nodes(t) : w <= Len(t.children[n])
  BY <1>1, KidsMany DEF Nodes
<1> HIDE DEF t, w
<1>5. widths \in SUBSET Nat /\ widths # {} /\ \A x \in widths : x <= w
  BY <1>3, <1>4
<1>6. Len(t.children[n]) = w
  BY <1>2, <1>3, <1>4
<1>7. w \in widths
  BY <1>6
<1> HIDE DEF widths
<1>8. Max(widths) \in widths /\ \A x \in widths : x <= Max(widths)
  BY <1>2, <1>5, GreatestNumber
<1>9. Max(widths) = w
  <2> DEFINE x == Max(widths)
  <2>1. x \in Nat /\ x <= w /\ w <= x
    BY <1>5, <1>7, <1>8
  <2> HIDE DEF x
  <2>2. x = w
    BY <1>2, <2>1
  <2> QED BY <2>2 DEF x
<1>10. MaxChildren(t) = Max(widths)
  BY DEF MaxChildren, widths
<1> QED BY <1>9, <1>10 DEF t, w

\* What is built depends on the fan-out only through what it is asked for here.
LEMMA SameTree ==
  ASSUME NEW leaves, NEW a, Buildable(leaves, a), NEW b, Buildable(leaves, b),
         Depth(leaves, a) = Depth(leaves, b), Made(leaves, a) = Made(leaves, b),
         \A x \in Made(leaves, a) : FirstLeaf(a, x) = FirstLeaf(b, x),
         \A x \in Made(leaves, a) :
           HasParent(leaves, a, x) => MadeParent(a, x) = MadeParent(b, x)
  PROVE  Size(leaves, a) = Size(leaves, b) /\ Tree(leaves, a) = Tree(leaves, b)
<1> DEFINE M == Made(leaves, a)
<1>1. Size(leaves, a) = Size(leaves, b)
  BY DEF Size
<1>2. ASSUME NEW x \in M PROVE Number(leaves, a, x) = Number(leaves, b, x)
  <2>1. {y \in M : ComesBefore(a, y, x)} = {y \in M : ComesBefore(b, y, x)}
    BY DEF ComesBefore
  <2> QED BY <2>1 DEF Number
<1>3. \A x : HasParent(leaves, a, x) <=> HasParent(leaves, b, x)
  BY DEF HasParent
<1>4. \A x \in M : HasParent(leaves, a, x) => MadeParent(a, x) \in M
  BY ParentIs
<1>5. ASSUME NEW n PROVE KidsOf(leaves, a, n) = KidsOf(leaves, b, n)
  <2> DEFINE at(m, k) == \E x \in M : /\ HasParent(leaves, k, x)
                                      /\ n = Number(leaves, k, MadeParent(k, x))
                                      /\ m = Number(leaves, k, x)
             numbers == 0..(Size(leaves, a) - 1)
  <2>1. \A m : at(m, a) <=> at(m, b)
    BY <1>2, <1>3, <1>4
  <2>2. KidsOf(leaves, a, n) = {m \in numbers : at(m, a)}
    BY DEF KidsOf
  <2>3. KidsOf(leaves, b, n) = {m \in numbers : at(m, b)}
    BY <1>1 DEF KidsOf
  <2> HIDE DEF at, numbers
  <2> QED BY <2>1, <2>2, <2>3
<1>6. Tree(leaves, a).size = Tree(leaves, b).size
  <2>1. Tree(leaves, a).size = Size(leaves, a)
    BY TreeIs
  <2>2. Tree(leaves, b).size = Size(leaves, b)
    BY TreeIs
  <2> QED BY <1>1, <2>1, <2>2
<1>7. Tree(leaves, a).children = Tree(leaves, b).children
  <2>1. Tree(leaves, a).children
        = [n \in 0..(Size(leaves, a) - 1) |-> Ascending(KidsOf(leaves, a, n))]
    BY TreeIs
  <2>2. Tree(leaves, b).children
        = [n \in 0..(Size(leaves, a) - 1) |-> Ascending(KidsOf(leaves, b, n))]
    BY <1>1, TreeIs
  <2>3. \A n : Ascending(KidsOf(leaves, a, n)) = Ascending(KidsOf(leaves, b, n))
    BY <1>5
  <2> QED BY <2>1, <2>2, <2>3
<1>8. /\ Tree(leaves, a) = [size |-> Tree(leaves, a).size,
                            children |-> Tree(leaves, a).children]
      /\ Tree(leaves, b) = [size |-> Tree(leaves, b).size,
                            children |-> Tree(leaves, b).children]
  BY TreeIs
<1> QED BY <1>1, <1>6, <1>7, <1>8

\* All leaves fit under one root.
LEMMA FlatTree ==
  ASSUME NEW leaves \in Nat \ {0, 1}, NEW fanout \in Nat, leaves <= fanout
  PROVE  /\ Depth(leaves, fanout) = 2
         /\ Made(leaves, fanout)
            = {<<0, i>> : i \in 0..(leaves - 1)} \cup {<<1, 0>>}
         /\ \A i \in 0..(leaves - 1) : /\ FirstLeaf(fanout, <<0, i>>) = i
                                       /\ MadeParent(fanout, <<0, i>>) = <<1, 0>>
         /\ FirstLeaf(fanout, <<1, 0>>) = 0
<1> DEFINE M == Made(leaves, fanout)
<1>1. Buildable(leaves, fanout)
  BY DEF Buildable
<1>2. Span(fanout)[0] = 1 /\ Span(fanout)[1] = fanout
  <2>1. Span(fanout)[0 + 1] = fanout * Span(fanout)[0] /\ Span(fanout)[0] = 1
    BY SpanIs
  <2>2. Span(fanout)[1] = fanout * 1
    BY <2>1
  <2> QED BY <2>1, <2>2
<1>3. Depth(leaves, fanout) = 2
  <2> DEFINE d == Depth(leaves, fanout)
             s == Span(fanout)
  <2>1. d \in 1..leaves /\ s[d - 1] >= leaves /\ \A e \in 1..(d - 1) : s[e - 1] < leaves
    BY <1>1, DepthIs
  <2> HIDE DEF d, s
  <2>2. s[0] = 1 /\ s[1] = fanout
    BY <1>2 DEF s
  <2>3. d # 1
    BY <2>1, <2>2
  <2>4. ~(d > 2)
    <3> SUFFICES ASSUME d > 2 PROVE FALSE
      OBVIOUS
    <3>1. 2 \in 1..(d - 1)
      BY <2>1
    <3>2. s[2 - 1] < leaves
      BY <2>1, <3>1
    <3> QED BY <2>2, <3>2
  <2>5. d \in Nat /\ d >= 1
    BY <2>1
  <2>6. d = 2
    BY <2>3, <2>4, <2>5
  <2> QED BY <2>6 DEF d
<1>4. \A i \in 0..(leaves - 1) : <<0, i>> \in M
  BY <1>1, <1>2, <1>3, MadeIs
<1>5. <<1, 0>> \in M
  BY <1>1, <1>2, <1>3, MadeIs
<1>6. ASSUME NEW x \in M PROVE x \in {<<0, i>> : i \in 0..(leaves - 1)} \cup {<<1, 0>>}
  <2>1. /\ x = <<x[1], x[2]>> /\ x[1] \in 0..1 /\ x[2] \in Nat
        /\ FirstLeaf(fanout, x) = x[2] * Span(fanout)[x[1]]
        /\ FirstLeaf(fanout, x) \in 0..(leaves - 1)
    <3>1. /\ x = <<x[1], x[2]>> /\ x[1] \in 0..(Depth(leaves, fanout) - 1) /\ x[2] \in Nat
          /\ FirstLeaf(fanout, x) = x[2] * Span(fanout)[x[1]]
          /\ FirstLeaf(fanout, x) \in 0..(leaves - 1)
      BY <1>1, MadeIs
    <3>2. 0..(Depth(leaves, fanout) - 1) = 0..1
      BY <1>3
    <3> QED BY <3>1, <3>2
  <2>2. CASE x[1] = 0
    <3>1. x[2] \in 0..(leaves - 1)
      BY <1>2, <2>1, <2>2
    <3> QED BY <2>1, <2>2, <3>1
  <2>3. CASE x[1] = 1
    <3> DEFINE i == x[2]
    <3>1. i \in Nat /\ i * fanout < leaves
      BY <1>2, <2>1, <2>3
    <3> HIDE DEF i
    <3>2. ~(1 <= i)
      <4> SUFFICES ASSUME 1 <= i PROVE FALSE
        OBVIOUS
      <4>1. 1 * fanout <= i * fanout
        BY <3>1, TimesMore
      <4>2. i * fanout \in Nat
        BY <3>1
      <4> QED BY <3>1, <4>1, <4>2
    <3>3. i = 0
      BY <3>1, <3>2
    <3> QED BY <2>1, <2>3, <3>3 DEF i
  <2> QED BY <2>1, <2>2, <2>3
<1>7. M = {<<0, i>> : i \in 0..(leaves - 1)} \cup {<<1, 0>>}
  <2> DEFINE X == {<<0, i>> : i \in 0..(leaves - 1)}
  <2>1. X \subseteq M
    BY <1>4
  <2> HIDE DEF X, M
  <2>2. \A x \in M : x \in X \cup {<<1, 0>>}
    BY <1>6 DEF X
  <2>3. M = X \cup {<<1, 0>>}
    BY <1>5, <2>1, <2>2
  <2> QED BY <2>3 DEF X
<1>8. ASSUME NEW i \in 0..(leaves - 1)
      PROVE  /\ FirstLeaf(fanout, <<0, i>>) = i
             /\ MadeParent(fanout, <<0, i>>) = <<1, 0>>
  <2>1. i * 1 = i /\ i \div fanout = 0
    OBVIOUS
  <2> QED BY <1>2, <2>1 DEF FirstLeaf, MadeParent
<1>9. FirstLeaf(fanout, <<1, 0>>) = 0
  BY <1>2 DEF FirstLeaf
<1> QED BY <1>3, <1>7, <1>8, <1>9

LEMMA SingleTree ==
  ASSUME NEW fanout \in Nat
  PROVE  /\ Depth(1, fanout) = 1 /\ Made(1, fanout) = {<<0, 0>>}
         /\ FirstLeaf(fanout, <<0, 0>>) = 0
<1>1. Buildable(1, fanout)
  BY DEF Buildable
<1>2. Depth(1, fanout) = 1
  BY <1>1, DepthIs
<1>3. Span(fanout)[0] = 1
  BY SpanIs
<1>4. <<0, 0>> \in Made(1, fanout)
  BY <1>1, <1>2, <1>3, MadeIs
<1>5. ASSUME NEW x \in Made(1, fanout) PROVE x = <<0, 0>>
  <2>1. /\ x = <<x[1], x[2]>> /\ x[1] \in 0..0 /\ x[2] \in Nat
        /\ FirstLeaf(fanout, x) = x[2] * Span(fanout)[x[1]]
        /\ FirstLeaf(fanout, x) \in 0..0
    BY <1>1, <1>2, MadeIs
  <2>2. x[1] = 0 /\ x[2] = 0
    BY <1>3, <2>1
  <2> QED BY <2>1, <2>2
<1>6. Made(1, fanout) = {<<0, 0>>}
  BY <1>4, <1>5
<1>7. FirstLeaf(fanout, <<0, 0>>) = 0
  BY <1>3 DEF FirstLeaf
<1> QED BY <1>2, <1>6, <1>7

\* How many leaves a tree has and how many children its widest node has, which the metadata
\* of a file record (Leaves, MaxChildren), are enough for ConstructTree to build the tree
\* again, as deep and as large as it was.
THEOREM BuiltAgain ==
  ASSUME NEW leaves, NEW fanout, Buildable(leaves, fanout)
  PROVE  LET t == Tree(leaves, fanout)
             l == Cardinality(Leaves(t))
             k == MaxChildren(t)
         IN  Depth(l, k) = Depth(leaves, fanout) /\ Size(l, k) = t.size /\ Tree(l, k) = t
<1> DEFINE k == MostChildren(leaves, fanout)
<1>1. /\ Cardinality(Leaves(Tree(leaves, fanout))) = leaves
      /\ MaxChildren(Tree(leaves, fanout)) = k
      /\ Tree(leaves, fanout).size = Size(leaves, fanout)
  BY LeafCount, WidestIs, ChildrenAre
<1>2. /\ Depth(leaves, k) = Depth(leaves, fanout) /\ Size(leaves, k) = Size(leaves, fanout)
      /\ Tree(leaves, k) = Tree(leaves, fanout)
  <2>0. leaves \in Nat \ {0} /\ fanout \in Nat
    BY DEF Buildable
  <2>1. CASE leaves = 1
    <3>1. k = 0 /\ Buildable(1, 0) /\ Buildable(1, fanout)
      BY <2>1 DEF MostChildren, Buildable
    <3>2. /\ Depth(1, 0) = 1 /\ Made(1, 0) = {<<0, 0>>} /\ FirstLeaf(0, <<0, 0>>) = 0
          /\ Depth(1, fanout) = 1 /\ Made(1, fanout) = {<<0, 0>>}
          /\ FirstLeaf(fanout, <<0, 0>>) = 0
      BY <2>0, SingleTree
    <3>3. \A x \in Made(1, 0) : ~HasParent(1, 0, x)
      BY <3>2 DEF HasParent
    <3>4. Size(1, 0) = Size(1, fanout) /\ Tree(1, 0) = Tree(1, fanout)
      BY <3>1, <3>2, <3>3, SameTree
    <3> QED BY <2>1, <3>1, <3>2, <3>4
  <2>2. CASE leaves # 1 /\ leaves <= fanout
    <3>1. k = leaves /\ Buildable(leaves, leaves) /\ leaves \in Nat \ {0, 1}
      BY <2>0, <2>2 DEF MostChildren, Buildable
    <3>2. /\ Depth(leaves, leaves) = Depth(leaves, fanout)
          /\ Made(leaves, leaves) = Made(leaves, fanout)
      BY <2>0, <2>2, <3>1, FlatTree
    <3>3. ASSUME NEW x \in Made(leaves, leaves)
          PROVE  /\ FirstLeaf(leaves, x) = FirstLeaf(fanout, x)
                 /\ HasParent(leaves, leaves, x) => MadeParent(leaves, x) = MadeParent(fanout, x)
      <4>1. CASE x = <<1, 0>>
        <5>1. Depth(leaves, leaves) = 2 /\ FirstLeaf(leaves, <<1, 0>>) = 0
              /\ FirstLeaf(fanout, <<1, 0>>) = 0
          BY <2>0, <2>2, <3>1, FlatTree
        <5> QED BY <4>1, <5>1 DEF HasParent
      <4>2. CASE x # <<1, 0>>
        <5>1. Made(leaves, leaves) = {<<0, i>> : i \in 0..(leaves - 1)} \cup {<<1, 0>>}
          BY <3>1, FlatTree
        <5>2. PICK i \in 0..(leaves - 1) : x = <<0, i>>
          BY <4>2, <5>1
        <5>3. /\ FirstLeaf(fanout, <<0, i>>) = i /\ MadeParent(fanout, <<0, i>>) = <<1, 0>>
              /\ FirstLeaf(leaves, <<0, i>>) = i /\ MadeParent(leaves, <<0, i>>) = <<1, 0>>
          BY <2>0, <2>2, <3>1, FlatTree
        <5> QED BY <5>2, <5>3
      <4> QED BY <4>1, <4>2
    <3>4. Size(leaves, leaves) = Size(leaves, fanout) /\ Tree(leaves, leaves) = Tree(leaves, fanout)
      BY <3>1, <3>2, <3>3, SameTree
    <3> QED BY <3>1, <3>2, <3>4
  <2>3. CASE leaves # 1 /\ ~(leaves <= fanout)
    BY <2>3 DEF MostChildren
  <2> QED BY <2>1, <2>2, <2>3
<1> HIDE DEF k
<1> QED BY <1>1, <1>2

\* The tree of a strand is built again from how many blocks the file has, and from how many
\* children its widest node had: the 0 of a strand that was not pinned builds a tree of one
\* root, and no tree has 0 of them, as a strand's tree has at least two leaves.
THEOREM StrandBuiltAgain ==
  ASSUME NEW blocks \in Nat \ {0}, NEW fanout \in Nat \ {1}
  PROVE  LET st == ParityTree(blocks, fanout) IN ParityTree(blocks, MaxChildren(st)) = st
<1> DEFINE l == ParityLeaves(blocks)
           st == ParityTree(blocks, fanout)
<1>0. 1 \in 1..blocks
  OBVIOUS
<1>1. l \in Nat \ {0, 1}
  BY <1>0, PiecesFit
<1>2. PICK k : Buildable(l, k) /\ st = Tree(l, k)
  BY ParityTreeIs
<1> HIDE DEF l, st
<1>3. Cardinality(Leaves(st)) = l /\ MaxChildren(st) = MostChildren(l, k)
  BY <1>2, LeafCount, WidestIs
<1>4. Tree(l, MaxChildren(st)) = st
  BY <1>2, <1>3, BuiltAgain
<1>5. MostChildren(l, k) # 0
  BY <1>1, <1>2 DEF MostChildren, Buildable
<1>6. ParityTree(blocks, MaxChildren(st)) = Tree(l, MaxChildren(st))
  BY <1>3, <1>5 DEF ParityTree, l
<1> QED BY <1>4, <1>6 DEF st

-----------------------------------------------------------------------------
(* The order of the blocks *)

\* Children of the root come in postorder as they do in preorder.
LEMMA FlatOrder ==
  ASSUME NEW t, \A n \in Inner(t) \ {0} : Above(t, n) = {0}
  PROVE  PostOrder(t) = PreOrder(t)
<1> DEFINE T == Inner(t) \ {0}
           before == [x \in T |-> Cardinality({y \in T : y < x})]
           after == [x \in T |-> Cardinality({y \in T : AfterBelow(t, y, x)})]
<1>1. IsArranged(PreOrder(t), T, before)
  BY DEF PreOrder, Ascending, InOrder, IsArranged
<1>2. IsArranged(PostOrder(t), T, after)
  BY DEF PostOrder, InOrder, IsArranged
<1>3. \A x, y \in T : AfterBelow(t, y, x) <=> y < x
  BY DEF AfterBelow
<1>4. before = after
  <2> HIDE DEF T
  <2>1. \A x \in T : {y \in T : y < x} = {y \in T : AfterBelow(t, y, x)}
    BY <1>3
  <2> QED BY <2>1
<1> HIDE DEF before, after, T
<1> QED BY <1>1, <1>2, <1>4 DEF IsArranged

\* What the two orders are, by the steps they take.
LEMMA OrdersAre ==
  ASSUME NEW t, t.size \in Nat \ {0}, PostOrder(t) = PreOrder(t)
  PROVE  \E g, h : /\ IsFlattening(g, t, PreOrder(t))
                   /\ FlattenedTree(t) = g[Len(PreOrder(t))]
                   /\ IsIndexing(h, t, PreOrder(t))
                   /\ LatticeIdx(t) = h[Len(PreOrder(t))]
<1> DEFINE order == PreOrder(t)
           g == CHOOSE f : IsFlattening(f, t, PostOrder(t))
           h == CHOOSE f : IsIndexing(f, t, order)
<1>1. order \in Seq(Nodes(t) \ {0})
  BY PreOrderIs
<1>2. (\E f : IsFlattening(f, t, order)) /\ (\E f : IsIndexing(f, t, order))
  <2> HIDE DEF order
  <2> QED BY <1>1, IndexingExists
<1>3. FlattenedTree(t) = g[Len(PostOrder(t))]
  BY DEF FlattenedTree, IsFlattening
<1>4. LatticeIdx(t) = h[Len(order)]
  BY DEF LatticeIdx, IsIndexing
<1>5. IsFlattening(g, t, order) /\ IsIndexing(h, t, order)
  BY <1>2
<1> HIDE DEF g, h
<1> QED BY <1>3, <1>4, <1>5

\* Where no inner node is moved.
LEMMA OrderOfNone ==
  ASSUME NEW t, t.size \in Nat \ {0}, Inner(t) \subseteq {0}
  PROVE  SameOrder(t)
<1>1. Inner(t) \ {0} = {}
  OBVIOUS
<1>2. Cardinality(Inner(t) \ {0}) = 0
  BY <1>1, FS_EmptySet
<1>3. Len(PreOrder(t)) = 0
  BY <1>2, PreOrderIs
<1>4. PostOrder(t) = PreOrder(t)
  BY FlatOrder
<1>5. PICK g, h : /\ IsFlattening(g, t, PreOrder(t)) /\ FlattenedTree(t) = g[Len(PreOrder(t))]
                  /\ IsIndexing(h, t, PreOrder(t)) /\ LatticeIdx(t) = h[Len(PreOrder(t))]
  BY <1>4, OrdersAre
<1>6. g[0] = Identity(t) /\ h[0] = Identity(t)
  BY <1>3, <1>5 DEF IsFlattening, IsIndexing
<1>7. FlattenedTree(t) = Identity(t) /\ LatticeIdx(t) = Identity(t)
  BY <1>3, <1>5, <1>6
<1> QED BY <1>7, IdentityShuffles DEF SameOrder

\* A permutation that is undone by itself still is when nodes it leaves alone are swapped.
Undone(f, N) == f \in [N -> N] /\ \A n \in N : f[f[n]] = n

LEMMA SwapUndone ==
  ASSUME NEW N, NEW f, Undone(f, N), NEW i \in N, NEW j \in N, f[i] = i, f[j] = j
  PROVE  Undone(Swap(f, i, j), N)
<1> DEFINE g == Swap(f, i, j)
<1>0. f \in [N -> N] /\ \A n \in N : f[f[n]] = n
  BY DEF Undone
<1>1. /\ g \in [N -> N] /\ g[i] = j /\ g[j] = i
      /\ \A n \in N \ {i, j} : g[n] = f[n]
  BY <1>0, SwapIs
<1> HIDE DEF g
<1>2. \A n \in N \ {i, j} : f[n] \in N \ {i, j}
  BY <1>0
<1>3. \A n \in N : g[g[n]] = n
  BY <1>0, <1>1, <1>2
<1>4. Undone(g, N)
  BY <1>1, <1>3 DEF Undone
<1> QED BY <1>4 DEF g

\* Whether an inner node may go where node m is.
Goes(t, n, m) ==
  /\ m \in Leaves(t)
  /\ \/ m <= t.children[n][1] - S * P
     \/ m >= t.children[n][Len(t.children[n])] + S * P

LEMMA TargetsGo ==
  ASSUME NEW t, t.size \in Nat \ {0}, NEW n, NEW f, NEW g,
         \A j \in Nodes(t) : Goes(t, n, f[j]) <=> Goes(t, n, g[j])
  PROVE  /\ Targets(t, n, f) = Targets(t, n, g)
         /\ \A j \in Targets(t, n, f) : j \in Nodes(t) /\ Goes(t, n, f[j])
<1>1. \A k : \A j \in Targets(t, n, k) : j \in Nodes(t)
  BY TargetsAre
<1>2. \A k : Targets(t, n, k)
             = {j \in (S * P)..(t.size - 1) : (j - S * P) % S = 0 /\ Goes(t, n, k[j])}
  BY DEF Targets, Goes
<1>3. \A k : \A j \in Targets(t, n, k) : Goes(t, n, k[j])
  BY <1>2
<1>4. \A j : j \in Targets(t, n, f) <=> j \in Targets(t, n, g)
  BY <1>1, <1>2
<1>5. Targets(t, n, f) = Targets(t, n, g)
  BY <1>4
<1> QED BY <1>1, <1>3, <1>5

\* A tree with two inner nodes below the root, which have all leaves between them.
Between(t, n, m) ==
  LET kids == t.children[n]
  IN  kids[1] \in Nat /\ kids[Len(kids)] \in Nat /\ kids[1] <= m /\ m <= kids[Len(kids)]

TwoInner(t, a, b) ==
  /\ a \in Nat \ {0} /\ b \in Nat /\ a < b
  /\ Inner(t) = {0, a, b}
  /\ \A n \in Leaves(t) : /\ a < n
                          /\ n < b => Between(t, a, n)
                          /\ b < n => Between(t, b, n)

LEMMA OrderOfTwo ==
  ASSUME NEW t, t.size \in Nat \ {0}, NEW a, NEW b, TwoInner(t, a, b),
         PostOrder(t) = PreOrder(t)
  PROVE  SameOrder(t)
<1> DEFINE N == Nodes(t)
           order == PreOrder(t)
           id == Identity(t)
<1>0. /\ a \in Nat \ {0} /\ b \in Nat /\ a < b /\ Inner(t) = {0, a, b}
      /\ a \in N /\ b \in N /\ a - 1 \in N /\ b - 1 \in N
      /\ N \in SUBSET Nat /\ Leaves(t) = N \ {0, a, b}
      /\ S * P \in Nat \ {0}
  <2>1. a \in Nat \ {0} /\ b \in Nat /\ a < b /\ Inner(t) = {0, a, b}
    BY DEF TwoInner
  <2>2. a \in N /\ b \in N
    BY <2>1 DEF Inner
  <2>3. a - 1 \in N /\ b - 1 \in N /\ N \in SUBSET Nat
    BY <2>1, <2>2 DEF Nodes
  <2>4. Leaves(t) = N \ {0, a, b}
    BY <2>1 DEF Leaves
  <2>5. S * P \in Nat \ {0}
    <3>1. S \in Nat /\ P \in Nat /\ 1 <= S /\ 1 <= P
      BY PositionsAssumption
    <3>2. 1 * P <= S * P
      BY <3>1, TimesMore
    <3>3. S * P \in Nat
      BY <3>1
    <3> QED BY <3>1, <3>2, <3>3
  <2> QED BY <2>1, <2>2, <2>3, <2>4, <2>5
<1>1. Len(order) = 2 /\ order[1] = a /\ order[2] = b
  <2> DEFINE T == Inner(t) \ {0}
  <2>1. T = {a, b}
    BY <1>0
  <2>2. Cardinality(T) = 2
    <3>1. IsFiniteSet({a}) /\ Cardinality({a}) = 1
      BY FS_Singleton
    <3>2. Cardinality({a} \cup {b}) = IF b \in {a} THEN 1 ELSE 1 + 1
      BY <3>1, FS_AddElement
    <3>3. {a} \cup {b} = {a, b} /\ b \notin {a}
      BY <1>0
    <3> QED BY <2>1, <3>2, <3>3
  <2>3. /\ order \in [1..Cardinality(T) -> T] /\ Len(order) = Cardinality(T)
        /\ \A i, j \in 1..Cardinality(T) : i < j <=> order[i] < order[j]
    BY PreOrderIs
  <2> HIDE DEF order, T
  <2>4. order[1] \in {a, b} /\ order[2] \in {a, b} /\ order[1] < order[2]
    BY <2>1, <2>2, <2>3
  <2> QED BY <1>0, <2>2, <2>3, <2>4
<1>2. PICK g, h : /\ IsFlattening(g, t, order) /\ FlattenedTree(t) = g[2]
                  /\ IsIndexing(h, t, order) /\ LatticeIdx(t) = h[2]
  <2>1. PICK g, h : /\ IsFlattening(g, t, order) /\ FlattenedTree(t) = g[Len(order)]
                    /\ IsIndexing(h, t, order) /\ LatticeIdx(t) = h[Len(order)]
    BY OrdersAre
  <2> QED BY <1>1, <2>1
<1>3. /\ g[0] = id /\ g[1] = Moved(t, a, g[0], a - 1, g[0])
      /\ g[2] = Moved(t, b, g[1], b - 1, g[1])
      /\ h[0] = id /\ h[1] = Moved(t, a, id, a - 1, h[0])
      /\ h[2] = Moved(t, b, id, b - 1, h[1])
  <2>1. \A r \in 0..2 : g[r] = IF r = 0 THEN id
                               ELSE Moved(t, order[r], g[r - 1], order[r] - 1, g[r - 1])
    BY <1>1, <1>2 DEF IsFlattening
  <2>2. \A r \in 0..2 : h[r] = IF r = 0 THEN id
                               ELSE Moved(t, order[r], id, order[r] - 1, h[r - 1])
    BY <1>1, <1>2 DEF IsIndexing
  <2> HIDE DEF order, id
  <2>3. g[0] = id /\ h[0] = id
    BY <2>1, <2>2
  <2>4. /\ g[1] = Moved(t, order[1], g[1 - 1], order[1] - 1, g[1 - 1])
        /\ h[1] = Moved(t, order[1], id, order[1] - 1, h[1 - 1])
    BY <2>1, <2>2
  <2>5. /\ g[2] = Moved(t, order[2], g[2 - 1], order[2] - 1, g[2 - 1])
        /\ h[2] = Moved(t, order[2], id, order[2] - 1, h[2 - 1])
    BY <2>1, <2>2
  <2>6. 1 - 1 = 0 /\ 2 - 1 = 1
    OBVIOUS
  <2> QED BY <1>1, <2>3, <2>4, <2>5, <2>6
<1>4. g[1] = h[1]
  BY <1>3
<1>5. id \in [N -> N] /\ (\A n \in N : id[n] = n) /\ Undone(id, N)
  <2>1. id \in [N -> N] /\ \A n \in N : id[n] = n
    BY DEF Identity
  <2> HIDE DEF id
  <2> QED BY <2>1 DEF Undone
<1>6. \A n \in N : Goes(t, a, n) => n \in Leaves(t) /\ b < n
  <2> SUFFICES ASSUME NEW n \in N, Goes(t, a, n) PROVE n \in Leaves(t) /\ b < n
    OBVIOUS
  <2>1. n \in Leaves(t) /\ n \in Nat /\ n # b
    BY <1>0 DEF Goes
  <2>2. ~(n < b)
    <3> SUFFICES ASSUME n < b PROVE FALSE
      OBVIOUS
    <3>1. Between(t, a, n)
      BY <2>1 DEF TwoInner
    <3> DEFINE lo == t.children[a][1]
               hi == t.children[a][Len(t.children[a])]
               w == S * P
    <3>2. lo \in Nat /\ hi \in Nat /\ lo <= n /\ n <= hi
      BY <3>1 DEF Between
    <3>3. n <= lo - w \/ n >= hi + w
      BY DEF Goes
    <3>4. w \in Nat \ {0}
      BY <1>0
    <3> HIDE DEF lo, hi, w
    <3> QED BY <2>1, <3>2, <3>3, <3>4
  <2> QED BY <1>0, <2>1, <2>2
<1>7. \A n \in N : Goes(t, b, n) => n \in Leaves(t) /\ n < b
  <2> SUFFICES ASSUME NEW n \in N, Goes(t, b, n) PROVE n \in Leaves(t) /\ n < b
    OBVIOUS
  <2>1. n \in Leaves(t) /\ n \in Nat /\ n # b
    BY <1>0 DEF Goes
  <2>2. ~(b < n)
    <3> SUFFICES ASSUME b < n PROVE FALSE
      OBVIOUS
    <3>1. Between(t, b, n)
      BY <2>1 DEF TwoInner
    <3> DEFINE lo == t.children[b][1]
               hi == t.children[b][Len(t.children[b])]
               w == S * P
    <3>2. lo \in Nat /\ hi \in Nat /\ lo <= n /\ n <= hi
      BY <3>1 DEF Between
    <3>3. n <= lo - w \/ n >= hi + w
      BY DEF Goes
    <3>4. w \in Nat \ {0}
      BY <1>0
    <3> HIDE DEF lo, hi, w
    <3> QED BY <2>1, <3>2, <3>3, <3>4
  <2> QED BY <1>0, <2>1, <2>2
<1>8. a - 1 \notin Leaves(t)
  <2>1. \A n \in Leaves(t) : a < n
    BY DEF TwoInner
  <2>2. ~(a < a - 1)
    BY <1>0
  <2> QED BY <2>1, <2>2
<1> DEFINE A == Targets(t, a, id)
           B == Targets(t, b, id)
<1>9. /\ A # {} => Min(A) \in N /\ Goes(t, a, Min(A))
      /\ B # {} => Min(B) \in N /\ Goes(t, b, Min(B))
  <2>1. /\ A # {} => Min(A) \in A
        /\ B # {} => Min(B) \in B
    BY TargetsAre
  <2>2. /\ \A j \in A : j \in N /\ Goes(t, a, id[j])
        /\ \A j \in B : j \in N /\ Goes(t, b, id[j])
    BY TargetsGo
  <2> HIDE DEF A, B, id, N
  <2> QED BY <1>5, <2>1, <2>2
<1>10. /\ g[1] = IF A = {} THEN id ELSE Swap(id, Min(A), a - 1)
       /\ h[2] = IF B = {} THEN g[1] ELSE Swap(g[1], Min(B), b - 1)
  BY <1>3, <1>4 DEF Moved
<1>11. /\ Undone(g[1], N)
       /\ \A n \in N : \/ g[1][n] = n
                       \/ n \in Leaves(t) /\ b < n /\ g[1][n] = a - 1
                       \/ n = a - 1 /\ g[1][n] \in Leaves(t) /\ b < g[1][n]
  <2> HIDE DEF A, B, id
  <2>1. CASE A = {}
    BY <1>5, <1>10, <2>1
  <2>2. CASE A # {}
    <3>1. Min(A) \in N /\ Min(A) \in Leaves(t) /\ b < Min(A)
      BY <1>6, <1>9, <2>2
    <3>2. g[1] = Swap(id, Min(A), a - 1)
      BY <1>10, <2>2
    <3> DEFINE m == Min(A)
    <3> HIDE DEF m, N
    <3>3. Undone(g[1], N)
      <4>1. m \in N /\ a - 1 \in N /\ id[m] = m /\ id[a - 1] = a - 1 /\ Undone(id, N)
        BY <1>0, <1>5, <3>1 DEF m
      <4>2. Undone(Swap(id, m, a - 1), N)
        BY ONLY <4>1, SwapUndone
      <4> QED BY <3>2, <4>2 DEF m
    <3>4. /\ g[1][m] = a - 1 /\ g[1][a - 1] = m
          /\ \A n \in N \ {m, a - 1} : g[1][n] = n
      <4>1. /\ Swap(id, m, a - 1)[m] = id[a - 1] /\ Swap(id, m, a - 1)[a - 1] = id[m]
            /\ \A n \in N \ {m, a - 1} : Swap(id, m, a - 1)[n] = id[n]
        <5>1. m \in N /\ a - 1 \in N /\ id \in [N -> N]
          BY <1>0, <1>5, <3>1 DEF m
        <5> QED BY ONLY <5>1, SwapIs
      <4>2. g[1] = Swap(id, m, a - 1) /\ m \in N
        BY <3>1, <3>2 DEF m
      <4> QED BY <1>0, <1>5, <4>1, <4>2
    <3>5. m \in Leaves(t) /\ b < m
      BY <3>1 DEF m
    <3> QED BY <3>3, <3>4, <3>5
  <2> QED BY <2>1, <2>2
<1>12. Targets(t, b, g[1]) = B
  <2>1. \A j \in N : Goes(t, b, g[1][j]) <=> Goes(t, b, id[j])
    <3> SUFFICES ASSUME NEW j \in N PROVE Goes(t, b, g[1][j]) <=> Goes(t, b, j)
      BY <1>5
    <3>1. CASE g[1][j] = j
      BY <3>1
    <3>2. CASE j \in Leaves(t) /\ b < j /\ g[1][j] = a - 1
      <4>1. ~Goes(t, b, a - 1)
        BY <1>8 DEF Goes
      <4>2. ~Goes(t, b, j)
        BY <1>0, <1>7, <3>2
      <4> QED BY <3>2, <4>1, <4>2
    <3>3. CASE j = a - 1 /\ g[1][j] \in Leaves(t) /\ b < g[1][j]
      <4>1. ~Goes(t, b, j)
        BY <1>8, <3>3 DEF Goes
      <4>2. g[1][j] \in N /\ b \in Nat /\ g[1][j] \in Nat
        BY <1>0, <3>3
      <4>3. ~Goes(t, b, g[1][j])
        BY <1>7, <3>3, <4>2
      <4> QED BY <4>1, <4>3
    <3> QED BY <1>11, <3>1, <3>2, <3>3
  <2> HIDE DEF id
  <2> QED BY <2>1, TargetsGo
<1>13. g[2] = h[2]
  <2> HIDE DEF B
  <2> QED BY <1>3, <1>10, <1>12 DEF Moved
<1>14. Undone(h[2], N)
  <2> HIDE DEF A, B, id
  <2>1. CASE B = {}
    BY <1>10, <1>11, <2>1
  <2>2. CASE B # {}
    <3> DEFINE m == Min(B)
    <3>1. m \in N /\ m \in Leaves(t) /\ m < b
      BY <1>7, <1>9, <2>2
    <3> HIDE DEF m
    <3>2. g[1][m] = m
      <4>1. m \in Nat /\ b \in Nat /\ m # a - 1 /\ ~(b < m)
        BY <1>0, <1>8, <3>1
      <4> QED BY <1>11, <3>1, <4>1
    <3>3. g[1][b - 1] = b - 1
      <4>1. b - 1 # a - 1 /\ ~(b < b - 1)
        BY <1>0
      <4> QED BY <1>0, <1>11, <4>1
    <3>4. h[2] = Swap(g[1], m, b - 1)
      BY <1>10, <2>2 DEF m
    <3> QED BY <1>0, <1>11, <3>1, <3>2, <3>3, <3>4, SwapUndone
  <2> QED BY <2>1, <2>2
<1>15. \A n \in N : FlattenedTree(t)[LatticeIdx(t)[n]] = n
  BY <1>2, <1>13, <1>14 DEF Undone
<1> QED BY <1>15 DEF SameOrder

\* The children of a node are between the first and the last of them.
LEMMA KidsBetween ==
  ASSUME NEW leaves, NEW fanout, Buildable(leaves, fanout), NEW t, t = Tree(leaves, fanout),
         NEW n \in Nodes(t), NEW m \in KidsOf(leaves, fanout, n)
  PROVE  Between(t, n, m)
<1> DEFINE K == KidsOf(leaves, fanout, n)
           c == Cardinality(K)
           kids == t.children[n]
<1>1. kids = Ascending(K) /\ Len(kids) = c
  BY ChildrenAre
<1>2. K \subseteq 1..(Size(leaves, fanout) - 1) /\ IsFiniteSet(K)
  BY KidsAre
<1>3. Size(leaves, fanout) \in Nat
  BY Numbered
<1> HIDE DEF K, kids
<1>4. K \in SUBSET Nat
  BY <1>2, <1>3
<1>5. /\ c \in Nat /\ kids \in [1..c -> K]
      /\ \A x \in K : \E r \in 1..c : kids[r] = x
      /\ \A i, j \in 1..c : i < j <=> kids[i] < kids[j]
  BY <1>1, <1>2, <1>4, Increasing
<1> HIDE DEF c
<1>6. PICK r \in 1..c : kids[r] = m
  BY <1>5 DEF K
<1>7. 1 \in 1..c /\ c \in 1..c /\ r \in Nat /\ 1 <= r /\ r <= c
  BY <1>5, <1>6
<1>8. kids[1] \in Nat /\ kids[c] \in Nat /\ kids[r] \in Nat
  BY <1>4, <1>5, <1>7
<1>9. kids[1] <= kids[r]
  <2>1. ~(r < 1)
    BY <1>7
  <2>2. ~(kids[r] < kids[1])
    BY <1>5, <1>7, <2>1
  <2> QED BY <1>8, <2>2
<1>10. kids[r] <= kids[c]
  <2>1. ~(c < r)
    BY <1>5, <1>7
  <2>2. ~(kids[c] < kids[r])
    BY <1>5, <1>7, <2>1
  <2> QED BY <1>8, <2>2
<1>11. kids[1] \in Nat /\ kids[Len(kids)] \in Nat /\ kids[1] <= m /\ m <= kids[Len(kids)]
  BY <1>1, <1>6, <1>8, <1>9, <1>10
<1> QED BY <1>11 DEF Between, kids

\* What the nodes of a tree are whose leaves need two parents.
LEMMA TwoBuilt ==
  ASSUME NEW leaves, NEW fanout, Buildable(leaves, fanout),
         fanout < leaves, leaves <= 2 * fanout
  PROVE  /\ Depth(leaves, fanout) = 3
         /\ Span(fanout)[0] = 1 /\ Span(fanout)[1] = fanout
         /\ <<2, 0>> \in Made(leaves, fanout)
         /\ <<1, 0>> \in Made(leaves, fanout) /\ <<1, 1>> \in Made(leaves, fanout)
         /\ \A x \in Made(leaves, fanout) :
              \/ x \in {<<2, 0>>, <<1, 0>>, <<1, 1>>}
              \/ x[1] = 0 /\ x = <<0, x[2]>> /\ x[2] \in 0..(leaves - 1)
<1> DEFINE M == Made(leaves, fanout)
           d == Depth(leaves, fanout)
           s == Span(fanout)
<1>0. leaves \in Nat \ {0, 1} /\ fanout \in Nat \ {0, 1}
  BY DEF Buildable
<1>1. /\ d \in 1..leaves /\ s[d - 1] >= leaves
      /\ \A e \in 1..(d - 1) : s[e - 1] < leaves
  BY DepthIs
<1>2. s[0] = 1 /\ s[1] = fanout /\ s[2] \in Nat /\ leaves <= s[2]
  <2>1. s[0 + 1] = fanout * s[0] /\ s[0] = 1 /\ s[1 + 1] = fanout * s[1]
    BY <1>0, SpanIs
  <2>2. s[1] = fanout * 1 /\ s[2] = fanout * s[1]
    BY <2>1
  <2>3. s[1] = fanout
    BY <1>0, <2>2
  <2>4. 2 * fanout <= fanout * fanout
    BY <1>0, TimesMore
  <2>5. fanout * fanout \in Nat
    BY <1>0
  <2> HIDE DEF s
  <2>6. s[2] = fanout * fanout
    BY <2>2, <2>3
  <2> QED BY <1>0, <2>1, <2>3, <2>4, <2>5, <2>6
<1>3. d = 3
  <2> HIDE DEF d, s
  <2>1. d # 1 /\ d # 2
    BY <1>0, <1>1, <1>2
  <2>2. ~(d > 3)
    <3> SUFFICES ASSUME d > 3 PROVE FALSE
      OBVIOUS
    <3>1. 3 \in 1..(d - 1)
      BY <1>1
    <3>2. s[3 - 1] < leaves
      BY <1>1, <3>1
    <3> QED BY <1>0, <1>2, <3>2
  <2>3. d \in Nat /\ d >= 1
    BY <1>1
  <2> QED BY <2>1, <2>2, <2>3
<1>4. \A h, i : <<h, i>> \in M <=> /\ h \in 0..(d - 1) /\ i \in Nat /\ i * s[h] < leaves
  BY MadeIs
<1>5. ASSUME NEW x \in M
      PROVE  /\ x = <<x[1], x[2]>> /\ x[1] \in 0..2 /\ x[2] \in Nat
             /\ x[2] * s[x[1]] < leaves
  <2>1. /\ x = <<x[1], x[2]>> /\ x[1] \in 0..(d - 1) /\ x[2] \in Nat
    BY MadeIs
  <2>2. x[2] * s[x[1]] < leaves
    BY <1>4, <2>1
  <2> QED BY <1>3, <2>1, <2>2
<1> HIDE DEF d, s, M
<1>6. <<2, 0>> \in M /\ <<1, 0>> \in M /\ <<1, 1>> \in M
  <2>1. 0 * s[2] < leaves /\ 0 * s[1] < leaves /\ 1 * s[1] < leaves
    BY <1>0, <1>2
  <2>2. 2 \in 0..(d - 1) /\ 1 \in 0..(d - 1)
    BY <1>3
  <2> QED BY <1>4, <2>1, <2>2
<1>7. ASSUME NEW x \in M
      PROVE  \/ x \in {<<2, 0>>, <<1, 0>>, <<1, 1>>}
             \/ x[1] = 0 /\ x = <<0, x[2]>> /\ x[2] \in 0..(leaves - 1)
  <2> DEFINE h == x[1]
             i == x[2]
  <2>1. x = <<h, i>> /\ h \in 0..2 /\ i \in Nat /\ i * s[h] < leaves
    BY <1>5
  <2> HIDE DEF h, i
  <2>2. CASE h = 0
    <3>1. i * 1 < leaves /\ i * 1 = i
      BY <1>2, <2>1, <2>2
    <3>2. i \in 0..(leaves - 1)
      BY <1>0, <2>1, <3>1
    <3> QED BY <2>1, <2>2, <3>2 DEF h, i
  <2>3. CASE h = 1
    <3>1. i * fanout < leaves
      BY <1>2, <2>1, <2>3
    <3>2. ~(2 <= i)
      <4> SUFFICES ASSUME 2 <= i PROVE FALSE
        OBVIOUS
      <4>1. 2 * fanout <= i * fanout
        BY <1>0, <2>1, TimesMore
      <4>2. i * fanout \in Nat
        BY <1>0, <2>1
      <4> QED BY <1>0, <3>1, <4>1, <4>2
    <3>3. i = 0 \/ i = 1
      BY <2>1, <3>2
    <3> QED BY <2>1, <2>3, <3>3
  <2>4. CASE h = 2
    <3>1. i * s[2] < leaves
      BY <2>1, <2>4
    <3>2. ~(1 <= i)
      <4> SUFFICES ASSUME 1 <= i PROVE FALSE
        OBVIOUS
      <4>1. 1 * s[2] <= i * s[2]
        BY <1>2, <2>1, TimesMore
      <4>2. i * s[2] \in Nat /\ 1 * s[2] = s[2]
        BY <1>2, <2>1
      <4> QED BY <1>0, <1>2, <3>1, <4>1, <4>2
    <3>3. i = 0
      BY <2>1, <3>2
    <3> QED BY <2>1, <2>4, <3>3
  <2>5. h = 0 \/ h = 1 \/ h = 2
    BY <2>1
  <2> QED BY <2>2, <2>3, <2>4, <2>5
<1> QED BY <1>2, <1>3, <1>6, <1>7 DEF d, s, M

LEMMA TwoAre ==
  ASSUME NEW leaves, NEW fanout, Buildable(leaves, fanout),
         fanout < leaves, leaves <= 2 * fanout
  PROVE  LET t == Tree(leaves, fanout)
             a == Number(leaves, fanout, <<1, 0>>)
             b == Number(leaves, fanout, <<1, 1>>)
         IN  TwoInner(t, a, b) /\ \A n \in Inner(t) \ {0} : Above(t, n) = {0}
<1> DEFINE t == Tree(leaves, fanout)
           M == Made(leaves, fanout)
           num(x) == Number(leaves, fanout, x)
           a == num(<<1, 0>>)
           b == num(<<1, 1>>)
           par(x) == MadeParent(fanout, x)
<1>0. leaves \in Nat \ {0, 1} /\ fanout \in Nat \ {0, 1}
  BY DEF Buildable
<1>1. /\ Depth(leaves, fanout) = 3
      /\ Span(fanout)[0] = 1 /\ Span(fanout)[1] = fanout
      /\ <<2, 0>> \in M /\ <<1, 0>> \in M /\ <<1, 1>> \in M
      /\ \A x \in M : \/ x \in {<<2, 0>>, <<1, 0>>, <<1, 1>>}
                      \/ x[1] = 0 /\ x = <<0, x[2]>> /\ x[2] \in 0..(leaves - 1)
  BY TwoBuilt
<1>2. /\ Nodes(t) = 0..(Size(leaves, fanout) - 1) /\ Size(leaves, fanout) \in Nat
      /\ Nodes(t) \in SUBSET Nat
  <2>1. t.size = Size(leaves, fanout) /\ t.size \in Nat
    BY ChildrenAre
  <2> QED BY <2>1 DEF Nodes
<1>3. num(<<2, 0>>) = 0
  <2>1. num(<<Depth(leaves, fanout) - 1, 0>>) = 0
    BY RootIs
  <2>2. <<Depth(leaves, fanout) - 1, 0>> = <<2, 0>>
    BY <1>1
  <2> QED BY <2>1, <2>2
<1>4. /\ \A x \in M : num(x) \in Nodes(t)
      /\ \A x, y \in M : ComesBefore(fanout, x, y) <=> num(x) < num(y)
      /\ \A x, y \in M : num(x) = num(y) => x = y
      /\ \A m \in Nodes(t) : \E x \in M : num(x) = m
  <2>1. /\ \A x \in M : num(x) \in 0..(Size(leaves, fanout) - 1)
        /\ \A x, y \in M : ComesBefore(fanout, x, y) <=> num(x) < num(y)
        /\ \A x, y \in M : num(x) = num(y) => x = y
        /\ \A m \in 0..(Size(leaves, fanout) - 1) : \E x \in M : num(x) = m
    BY Numbered
  <2> QED BY <1>2, <2>1
<1>5. /\ \A x \in M : num(x) \in Inner(t) <=> x[1] # 0
      /\ \A x \in M : num(x) \in Leaves(t) <=> x[1] = 0
  BY InnerAre
<1>6. /\ FirstLeaf(fanout, <<2, 0>>) = 0 /\ FirstLeaf(fanout, <<1, 0>>) = 0
      /\ FirstLeaf(fanout, <<1, 1>>) = fanout
  <2>1. Span(fanout)[2] \in Nat
    BY <1>0, SpanIs
  <2>2. 0 * Span(fanout)[2] = 0 /\ 0 * Span(fanout)[1] = 0 /\ 1 * Span(fanout)[1] = fanout
    BY <1>0, <1>1, <2>1
  <2> QED BY <2>2 DEF FirstLeaf
<1>7. ASSUME NEW i \in 0..(leaves - 1)
      PROVE  /\ FirstLeaf(fanout, <<0, i>>) = i
             /\ i < fanout => par(<<0, i>>) = <<1, 0>>
             /\ fanout <= i => par(<<0, i>>) = <<1, 1>>
  <2>1. i \in Nat /\ i < 2 * fanout /\ i * 1 = i
    BY <1>0
  <2>2. i < fanout => i \div fanout = 0
    BY <1>0, <2>1
  <2>3. fanout <= i => i \div fanout = 1
    BY <1>0, <2>1
  <2> QED BY <1>1, <2>1, <2>2, <2>3 DEF FirstLeaf, MadeParent
<1>8. /\ a \in Nat /\ b \in Nat /\ 0 < a /\ a < b
      /\ a \in Nodes(t) /\ b \in Nodes(t)
  <2>1. ComesBefore(fanout, <<1, 0>>, <<1, 1>>) /\ ComesBefore(fanout, <<2, 0>>, <<1, 0>>)
    BY <1>0, <1>6 DEF ComesBefore
  <2>2. a < b /\ num(<<2, 0>>) < a
    BY <1>1, <1>4, <2>1
  <2>3. a \in Nodes(t) /\ b \in Nodes(t)
    BY <1>1, <1>4
  <2> QED BY <1>2, <1>3, <2>2, <2>3
<1>9. Inner(t) = {0, a, b}
  <2>1. 0 \in Inner(t) /\ a \in Inner(t) /\ b \in Inner(t)
    BY <1>1, <1>3, <1>5
  <2>2. ASSUME NEW n \in Inner(t) PROVE n \in {0, a, b}
    <3>1. PICK x \in M : num(x) = n
      BY <1>4 DEF Inner
    <3>2. x[1] # 0
      BY <1>5, <3>1
    <3>3. x \in {<<2, 0>>, <<1, 0>>, <<1, 1>>}
      BY <1>1, <3>2
    <3> QED BY <1>3, <3>1, <3>3
  <2> QED BY <2>1, <2>2
<1>10. ASSUME NEW n \in Leaves(t)
       PROVE  a < n /\ (n < b => Between(t, a, n)) /\ (b < n => Between(t, b, n))
  <2>1. PICK x \in M : num(x) = n
    BY <1>4 DEF Leaves
  <2>2. x[1] = 0
    BY <1>5, <2>1
  <2>3. PICK i \in 0..(leaves - 1) : x = <<0, i>>
    <3>1. x \notin {<<2, 0>>, <<1, 0>>, <<1, 1>>}
      BY <2>2
    <3> QED BY <1>1, <3>1
  <2>4. i \in Nat /\ FirstLeaf(fanout, x) = i
    BY <1>0, <1>7, <2>3
  <2>5. ComesBefore(fanout, <<1, 0>>, x)
    BY <1>6, <2>2, <2>4 DEF ComesBefore
  <2>6. a < n
    BY <1>1, <1>4, <2>1, <2>5
  <2>7. HasParent(leaves, fanout, x)
    BY <1>1, <2>2 DEF HasParent
  <2>8. n \in KidsOf(leaves, fanout, num(par(x)))
    BY <2>1, <2>7, KidsAre
  <2>9. n < b => par(x) = <<1, 0>>
    <3> SUFFICES ASSUME n < b PROVE par(x) = <<1, 0>>
      OBVIOUS
    <3>1. ComesBefore(fanout, x, <<1, 1>>)
      BY <1>1, <1>4, <2>1
    <3>2. i < fanout
      BY <1>0, <1>6, <2>2, <2>4, <3>1 DEF ComesBefore
    <3> QED BY <1>7, <2>3, <3>2
  <2>10. b < n => par(x) = <<1, 1>>
    <3> SUFFICES ASSUME b < n PROVE par(x) = <<1, 1>>
      OBVIOUS
    <3>1. ComesBefore(fanout, <<1, 1>>, x)
      BY <1>1, <1>4, <2>1
    <3>2. fanout <= i
      BY <1>0, <1>6, <2>2, <2>4, <3>1 DEF ComesBefore
    <3> QED BY <1>7, <2>3, <3>2
  <2>11. n < b => Between(t, a, n)
    BY <1>8, <2>8, <2>9, KidsBetween
  <2>12. b < n => Between(t, b, n)
    BY <1>8, <2>8, <2>10, KidsBetween
  <2> QED BY <2>6, <2>11, <2>12
<1>11. Rooted(t)
  BY BuiltIsRooted
<1>12. \A x \in {<<1, 0>>, <<1, 1>>} : Above(t, num(x)) = {0}
  <2> SUFFICES ASSUME NEW x \in {<<1, 0>>, <<1, 1>>} PROVE Above(t, num(x)) = {0}
    OBVIOUS
  <2>1. x \in M /\ HasParent(leaves, fanout, x) /\ par(x)[1] = 2
    BY <1>1 DEF HasParent, MadeParent
  <2>2. par(x) \in M
    BY <2>1, ParentIs
  <2>3. par(x) = <<2, 0>>
    BY <1>1, <2>1, <2>2
  <2>4. Parent(t, num(x)) = 0
    BY <1>3, <2>1, <2>3, ParentsAre
  <2>5. num(x) \in Nodes(t) /\ num(x) # 0
    BY <1>3, <1>4, <1>8, <2>1
  <2>6. 0 \in Nodes(t)
    BY <1>1, <1>3, <1>4
  <2>7. Above(t, 0) = {}
    BY <1>11, <2>6, AboveIs
  <2>8. Above(t, num(x)) = {Parent(t, num(x))} \cup Above(t, Parent(t, num(x)))
    BY <1>11, <2>5, AboveIs
  <2> QED BY <2>4, <2>7, <2>8
<1>13. \A n \in Inner(t) \ {0} : Above(t, n) = {0}
  BY <1>9, <1>12
<1> HIDE DEF t, a, b
<1>14. TwoInner(t, a, b)
  BY <1>8, <1>9, <1>10 DEF TwoInner
<1> QED BY <1>13, <1>14 DEF t, a, b

\* The repair finds every block where the upload put it as long as at most two inner nodes
\* besides the root have to be placed: that is, for twice as many leaves as a node has
\* children, 348 blocks of 256 KB with the 174 of ipfs.  (Beyond, it need not: MoreInner of
\* MCUpload.)
THEOREM SmallFilesKeepOrder ==
  ASSUME NEW leaves, NEW fanout, Buildable(leaves, fanout), leaves <= 2 * fanout
  PROVE  SameOrder(Tree(leaves, fanout))
<1> DEFINE t == Tree(leaves, fanout)
<1>0. leaves \in Nat \ {0} /\ fanout \in Nat
  BY DEF Buildable
<1>1. t.size \in Nat \ {0}
  BY ChildrenAre
<1>2. CASE leaves <= fanout
  <2>1. \A x \in Made(leaves, fanout) :
          x[1] # 0 => x = <<Depth(leaves, fanout) - 1, 0>>
    <3>1. CASE leaves = 1
      <4>1. Made(1, fanout) = {<<0, 0>>}
        BY <1>0, SingleTree
      <4> QED BY <3>1, <4>1
    <3>2. CASE leaves # 1
      <4>1. /\ Depth(leaves, fanout) = 2
            /\ Made(leaves, fanout) = {<<0, i>> : i \in 0..(leaves - 1)} \cup {<<1, 0>>}
        BY <1>0, <1>2, <3>2, FlatTree
      <4>2. <<Depth(leaves, fanout) - 1, 0>> = <<1, 0>>
        BY <4>1
      <4> QED BY <4>1, <4>2
    <3> QED BY <3>1, <3>2
  <2>2. Inner(t) \subseteq {0}
    <3> SUFFICES ASSUME NEW n \in Inner(t) PROVE n = 0
      OBVIOUS
    <3>1. n \in 0..(Size(leaves, fanout) - 1)
      BY ChildrenAre DEF Inner, Nodes
    <3>2. PICK x \in Made(leaves, fanout) : Number(leaves, fanout, x) = n
      BY <3>1, Numbered
    <3>3. x[1] # 0
      BY <3>2, InnerAre
    <3>4. x = <<Depth(leaves, fanout) - 1, 0>>
      BY <2>1, <3>3
    <3> QED BY <3>2, <3>4, RootIs
  <2> QED BY <1>1, <2>2, OrderOfNone
<1>3. CASE fanout < leaves
  <2> DEFINE a == Number(leaves, fanout, <<1, 0>>)
             b == Number(leaves, fanout, <<1, 1>>)
  <2>1. TwoInner(t, a, b) /\ \A n \in Inner(t) \ {0} : Above(t, n) = {0}
    BY <1>3, TwoAre
  <2> HIDE DEF t, a, b
  <2>2. PostOrder(t) = PreOrder(t)
    BY <2>1, FlatOrder
  <2>3. SameOrder(t)
    BY <1>1, <2>1, <2>2, OrderOfTwo
  <2> QED BY <2>3 DEF t
<1> QED BY <1>0, <1>2, <1>3
=============================================================================
