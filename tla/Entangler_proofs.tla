--------------------------- MODULE Entangler_proofs ---------------------------
(***************************************************************************)
(* What the entangler makes of a file of any length: one parity for every  *)
(* place, and every chain of parities closed over its own last block.  The *)
(* proof starts from the geometry of the lattice: a strand's chains cut    *)
(* its columns in one block each, and a block's forward neighbour is the   *)
(* next block of its chain.                                                *)
(***************************************************************************)
EXTENDS Entangler, WellFoundedInduction, TLAPS

\* The lattices the theorems are about: as many rows as the window has columns, and two
\* at least.  NewEntangler accepts P > S as well, but then the neighbours that
\* getForwardNeighborIndexes computes leave the chains of getChainIndexes.
Square == S = P /\ S > 1

-----------------------------------------------------------------------------
(* Rows and columns *)

Row(i) == (i - 1) % S
Column(i) == (i - 1) \div S

\* The number that stays the same, up to multiples of S, along a chain of strand k.
Diagonal(i, k) ==
  CASE k = 1 -> Row(i)
    [] k = 2 -> Column(i) - Row(i)
    [] k = 3 -> Column(i) + Row(i)

LEMMA DivMod ==
  ASSUME NEW a \in Nat, NEW b \in Nat \ {0}
  PROVE  /\ a % b \in 0..(b - 1) /\ a \div b \in Nat
         /\ a = b * (a \div b) + (a % b)
OBVIOUS

LEMMA DivModIs ==
  ASSUME NEW b \in Nat \ {0}, NEW q \in Nat, NEW r \in 0..(b - 1)
  PROVE  (b * q + r) % b = r /\ (b * q + r) \div b = q
OBVIOUS

LEMMA RowColumn ==
  ASSUME NEW i \in Nat \ {0}
  PROVE  Row(i) \in 0..(S - 1) /\ Column(i) \in Nat /\ i = S * Column(i) + Row(i) + 1
<1>1. i - 1 \in Nat /\ S \in Nat \ {0}
  BY PositionsAssumption
<1>2. /\ (i - 1) % S \in 0..(S - 1) /\ (i - 1) \div S \in Nat
      /\ i - 1 = S * ((i - 1) \div S) + ((i - 1) % S)
  BY <1>1, DivMod
<1>3. Row(i) \in 0..(S - 1) /\ Column(i) \in Nat /\ i - 1 = S * Column(i) + Row(i)
  BY <1>2 DEF Row, Column
<1> QED BY <1>1, <1>3

LEMMA At ==
  ASSUME NEW q \in Nat, NEW x \in 0..(S - 1)
  PROVE  Row(S * q + x + 1) = x /\ Column(S * q + x + 1) = q
<1>1. S \in Nat \ {0} /\ (S * q + x + 1) - 1 = S * q + x
  BY PositionsAssumption
<1> QED BY <1>1, DivModIs DEF Row, Column

\* Two numbers that differ by a multiple of S leave the same rest.
LEMMA RestUnique ==
  ASSUME NEW b \in Nat \ {0}, NEW c \in 0..(b - 1), NEW d \in 0..(b - 1),
         \E t \in Int : c = d + b * t
  PROVE  c = d
<1>1. PICK t \in Int : c = d + b * t
  OBVIOUS
<1>2. CASE t >= 1
  <2>1. b * t >= b
    BY <1>2
  <2> QED BY <1>1, <2>1
<1>3. CASE t <= -1
  <2>1. b * t <= -b
    BY <1>3
  <2> QED BY <1>1, <2>1
<1>4. CASE t = 0
  BY <1>1, <1>4
<1> QED BY <1>2, <1>3, <1>4

\* Where in the window a block is.
LEMMA InWindow ==
  ASSUME Square, NEW i \in Nat \ {0}
  PROVE  LET w == (i - 1) % (S * S) IN
         /\ w \in Nat /\ w % S = Row(i) /\ w \div S = Column(i) % S
         /\ Column(i) % S \in 0..(S - 1)
<1> DEFINE q == Column(i)
           x == Row(i)
           r == q \div S
           y == q % S
<1>0. S \in Nat \ {0} /\ S * S \in Nat \ {0}
  BY PositionsAssumption
<1>1. x \in 0..(S - 1) /\ q \in Nat /\ i = S * q + x + 1
  BY RowColumn
<1>2. y \in 0..(S - 1) /\ r \in Nat /\ q = S * r + y
  BY <1>0, <1>1, DivMod
<1> HIDE DEF q, x, r, y
<1>3. i - 1 = (S * S) * r + (S * y + x)
  BY <1>0, <1>1, <1>2
<1>4. S * y + x \in 0..(S * S - 1)
  <2>1. y <= S - 1 /\ x <= S - 1
    BY <1>0, <1>1, <1>2
  <2>2. S * y <= S * (S - 1)
    BY <1>0, <1>2, <2>1
  <2> QED BY <1>0, <1>1, <1>2, <2>1, <2>2
<1>5. (i - 1) % (S * S) = S * y + x
  BY <1>0, <1>2, <1>3, <1>4, DivModIs
<1>6. (S * y + x) % S = x /\ (S * y + x) \div S = y
  BY <1>0, <1>1, <1>2, DivModIs
<1>7. x = Row(i) /\ y = Column(i) % S
  BY DEF q, x, y
<1> DEFINE w == (i - 1) % (S * S)
<1>8. w \in Nat /\ w % S = x /\ w \div S = y
  BY <1>4, <1>5, <1>6
<1> QED BY <1>2, <1>7, <1>8
\* The blocks of a chain lie on one diagonal, and those of different chains on different
\* ones.
LEMMA ChainIs ==
  ASSUME Square, NEW i \in Nat \ {0}, NEW k \in Strand
  PROVE  /\ ChainIndex(i, k) \in 0..(S - 1)
         /\ \E t \in Int : Diagonal(i, k) = S * t + ChainIndex(i, k)
<1> DEFINE q == Column(i)
           x == Row(i)
           y == q % S
           w == (i - 1) % (S * S)
<1>0. S \in Nat \ {0} /\ S * P = S * S /\ P = S
  BY PositionsAssumption DEF Square
<1>1. x \in 0..(S - 1) /\ q \in Nat
  BY RowColumn
<1>2. q \div S \in Nat /\ y \in 0..(S - 1) /\ q = S * (q \div S) + y
  BY <1>0, <1>1, DivMod
<1>3. w \in Nat /\ w % S = x /\ w \div S = y
  BY InWindow
<1>4. GoMod(i - 1, S * P) = w /\ GoMod(w, P) = x /\ GoDiv(w, P) = y
  BY <1>0, <1>3 DEF GoMod, GoDiv
<1>5. GoMod(i - 1, S) = x
  BY <1>0 DEF GoMod, Row
<1> HIDE DEF q, x, y, w
<1>6. CASE k = 1
  <2>1. ChainIndex(i, k) = x
    BY <1>4, <1>5, <1>6 DEF ChainIndex
  <2>2. Diagonal(i, k) = S * 0 + x
    BY <1>0, <1>1, <1>6 DEF Diagonal, x
  <2> QED BY <1>1, <2>1, <2>2
<1>7. CASE k = 2
  <2> DEFINE a == y - x + S
  <2>1. a \in Nat
    BY <1>0, <1>1, <1>2
  <2>2. ChainIndex(i, k) = a % S
    BY <1>0, <1>4, <1>7, <2>1 DEF ChainIndex, GoMod
  <2>3. a % S \in 0..(S - 1) /\ a \div S \in Nat /\ a = S * (a \div S) + (a % S)
    BY <1>0, <2>1, DivMod
  <2>4. Diagonal(i, k) = q - x
    BY <1>7 DEF Diagonal, q, x
  <2>5. q - x = S * ((q \div S) + (a \div S) - 1) + (a % S)
    BY <1>0, <1>1, <1>2, <2>3
  <2>6. (q \div S) + (a \div S) - 1 \in Int
    BY <1>2, <2>3
  <2> HIDE DEF a
  <2> QED BY <2>2, <2>3, <2>4, <2>5, <2>6
<1>8. CASE k = 3
  <2> DEFINE a == x + y
  <2>1. a \in Nat
    BY <1>0, <1>1, <1>2
  <2>2. ChainIndex(i, k) = a % S
    BY <1>0, <1>4, <1>8, <2>1 DEF ChainIndex, GoMod
  <2>3. a % S \in 0..(S - 1) /\ a \div S \in Nat /\ a = S * (a \div S) + (a % S)
    BY <1>0, <2>1, DivMod
  <2>4. Diagonal(i, k) = q + x
    BY <1>8 DEF Diagonal, q, x
  <2>5. q + x = S * ((q \div S) + (a \div S)) + (a % S)
    BY <1>0, <1>1, <1>2, <2>3
  <2>6. (q \div S) + (a \div S) \in Int
    BY <1>2, <2>3
  <2> HIDE DEF a
  <2> QED BY <2>2, <2>3, <2>4, <2>5, <2>6
<1> QED BY <1>6, <1>7, <1>8, PositionsAssumption DEF Strand

LEMMA SameDiagonal ==
  ASSUME Square, NEW i \in Nat \ {0}, NEW j \in Nat \ {0}, NEW k \in Strand, NEW t \in Int,
         Diagonal(j, k) = Diagonal(i, k) + S * t
  PROVE  ChainIndex(j, k) = ChainIndex(i, k)
<1>0. S \in Nat \ {0}
  BY PositionsAssumption
<1>1. PICK u \in Int : Diagonal(i, k) = S * u + ChainIndex(i, k)
  BY ChainIs
<1>2. PICK v \in Int : Diagonal(j, k) = S * v + ChainIndex(j, k)
  BY ChainIs
<1>3. ChainIndex(i, k) \in 0..(S - 1) /\ ChainIndex(j, k) \in 0..(S - 1)
  BY ChainIs
<1>4. ChainIndex(j, k) = ChainIndex(i, k) + S * (u + t - v) /\ u + t - v \in Int
  BY <1>0, <1>1, <1>2, <1>3
<1> QED BY <1>0, <1>3, <1>4, RestUnique

\* A column has one block of each chain.
LEMMA OnePerColumn ==
  ASSUME Square, NEW i \in Nat \ {0}, NEW j \in Nat \ {0}, NEW k \in Strand,
         ChainIndex(j, k) = ChainIndex(i, k), Column(i) = Column(j)
  PROVE  i = j
<1>0. S \in Nat \ {0}
  BY PositionsAssumption
<1>1. /\ Row(i) \in 0..(S - 1) /\ Column(i) \in Nat /\ i = S * Column(i) + Row(i) + 1
      /\ Row(j) \in 0..(S - 1) /\ j = S * Column(j) + Row(j) + 1
  BY RowColumn
<1>2. PICK u \in Int : Diagonal(i, k) = S * u + ChainIndex(i, k)
  BY ChainIs
<1>3. PICK v \in Int : Diagonal(j, k) = S * v + ChainIndex(j, k)
  BY ChainIs
<1>4. ChainIndex(i, k) \in 0..(S - 1)
  BY ChainIs
<1>5. Diagonal(j, k) = Diagonal(i, k) + S * (v - u)
  BY <1>0, <1>2, <1>3, <1>4
<1>6. Row(i) = Row(j)
  <2>1. CASE k = 1
    <3>1. Row(j) = Row(i) + S * (v - u) /\ v - u \in Int
      BY <1>0, <1>1, <1>5, <2>1 DEF Diagonal
    <3> QED BY <1>0, <1>1, <3>1, RestUnique
  <2>2. CASE k = 2
    <3>1. Row(i) = Row(j) + S * (v - u) /\ v - u \in Int
      BY <1>0, <1>1, <1>5, <2>2 DEF Diagonal
    <3> QED BY <1>0, <1>1, <3>1, RestUnique
  <2>3. CASE k = 3
    <3>1. Row(j) = Row(i) + S * (v - u) /\ v - u \in Int
      BY <1>0, <1>1, <1>5, <2>3 DEF Diagonal
    <3> QED BY <1>0, <1>1, <3>1, RestUnique
  <2> QED BY <2>1, <2>2, <2>3, PositionsAssumption DEF Strand
<1> QED BY <1>1, <1>6
\* The forward neighbour of a block is on its chain, one column on.
LEMMA ForwardAt ==
  ASSUME Square, NEW i \in Nat \ {0}, NEW k \in Strand
  PROVE  /\ ForwardNeighbor(i, k) \in Nat /\ ForwardNeighbor(i, k) > i
         /\ Column(ForwardNeighbor(i, k)) = Column(i) + 1
         /\ ChainIndex(ForwardNeighbor(i, k), k) = ChainIndex(i, k)
<1> DEFINE q == Column(i)
           x == Row(i)
           f == ForwardNeighbor(i, k)
<1>0. S \in Nat \ {0} /\ S > 1 /\ P = S
  BY PositionsAssumption DEF Square
<1>1. x \in 0..(S - 1) /\ q \in Nat /\ i = S * q + x + 1
  BY RowColumn
<1>2. i % S = IF x = S - 1 THEN 0 ELSE x + 1
  <2>1. CASE x = S - 1
    <3>1. i = S * (q + 1) + 0 /\ q + 1 \in Nat /\ 0 \in 0..(S - 1)
      BY <1>0, <1>1, <2>1
    <3>2. i % S = 0
      BY <1>0, <3>1, DivModIs
    <3> QED BY <2>1, <3>2
  <2>2. CASE x # S - 1
    <3>1. i = S * q + (x + 1) /\ x + 1 \in 0..(S - 1)
      BY <1>0, <1>1, <2>2
    <3> QED BY <1>0, <1>1, <2>2, <3>1, DivModIs
  <2> QED BY <2>1, <2>2
<1>3. /\ PositionCategory(i) = "Top" <=> x = 0
      /\ PositionCategory(i) = "Bottom" <=> x = S - 1
  <2>1. GoMod(i, S) = IF x = S - 1 THEN 0 ELSE x + 1
    BY <1>2 DEF GoMod
  <2>2. PositionCategory(i) = IF x = 0 THEN "Top" ELSE IF x = S - 1 THEN "Bottom" ELSE "Central"
    BY <1>0, <1>1, <2>1 DEF PositionCategory
  <2> QED BY <1>0, <2>2
<1> HIDE DEF q, x
<1>4. \E y \in 0..(S - 1), t \in Int :
        /\ f = S * (q + 1) + y + 1
        /\ CASE k = 1 -> y = x + S * t
             [] k = 2 -> (q + 1) - y = q - x + S * t
             [] k = 3 -> (q + 1) + y = q + x + S * t
  <2>1. CASE k = 1
    <3>1. f = S * (q + 1) + x + 1 /\ x = x + S * 0
      BY <1>0, <1>1, <2>1 DEF ForwardNeighbor
    <3> QED BY <1>1, <2>1, <3>1
  <2>2. CASE k = 2 /\ x = S - 1
    <3>1. f = i + S * S - (S * S - 1)
      BY <1>0, <1>3, <2>2 DEF ForwardNeighbor
    <3>2. f = S * (q + 1) + 0 + 1
      BY <1>0, <1>1, <2>2, <3>1
    <3>3. (q + 1) - 0 = q - x + S * 1
      BY <1>0, <1>1, <2>2
    <3> QED BY <1>0, <2>2, <3>2, <3>3
  <2>3. CASE k = 2 /\ x # S - 1
    <3>1. f = S * (q + 1) + (x + 1) + 1
      BY <1>0, <1>1, <1>3, <2>3 DEF ForwardNeighbor
    <3>2. (q + 1) - (x + 1) = q - x + S * 0
      BY <1>0, <1>1
    <3>3. x + 1 \in 0..(S - 1)
      BY <1>0, <1>1, <2>3
    <3> QED BY <2>3, <3>1, <3>2, <3>3
  <2>4. CASE k = 3 /\ x = 0
    <3>1. f = i + S * S - (S - 1) * (S - 1)
      BY <1>0, <1>3, <2>4 DEF ForwardNeighbor
    <3>2. f = S * (q + 1) + (S - 1) + 1
      BY <1>0, <1>1, <2>4, <3>1
    <3>3. (q + 1) + (S - 1) = q + x + S * 1
      BY <1>0, <1>1, <2>4
    <3>4. S - 1 \in 0..(S - 1)
      BY <1>0
    <3> QED BY <2>4, <3>2, <3>3, <3>4
  <2>5. CASE k = 3 /\ x # 0
    <3>1. f = S * (q + 1) + (x - 1) + 1
      BY <1>0, <1>1, <1>3, <2>5 DEF ForwardNeighbor
    <3>2. (q + 1) + (x - 1) = q + x + S * 0
      BY <1>0, <1>1
    <3>3. x - 1 \in 0..(S - 1)
      BY <1>0, <1>1, <2>5
    <3> QED BY <2>5, <3>1, <3>2, <3>3
  <2>6. \/ k = 1 \/ (k = 2 /\ x = S - 1) \/ (k = 2 /\ x # S - 1)
        \/ (k = 3 /\ x = 0) \/ (k = 3 /\ x # 0)
    BY PositionsAssumption DEF Strand
  <2> QED BY <2>1, <2>2, <2>3, <2>4, <2>5, <2>6, Zenon
<1>5. PICK y \in 0..(S - 1), t \in Int :
        /\ f = S * (q + 1) + y + 1
        /\ CASE k = 1 -> y = x + S * t
             [] k = 2 -> (q + 1) - y = q - x + S * t
             [] k = 3 -> (q + 1) + y = q + x + S * t
  BY <1>4
<1> HIDE DEF f
<1>6. q + 1 \in Nat /\ Row(f) = y /\ Column(f) = q + 1
  BY <1>1, <1>5, At
<1>7. f \in Nat \ {0} /\ f > i
  <2>1. S * (q + 1) = S * q + S /\ S * q \in Nat
    BY <1>0, <1>1
  <2> DEFINE z == S * q
  <2>2. f = z + S + y + 1 /\ i = z + x + 1 /\ z \in Nat
    BY <1>1, <1>5, <2>1
  <2> HIDE DEF z
  <2> QED BY <1>0, <1>1, <1>5, <2>2
<1>8. Diagonal(f, k) = Diagonal(i, k) + S * t
  <2>1. CASE k = 1
    BY <1>5, <1>6, <2>1 DEF Diagonal, q, x
  <2>2. CASE k = 2
    BY <1>5, <1>6, <2>2 DEF Diagonal, q, x
  <2>3. CASE k = 3
    BY <1>5, <1>6, <2>3 DEF Diagonal, q, x
  <2> QED BY <2>1, <2>2, <2>3, PositionsAssumption DEF Strand
<1>9. ChainIndex(f, k) = ChainIndex(i, k)
  BY <1>5, <1>7, <1>8, SameDiagonal
<1> QED BY <1>6, <1>7, <1>9 DEF f, q

\* No block of the chain lies between a block and its forward neighbour.
LEMMA NextOnChain ==
  ASSUME Square, NEW i \in Nat \ {0}, NEW j \in Nat \ {0}, NEW k \in Strand, i < j,
         ChainIndex(j, k) = ChainIndex(i, k)
  PROVE  ForwardNeighbor(i, k) <= j
<1> DEFINE f == ForwardNeighbor(i, k)
<1>0. S \in Nat \ {0}
  BY PositionsAssumption
<1>1. /\ f \in Nat \ {0} /\ Column(f) = Column(i) + 1 /\ ChainIndex(f, k) = ChainIndex(i, k)
  BY ForwardAt
<1> HIDE DEF f
<1>2. /\ Row(i) \in 0..(S - 1) /\ Column(i) \in Nat /\ i = S * Column(i) + Row(i) + 1
      /\ Row(j) \in 0..(S - 1) /\ Column(j) \in Nat /\ j = S * Column(j) + Row(j) + 1
      /\ Row(f) \in 0..(S - 1) /\ Column(f) \in Nat /\ f = S * Column(f) + Row(f) + 1
  BY <1>1, RowColumn
<1>3. Column(j) # Column(i)
  BY OnePerColumn
<1>4. Column(j) >= Column(i)
  <2> SUFFICES ASSUME Column(j) + 1 <= Column(i)
               PROVE  FALSE
    BY <1>2
  <2>1. S * (Column(j) + 1) <= S * Column(i)
    BY <1>0, <1>2
  <2>2. S * (Column(j) + 1) = S * Column(j) + S
    BY <1>0, <1>2
  <2> QED BY <1>0, <1>2, <2>1, <2>2
<1>5. CASE Column(j) = Column(f)
  BY <1>1, <1>5, OnePerColumn DEF f
<1>6. CASE Column(f) + 1 <= Column(j)
  <2>1. S * (Column(f) + 1) <= S * Column(j)
    BY <1>0, <1>2, <1>6
  <2>2. S * (Column(f) + 1) = S * Column(f) + S
    BY <1>0, <1>2
  <2> QED BY <1>0, <1>2, <2>1, <2>2 DEF f
<1> QED BY <1>1, <1>2, <1>3, <1>4, <1>5, <1>6

\* The first block of chain c.
StartOf(k, c) == IF k = 2 THEN GoMod(P - c, P) + 1 ELSE c + 1

LEMMA StartAt ==
  ASSUME Square, NEW k \in Strand, NEW c \in 0..(S - 1)
  PROVE  /\ StartOf(k, c) \in 1..S
         /\ ChainIndex(StartOf(k, c), k) = c /\ ChainStart(StartOf(k, c), k) = StartOf(k, c)
<1> DEFINE s == StartOf(k, c)
<1>0. S \in Nat \ {0} /\ P = S
  BY PositionsAssumption DEF Square
<1>1. s = IF k = 2 /\ c # 0 THEN (S - c) + 1 ELSE c + 1
  <2>1. CASE k = 2 /\ c # 0
    <3>1. (S - c) % S = S - c
      <4>1. S - c \in 0..(S - 1) /\ S - c = S * 0 + (S - c)
        BY <1>0, <2>1
      <4> QED BY <1>0, <4>1, DivModIs
    <3> QED BY <1>0, <2>1, <3>1 DEF StartOf, GoMod
  <2>2. CASE k = 2 /\ c = 0
    <3>1. S % S = 0
      <4>1. S = S * 1 + 0
        BY <1>0
      <4> QED BY <1>0, <4>1, DivModIs
    <3> QED BY <1>0, <2>2, <3>1 DEF StartOf, GoMod
  <2>3. CASE k # 2
    BY <2>3 DEF StartOf
  <2> QED BY <2>1, <2>2, <2>3
<1>2. s \in 1..S
  BY <1>0, <1>1
<1> HIDE DEF s
<1>3. Row(s) = s - 1 /\ Column(s) = 0
  <2>1. s = S * 0 + (s - 1) + 1 /\ s - 1 \in 0..(S - 1)
    BY <1>0, <1>2
  <2> QED BY <2>1, At
<1>4. \E t \in Int : Diagonal(s, k) = c + S * t
  <2>1. CASE k = 2 /\ c # 0
    <3>1. Diagonal(s, k) = c + S * (-1)
      BY <1>0, <1>1, <1>3, <2>1 DEF Diagonal
    <3> QED BY <3>1
  <2>2. CASE k # 2 \/ c = 0
    <3>1. Diagonal(s, k) = c + S * 0
      BY <1>0, <1>1, <1>3, <2>2, PositionsAssumption DEF Diagonal, Strand
    <3> QED BY <3>1
  <2> QED BY <2>1, <2>2
<1>5. PICK t \in Int : Diagonal(s, k) = c + S * t
  BY <1>4
<1>6. PICK u \in Int : Diagonal(s, k) = S * u + ChainIndex(s, k)
  BY <1>2, ChainIs
<1>7. ChainIndex(s, k) \in 0..(S - 1)
  BY <1>2, ChainIs
<1>8. ChainIndex(s, k) = c + S * (t - u) /\ t - u \in Int
  BY <1>0, <1>5, <1>6, <1>7
<1>9. ChainIndex(s, k) = c
  BY <1>0, <1>7, <1>8, RestUnique
<1>10. ChainStart(s, k) = s
  BY <1>9 DEF ChainStart, StartOf, s
<1> QED BY <1>2, <1>9, <1>10 DEF s

LEMMA StartIs ==
  ASSUME NEW i, NEW k
  PROVE  ChainStart(i, k) = StartOf(k, ChainIndex(i, k))
BY DEF ChainStart, StartOf

-----------------------------------------------------------------------------
(* Types, whatever the lattice *)

LEMMA GoModIn ==
  ASSUME NEW a \in Nat, NEW b \in Nat \ {0}
  PROVE  GoMod(a, b) \in 0..(b - 1)
BY DivMod DEF GoMod

\* A block is on a chain of its strand.
LEMMA ChainOfBlock ==
  ASSUME NEW i \in Nat \ {0}, NEW k \in Strand
  PROVE  ChainIndex(i, k) \in Chains(k)
<1> DEFINE w == GoMod(i - 1, S * P)
           x == GoMod(w, P)
           y == GoDiv(w, P)
<1>0. S \in Nat \ {0} /\ P \in Nat \ {0} /\ S <= P /\ S * P \in Nat \ {0} /\ i - 1 \in Nat
  BY PositionsAssumption
<1>1. w \in Nat
  BY <1>0, GoModIn
<1>2. x \in 0..(P - 1)
  BY <1>0, <1>1, GoModIn
<1>3. y \in Nat
  BY <1>0, <1>1, DivMod DEF GoDiv
<1> HIDE DEF w, x, y
<1>4. CASE k = 1
  <2>1. GoMod(i - 1, S) \in 0..(S - 1)
    BY <1>0, GoModIn
  <2> QED BY <1>4, <2>1 DEF ChainIndex, Chains
<1>5. CASE k = 2
  <2>1. y - x + P \in Nat
    BY <1>0, <1>2, <1>3
  <2>2. GoMod(y - x + P, P) \in 0..(P - 1)
    BY <1>0, <2>1, GoModIn
  <2> QED BY <1>5, <2>2 DEF ChainIndex, Chains, w, x, y
<1>6. CASE k = 3
  <2>1. x + y \in Nat
    BY <1>2, <1>3
  <2>2. GoMod(x + y, S) \in 0..(S - 1)
    BY <1>0, <2>1, GoModIn
  <2>3. GoMod(x + y, S) \in 0..(P - 1)
    BY <1>0, <2>2
  <2> QED BY <1>6, <2>3 DEF ChainIndex, Chains, w, x, y
<1> QED BY <1>4, <1>5, <1>6, PositionsAssumption DEF Strand

\* A forward neighbour is a block's number, and no earlier one.
LEMMA ForwardNat ==
  ASSUME NEW i \in Nat \ {0}, NEW k \in Strand
  PROVE  ForwardNeighbor(i, k) \in Nat /\ ForwardNeighbor(i, k) >= i
<1>0. S \in Nat \ {0} /\ P \in Nat \ {0} /\ S <= P
  BY PositionsAssumption
<1>1. S * P >= S * S /\ S * P \in Nat /\ S * S \in Nat
  <2>1. PICK d \in Nat : P = S + d
    BY <1>0
  <2>2. S * (S + d) = S * S + S * d /\ S * d \in Nat /\ S * S \in Nat
    BY <1>0
  <2> QED BY <2>1, <2>2
<1>2. (S - 1) * (S - 1) = S * S - S - S + 1
  BY <1>0
<1>3. i + S * P - (S * S - 1) \in Nat /\ i + S * P - (S * S - 1) >= i
  BY <1>1
<1>4. i + S * P - (S - 1) * (S - 1) \in Nat /\ i + S * P - (S - 1) * (S - 1) >= i
  BY <1>0, <1>1, <1>2
<1>5. /\ i + S \in Nat /\ i + S + 1 \in Nat /\ i + S - 1 \in Nat
      /\ i + S >= i /\ i + S + 1 >= i /\ i + S - 1 >= i
  BY <1>0
<1>6. CASE k = 1
  BY <1>5, <1>6 DEF ForwardNeighbor
<1>7. CASE k = 2
  BY <1>3, <1>5, <1>7 DEF ForwardNeighbor
<1>8. CASE k = 3
  BY <1>4, <1>5, <1>8 DEF ForwardNeighbor
<1> QED BY <1>6, <1>7, <1>8, PositionsAssumption DEF Strand

\* A parity of a lattice of n data blocks.
Parity(n) == [left : 0..n, right : Nat, strand : 0..Alpha, data : SUBSET (1..n)]

\* The chain to be closed next is one there is, until there is none.
ChainInv ==
  /\ chain \in (1..(Alpha + 1)) \X Nat
  /\ chain[1] \in Strand => chain[2] \in Chains(chain[1])

TypeInv ==
  /\ chunkNum \in ChunkNums /\ strands \in StrandSets
  /\ index \in 0..chunkNum
  /\ \A k \in Strand :
       /\ cached[k] \in [Chains(k) -> Parity(chunkNum)]
       /\ toWrap[k] \in [1..MaxChainNumPerStrand -> Parity(chunkNum)]
  /\ emitted \subseteq Parity(chunkNum)
  /\ phase \in {"entangling", "wrapping", "closed", "panic"}
  /\ ChainInv

LEMMA NoParityType ==
  ASSUME NEW n \in Nat
  PROVE  NoParity \in Parity(n)
BY PositionsAssumption DEF NoParity, Parity

LEMMA SymDiffIn ==
  ASSUME NEW T, NEW a \in SUBSET T, NEW b \in SUBSET T
  PROVE  SymDiff(a, b) \in SUBSET T
BY DEF SymDiff

LEMMA EntangledType ==
  ASSUME TypeInv, NEW k \in Strand, index + 1 <= chunkNum
  PROVE  Entangled(index + 1, k) \in Parity(chunkNum)
<1>1. index + 1 \in 1..chunkNum /\ index + 1 \in Nat \ {0} /\ chunkNum \in Nat
  BY EntanglerAssumption DEF TypeInv
<1>2. ForwardNeighbor(index + 1, k) \in Nat
  BY <1>1, ForwardNat
<1>3. cached[k][ChainIndex(index + 1, k)] \in Parity(chunkNum)
  BY <1>1, ChainOfBlock DEF TypeInv
<1>4. SymDiff({index + 1}, cached[k][ChainIndex(index + 1, k)].data) \in SUBSET (1..chunkNum)
  <2>1. /\ {index + 1} \in SUBSET (1..chunkNum)
        /\ cached[k][ChainIndex(index + 1, k)].data \in SUBSET (1..chunkNum)
    BY <1>1, <1>3 DEF Parity
  <2> QED BY <2>1 DEF SymDiff
<1>5. k \in 0..Alpha /\ index + 1 \in 0..chunkNum
  BY <1>1, PositionsAssumption DEF Strand
<1> QED BY <1>2, <1>4, <1>5 DEF Entangled, Parity

LEMMA ClosedType ==
  ASSUME TypeInv, NEW k \in Strand, NEW last \in Parity(chunkNum),
         ChainStart(last.right, k) \in 1..MaxChainNumPerStrand
  PROVE  Closed(last, k) \in Parity(chunkNum)
<1> DEFINE start == ChainStart(last.right, k)
<1>0. /\ start \in 1..MaxChainNumPerStrand /\ start \in Nat \ {0}
      /\ chunkNum \in Nat /\ index \in 0..chunkNum /\ k \in 0..Alpha
  BY EntanglerAssumption, PositionsAssumption DEF TypeInv, MaxChainNumPerStrand, Strand
<1>1. ForwardNeighbor(start, k) \in Nat /\ ForwardNeighbor(start, k) >= start
  BY <1>0, ForwardNat
<1> HIDE DEF start
<1>2. CASE IsValidIndex(ForwardNeighbor(start, k), index)
  <2>1. start \in 1..chunkNum
    BY <1>0, <1>1, <1>2 DEF IsValidIndex
  <2>2. SymDiff({start}, last.data) \in SUBSET (1..chunkNum)
    BY <2>1, SymDiffIn DEF Parity
  <2>3. Closed(last, k) = [left |-> start, right |-> ForwardNeighbor(start, k), strand |-> k,
                           data |-> SymDiff({start}, last.data)]
    BY <1>2 DEF Closed, start
  <2> QED BY <1>0, <1>1, <2>1, <2>2, <2>3 DEF Parity
<1>3. CASE ~IsValidIndex(ForwardNeighbor(start, k), index) /\ last.left = start
  <2>1. Closed(last, k) = [last EXCEPT !.right = start]
    BY <1>3 DEF Closed, start
  <2> QED BY <1>0, <2>1 DEF Parity
<1>4. CASE ~IsValidIndex(ForwardNeighbor(start, k), index) /\ last.left # start
  <2>1. Closed(last, k) = toWrap[k][start]
    BY <1>4 DEF Closed, start
  <2> QED BY <1>0, <2>1 DEF TypeInv
<1> QED BY <1>2, <1>3, <1>4

LEMMA ChainInvNext ==
  ASSUME NEW k \in Strand, NEW c \in Chains(k)
  PROVE  /\ NextChain(k, c) \in (1..(Alpha + 1)) \X Nat
         /\ NextChain(k, c)[1] \in Strand => NextChain(k, c)[2] \in Chains(NextChain(k, c)[1])
<1>1. CASE c + 1 \in Chains(k)
  BY <1>1, PositionsAssumption DEF NextChain, Strand, Chains
<1>2. CASE c + 1 \notin Chains(k)
  <2>1. \A j \in Strand : 0 \in Chains(j)
    BY PositionsAssumption DEF Chains
  <2> QED BY <1>2, <2>1, PositionsAssumption DEF NextChain, Strand
<1> QED BY <1>1, <1>2

LEMMA InitType == Init => TypeInv
<1> SUFFICES ASSUME Init PROVE TypeInv
  OBVIOUS
<1>1. chunkNum \in Nat
  BY EntanglerAssumption DEF Init
<1>2. NoParity \in Parity(chunkNum)
  BY <1>1, NoParityType
<1>3. \A k \in Strand : /\ cached[k] \in [Chains(k) -> Parity(chunkNum)]
                        /\ toWrap[k] \in [1..MaxChainNumPerStrand -> Parity(chunkNum)]
  BY <1>2 DEF Init
<1>4. ChainInv
  BY PositionsAssumption DEF Init, ChainInv, Strand, Chains
<1> QED BY <1>1, <1>3, <1>4 DEF Init, TypeInv

LEMMA StepType == TypeInv /\ [Next]_vars => TypeInv'
<1> SUFFICES ASSUME TypeInv, [Next]_vars PROVE TypeInv'
  OBVIOUS
<1>1. CASE EntangleSingleBlock
  <2>1. index + 1 <= chunkNum /\ chunkNum \in Nat /\ index' \in 0..chunkNum'
    BY <1>1, EntanglerAssumption DEF TypeInv, EntangleSingleBlock
  <2>2. \A k \in Strand : Entangled(index + 1, k) \in Parity(chunkNum)
    BY <2>1, EntangledType
  <2>3. ASSUME NEW k \in Strand
        PROVE  /\ cached'[k] \in [Chains(k) -> Parity(chunkNum)]
               /\ toWrap'[k] \in [1..MaxChainNumPerStrand -> Parity(chunkNum)]
    BY <1>1, <2>2, <2>3 DEF TypeInv, EntangleSingleBlock
  <2>4. strands \subseteq Strand
    BY EntanglerAssumption DEF TypeInv
  <2>5. emitted' \subseteq Parity(chunkNum)
    BY <1>1, <2>2, <2>4 DEF TypeInv, EntangleSingleBlock
  <2>6. ChainInv'
    BY <1>1 DEF TypeInv, ChainInv, EntangleSingleBlock
  <2>7. /\ chunkNum' = chunkNum /\ chunkNum' \in ChunkNums /\ strands' \in StrandSets
        /\ phase' \in {"entangling", "wrapping", "closed", "panic"}
    BY <1>1 DEF TypeInv, EntangleSingleBlock
  <2> QED BY <2>1, <2>3, <2>5, <2>6, <2>7 DEF TypeInv
<1>2. CASE DataEnds
  BY <1>2 DEF TypeInv, ChainInv, DataEnds
<1>3. CASE WrapChain
  <2> DEFINE k == chain[1]
             last == cached[k][chain[2]]
  <2>1. k \in Strand /\ chain[2] \in Chains(k)
    BY <1>3 DEF TypeInv, ChainInv, WrapChain
  <2>2. last \in Parity(chunkNum)
    BY <2>1 DEF TypeInv
  <2>3. \/ emitted' = emitted
        \/ /\ ChainStart(last.right, k) \in 1..MaxChainNumPerStrand
           /\ emitted' = emitted \cup {Closed(last, k)}
    BY <1>3 DEF WrapChain
  <2>4. emitted' \subseteq Parity(chunkNum)
    BY <2>1, <2>2, <2>3, ClosedType DEF TypeInv
  <2>5. ChainInv'
    BY <1>3, <2>1, ChainInvNext DEF ChainInv, WrapChain
  <2>6. /\ UNCHANGED <<chunkNum, strands, index, cached, toWrap>>
        /\ phase' \in {"entangling", "wrapping", "closed", "panic"}
    BY <1>3 DEF WrapChain, TypeInv
  <2> QED BY <2>4, <2>5, <2>6 DEF TypeInv
<1>4. CASE CloseParities
  BY <1>4 DEF TypeInv, ChainInv, CloseParities
<1>5. CASE UNCHANGED vars
  BY <1>5 DEF TypeInv, ChainInv, vars
<1> QED BY <1>1, <1>2, <1>3, <1>4, <1>5 DEF Next

\* The caches, the held back parities and the parities sent are of blocks that were
\* read, in every lattice that NewEntangler accepts: no index of entangleSingleBlock
\* leaves its table.
THEOREM TypeCorrect == Spec => []TypeOK
<1>1. TypeInv => TypeOK
  BY DEF TypeInv, TypeOK, Parity
<1> QED BY <1>1, InitType, StepType, PTL DEF Spec

-----------------------------------------------------------------------------
(* What is known of the parities at every step *)

\* The chains before the one to be closed next.
Passed(k, c) == k < chain[1] \/ (k = chain[1] /\ c < chain[2])

\* No chain is closed before the data ends, and every chain is before the channel is.
PhaseInv ==
  /\ phase = "entangling" => chain = <<1, 0>>
  /\ phase # "entangling" => index = chunkNum
  /\ phase = "closed" => chain[1] \notin Strand

\* The parity of the first block of a chain, before the chain is closed.
First(i, k) == [left |-> i, right |-> ForwardNeighbor(i, k), strand |-> k, data |-> {i}]

\* The parity of the last block of chain c that was read.
LastIs(k, c, last) ==
  /\ last.left \in 1..index /\ ChainIndex(last.left, k) = c
  /\ last.strand = k /\ last.right = ForwardNeighbor(last.left, k)
  /\ last.right > index
  /\ IF HeldBack(last.left, k) THEN last.data = {last.left} ELSE last \in emitted

Begun(k, c) == \E i \in 1..index : ChainIndex(i, k) = c

\* The caches keep the last parities of the chains.
CacheInv ==
  \A k \in strands : \A c \in Chains(k) :
    IF Begun(k, c) THEN LastIs(k, c, cached[k][c]) ELSE cached[k][c] = NoParity

\* What waits to be wrapped are the first parities of the chains.
WrapInv ==
  \A k \in strands, i \in 1..MaxChainNumPerStrand :
    toWrap[k][i] = IF i <= index /\ HeldBack(i, k) THEN First(i, k) ELSE NoParity

\* A parity in a chain is its block over the parity before it.
InChain(b) ==
  \E j \in 1..chunkNum :
    /\ ForwardNeighbor(j, b.strand) = b.left
    /\ IF HeldBack(j, b.strand) THEN b.data = SymDiff({b.left}, {j})
       ELSE \E a \in emitted : /\ a.strand = b.strand /\ a.left = j
                               /\ b.data = SymDiff({b.left}, a.data)

\* The first parity of a closed chain is its block over the chain's last parity, or the
\* block alone when the chain is.
ClosesChain(b) ==
  \/ b.data = {b.left} /\ ForwardNeighbor(b.left, b.strand) > chunkNum
  \/ \E a \in emitted :
       /\ a.strand = b.strand /\ ChainIndex(a.left, a.strand) = ChainIndex(b.left, b.strand)
       /\ a.right > chunkNum /\ a.left # b.left
       /\ b.data = SymDiff({b.left}, a.data)

ParityMade(b) ==
  /\ b.strand \in strands /\ b.left \in 1..index
  /\ IF HeldBack(b.left, b.strand)
       THEN Passed(b.strand, ChainIndex(b.left, b.strand)) /\ ClosesChain(b)
       ELSE b.right = ForwardNeighbor(b.left, b.strand) /\ InChain(b)

AllMade == \A b \in emitted : ParityMade(b)

OneMade == \A a, b \in emitted : a.strand = b.strand /\ a.left = b.left => a = b

NoneMissing ==
  phase # "panic" =>
    \A k \in strands, i \in 1..index :
      ~HeldBack(i, k) \/ Passed(k, ChainIndex(i, k)) =>
        \E a \in emitted : a.strand = k /\ a.left = i

\* A chain without a block, which the closing panics at, is found in small files only.
OnlySmallPanic == phase = "panic" => chunkNum < P

EntInv ==
  /\ TypeInv /\ PhaseInv /\ CacheInv /\ WrapInv
  /\ AllMade /\ OneMade /\ NoneMissing /\ OnlySmallPanic

-----------------------------------------------------------------------------
(* The first blocks of the chains *)

LEMMA ChainsAre ==
  ASSUME Square, NEW k
  PROVE  Chains(k) = 0..(S - 1) /\ MaxChainNumPerStrand = S
BY PositionsAssumption DEF Square, Chains, MaxChainNumPerStrand

\* No block of a chain comes before its start, and the start alone is held back.
LEMMA StartLeast ==
  ASSUME Square, NEW i \in Nat \ {0}, NEW k \in Strand
  PROVE  /\ StartOf(k, ChainIndex(i, k)) \in 1..S
         /\ StartOf(k, ChainIndex(i, k)) <= i
         /\ ForwardNeighbor(i, k) > S
         /\ HeldBack(i, k) <=> i = StartOf(k, ChainIndex(i, k))
<1> DEFINE s == StartOf(k, ChainIndex(i, k))
           f == ForwardNeighbor(i, k)
<1>0. S \in Nat \ {0}
  BY PositionsAssumption
<1>1. s \in 1..S /\ ChainIndex(s, k) = ChainIndex(i, k)
  BY ChainIs, StartAt
<1>2. f \in Nat \ {0} /\ Column(f) = Column(i) + 1
  BY ForwardAt
<1>3. HeldBack(i, k) <=> i = s
  BY StartIs DEF HeldBack
<1> HIDE DEF s, f
<1>4. f > S
  <2>1. Column(i) \in Nat /\ Row(f) \in 0..(S - 1) /\ f = S * Column(f) + Row(f) + 1
    BY <1>2, RowColumn
  <2>2. S * (Column(i) + 1) = S * Column(i) + S /\ S * Column(i) \in Nat
    BY <1>0, <2>1
  <2> QED BY <1>0, <1>2, <2>1, <2>2
<1>5. s <= i
  <2> SUFFICES ASSUME i < s PROVE FALSE
    BY <1>1
  <2>1. f <= s
    BY <1>1, NextOnChain DEF f
  <2> QED BY <1>0, <1>1, <1>2, <1>4, <2>1
<1> QED BY <1>1, <1>3, <1>4, <1>5 DEF s, f

\* What the parity that no chain begins with leads to.
LEMMA NoStart ==
  ASSUME Square, NEW k \in Strand
  PROVE  ChainStart(NoParity.right, k) = IF k = 2 THEN P ELSE 0
<1>0. S \in Nat \ {0} /\ S > 1 /\ P = S /\ S * S > 1 /\ S * S \in Nat
  BY PositionsAssumption DEF Square
<1>1. 1 % (S * S) = 1 /\ 1 % S = 1 /\ 1 \div S = 0
  <2>1. 1 \in 0..(S * S - 1) /\ 1 \in 0..(S - 1) /\ 0 \in Nat
    BY <1>0
  <2>2. (S * S) * 0 + 1 = 1 /\ S * 0 + 1 = 1
    BY <1>0
  <2> QED BY <1>0, <2>1, <2>2, DivModIs
<1>2. GoMod(0 - 1, S * P) = -1 /\ GoMod(-1, P) = -1 /\ GoDiv(-1, P) = 0 /\ GoMod(0 - 1, S) = -1
  BY <1>0, <1>1 DEF GoMod, GoDiv
<1>3. NoParity.right = 0
  BY DEF NoParity
<1>4. CASE k = 1
  <2>1. ChainIndex(0, 1) = -1
    BY <1>2 DEF ChainIndex
  <2> QED BY <1>3, <1>4, <2>1 DEF ChainStart
<1>5. CASE k = 2
  <2>1. GoMod(0 - (-1) + P, P) = 1
    <3>1. 0 - (-1) + P = S * 1 + 1 /\ 1 \in 0..(S - 1) /\ 0 - (-1) + P >= 0
      BY <1>0
    <3> QED BY <1>0, <3>1, DivModIs DEF GoMod
  <2>2. ChainIndex(0, 2) = 1
    BY <1>2, <2>1 DEF ChainIndex
  <2>3. GoMod(P - 1, P) = S - 1
    <3>1. P - 1 = S * 0 + (S - 1) /\ S - 1 \in 0..(S - 1) /\ P - 1 >= 0 /\ 0 \in Nat
      BY <1>0
    <3> QED BY <1>0, <3>1, DivModIs DEF GoMod
  <2> QED BY <1>0, <1>3, <1>5, <2>2, <2>3 DEF ChainStart
<1>6. CASE k = 3
  <2>1. GoMod(-1 + 0, S) = -1
    BY <1>0, <1>1 DEF GoMod
  <2>2. ChainIndex(0, 3) = -1
    BY <1>2, <2>1 DEF ChainIndex
  <2> QED BY <1>3, <1>6, <2>2 DEF ChainStart
<1> QED BY <1>4, <1>5, <1>6, PositionsAssumption DEF Strand

-----------------------------------------------------------------------------
(* A block is entangled *)

\* The cached parity of a block's chain leads to the block, or the block is the chain's
\* first and there is none.
LEMMA CacheMeets ==
  ASSUME Square, TypeInv, CacheInv, NEW k \in strands, index + 1 <= chunkNum
  PROVE  LET i == index + 1
             last == cached[k][ChainIndex(i, k)]
         IN  \/ HeldBack(i, k) /\ last = NoParity
             \/ /\ ~HeldBack(i, k)
                /\ LastIs(k, ChainIndex(i, k), last) /\ ForwardNeighbor(last.left, k) = i
<1> DEFINE i == index + 1
           c == ChainIndex(i, k)
           last == cached[k][c]
<1>1. /\ index \in Nat /\ i \in Nat \ {0} /\ k \in Strand
      /\ \A j \in 1..index : j \in Nat \ {0} /\ j < i
  BY EntanglerAssumption DEF TypeInv
<1>2. c \in Chains(k)
  BY <1>1, ChainOfBlock
<1>3. /\ StartOf(k, c) \in 1..S /\ StartOf(k, c) <= i /\ ChainIndex(StartOf(k, c), k) = c
      /\ HeldBack(i, k) <=> i = StartOf(k, c)
  BY <1>1, StartLeast, StartAt, ChainIs
<1>4. IF Begun(k, c) THEN LastIs(k, c, last) ELSE last = NoParity
  BY <1>2 DEF CacheInv
<1>5. CASE Begun(k, c)
  <2>1. PICK j \in 1..index : ChainIndex(j, k) = c
    BY <1>5 DEF Begun
  <2>2. StartOf(k, c) <= j /\ j < i
    BY <1>1, <2>1, StartLeast
  <2>3. ~HeldBack(i, k)
    BY <1>1, <1>3, <2>1, <2>2
  <2>4. last.left \in 1..index /\ ChainIndex(last.left, k) = c
        /\ last.right = ForwardNeighbor(last.left, k) /\ last.right > index
    BY <1>4, <1>5 DEF LastIs
  <2>5. PICK l \in 1..index : l = last.left
    BY <2>4
  <2> HIDE DEF c, i, last
  <2>6. ForwardNeighbor(l, k) <= i
    BY <1>1, <2>4, <2>5, NextOnChain DEF c
  <2>7. ForwardNeighbor(l, k) \in Nat
    BY <1>1, <2>5, ForwardNat
  <2>8. ForwardNeighbor(l, k) = i
    BY <1>1, <2>4, <2>5, <2>6, <2>7 DEF i
  <2> QED BY <1>4, <1>5, <2>3, <2>5, <2>8 DEF c, i, last
<1>6. CASE ~Begun(k, c)
  <2>1. StartOf(k, c) \notin 1..index
    BY <1>3, <1>6 DEF Begun
  <2>2. StartOf(k, c) = i
    BY <1>1, <1>3, <2>1
  <2> QED BY <1>3, <1>4, <1>6, <2>2
<1> QED BY <1>5, <1>6

LEMMA EntangledIs ==
  ASSUME Square, TypeInv, CacheInv, NEW k \in strands, index + 1 <= chunkNum
  PROVE  LET i == index + 1
             b == Entangled(i, k)
         IN  /\ b.left = i /\ b.strand = k /\ b.right = ForwardNeighbor(i, k)
             /\ HeldBack(i, k) => b = First(i, k)
             /\ ~HeldBack(i, k) => InChain(b)
<1> DEFINE i == index + 1
           last == cached[k][ChainIndex(i, k)]
           b == Entangled(i, k)
<1>1. b = [left |-> i, right |-> ForwardNeighbor(i, k), strand |-> k,
           data |-> SymDiff({i}, last.data)]
  BY DEF Entangled
<1>2. \/ HeldBack(i, k) /\ last = NoParity
      \/ /\ ~HeldBack(i, k)
         /\ LastIs(k, ChainIndex(i, k), last) /\ ForwardNeighbor(last.left, k) = i
  BY CacheMeets
<1> HIDE DEF i, last, b
<1>3. CASE HeldBack(i, k) /\ last = NoParity
  <2>1. SymDiff({i}, last.data) = {i}
    BY <1>3 DEF NoParity, SymDiff
  <2> QED BY <1>1, <1>3, <2>1 DEF First, i, b
<1>4. CASE /\ ~HeldBack(i, k)
           /\ LastIs(k, ChainIndex(i, k), last) /\ ForwardNeighbor(last.left, k) = i
  <2>1. last.left \in 1..chunkNum
    BY <1>4, EntanglerAssumption DEF LastIs, TypeInv
  <2>2. IF HeldBack(last.left, k) THEN last.data = {last.left} ELSE last \in emitted
    BY <1>4 DEF LastIs
  <2>3. last.strand = k
    BY <1>4 DEF LastIs
  <2>4. b.left = i /\ b.strand = k /\ b.data = SymDiff({i}, last.data)
    BY <1>1
  <2>5. InChain(b)
    BY <1>4, <2>1, <2>2, <2>3, <2>4 DEF InChain
  <2> QED BY <1>1, <1>4, <2>5 DEF i, b
<1> QED BY <1>2, <1>3, <1>4

LEMMA EntangleCaches ==
  ASSUME Square, TypeInv, CacheInv, EntangleSingleBlock
  PROVE  CacheInv'
<1>0. PICK i \in Nat \ {0} : i = index + 1
  BY EntanglerAssumption DEF TypeInv
<1>1. /\ index' = i /\ i <= chunkNum /\ index \in Nat /\ chunkNum' = chunkNum
      /\ strands' = strands /\ strands \subseteq Strand
      /\ 1..i = 1..index \cup {i}
  BY <1>0, EntanglerAssumption DEF TypeInv, EntangleSingleBlock
<1>2. emitted \subseteq emitted'
  BY DEF EntangleSingleBlock
<1> SUFFICES ASSUME NEW k \in strands, NEW c \in Chains(k)
             PROVE  IF Begun(k, c)' THEN LastIs(k, c, cached[k][c])'
                    ELSE cached'[k][c] = NoParity
  BY <1>1 DEF CacheInv
<1>3. k \in Strand /\ ChainIndex(i, k) \in Chains(k)
  BY <1>1, ChainOfBlock
<1>4. cached'[k] = [cached[k] EXCEPT ![ChainIndex(i, k)] = Entangled(i, k)]
  BY <1>0, <1>3 DEF EntangleSingleBlock
<1>5. cached[k] \in [Chains(k) -> Parity(chunkNum)]
  BY <1>3 DEF TypeInv
<1>6. CASE c = ChainIndex(i, k)
  <2>1. PICK b : b = Entangled(i, k)
    OBVIOUS
  <2>2. cached'[k][c] = b
    BY <1>3, <1>4, <1>5, <1>6, <2>1
  <2>3. /\ b.left = i /\ b.strand = k /\ b.right = ForwardNeighbor(i, k)
        /\ HeldBack(i, k) => b = First(i, k)
    BY <1>0, <1>1, <2>1, EntangledIs
  <2>4. ForwardNeighbor(i, k) > i
    BY <1>3, ForwardAt
  <2>5. IF HeldBack(i, k) THEN b.data = {i} ELSE b \in emitted'
    <3>1. CASE HeldBack(i, k)
      BY <2>3, <3>1 DEF First
    <3>2. CASE ~HeldBack(i, k)
      BY <1>0, <2>1, <3>2 DEF EntangleSingleBlock
    <3> QED BY <3>1, <3>2
  <2>6. i \in 1..index'
    BY <1>1
  <2>7. Begun(k, c)'
    BY <1>6, <2>6 DEF Begun
  <2>8. LastIs(k, c, b)'
    BY <1>1, <1>6, <2>3, <2>4, <2>5, <2>6 DEF LastIs
  <2>9. LastIs(k, c, cached[k][c])'
    BY <2>2, <2>8 DEF LastIs
  <2> QED BY <2>7, <2>9
<1>7. CASE c # ChainIndex(i, k)
  <2>1. PICK b : b = cached[k][c]
    OBVIOUS
  <2>2. cached'[k][c] = b
    BY <1>4, <1>5, <1>7, <2>1
  <2>3. Begun(k, c)' <=> Begun(k, c)
    BY <1>1, <1>7 DEF Begun
  <2>4. IF Begun(k, c) THEN LastIs(k, c, b) ELSE b = NoParity
    BY <2>1 DEF CacheInv
  <2>5. CASE Begun(k, c)
    <3>1. /\ b.left \in 1..index /\ ChainIndex(b.left, k) = c
          /\ b.strand = k /\ b.right = ForwardNeighbor(b.left, k) /\ b.right > index
          /\ IF HeldBack(b.left, k) THEN b.data = {b.left} ELSE b \in emitted
      BY <2>4, <2>5 DEF LastIs
    <3>2. b.right \in Nat /\ ChainIndex(b.right, k) = c
      BY <1>3, <3>1, ForwardAt
    <3>3. b.right > i
      BY <1>0, <1>1, <1>7, <3>1, <3>2
    <3>4. LastIs(k, c, b)'
      BY <1>1, <1>2, <3>1, <3>3 DEF LastIs
    <3>5. LastIs(k, c, cached[k][c])'
      BY <2>2, <3>4 DEF LastIs
    <3> QED BY <2>3, <2>5, <3>5
  <2>6. CASE ~Begun(k, c)
    BY <2>2, <2>3, <2>4, <2>6
  <2> QED BY <2>5, <2>6
<1> QED BY <1>6, <1>7

LEMMA EntangleWraps ==
  ASSUME Square, TypeInv, CacheInv, WrapInv, EntangleSingleBlock
  PROVE  WrapInv'
<1>0. PICK i \in Nat \ {0} : i = index + 1
  BY EntanglerAssumption DEF TypeInv
<1>1. /\ index' = i /\ i <= chunkNum /\ index \in Nat
      /\ strands' = strands /\ strands \subseteq Strand
  BY <1>0, EntanglerAssumption DEF TypeInv, EntangleSingleBlock
<1> SUFFICES ASSUME NEW k \in strands, NEW j \in 1..MaxChainNumPerStrand
             PROVE  toWrap'[k][j] = IF j <= i /\ HeldBack(j, k) THEN First(j, k) ELSE NoParity
  BY <1>1 DEF WrapInv
<1>2. toWrap[k][j] = IF j <= index /\ HeldBack(j, k) THEN First(j, k) ELSE NoParity
  BY DEF WrapInv
<1>3. toWrap'[k] = IF HeldBack(i, k) THEN [toWrap[k] EXCEPT ![i] = Entangled(i, k)]
                   ELSE toWrap[k]
  BY <1>0, <1>1 DEF EntangleSingleBlock
<1>4. toWrap[k] \in [1..MaxChainNumPerStrand -> Parity(chunkNum)] /\ j \in Nat
  BY <1>1, PositionsAssumption DEF TypeInv, MaxChainNumPerStrand
<1>5. HeldBack(i, k) => Entangled(i, k) = First(i, k)
  BY <1>0, <1>1, EntangledIs
<1>6. CASE j = i
  <2>1. ~(j <= index)
    BY <1>0, <1>1, <1>6
  <2>2. CASE HeldBack(i, k)
    <3>1. toWrap'[k] = [toWrap[k] EXCEPT ![i] = Entangled(i, k)]
      BY <1>3, <2>2
    <3>2. toWrap'[k][i] = Entangled(i, k)
      BY <1>4, <1>6, <3>1
    <3>3. j <= i /\ HeldBack(j, k) /\ First(j, k) = Entangled(i, k)
      BY <1>5, <1>6, <2>2
    <3> QED BY <1>6, <3>2, <3>3
  <2>3. CASE ~HeldBack(i, k)
    BY <1>2, <1>3, <1>6, <2>1, <2>3
  <2> QED BY <2>2, <2>3
<1>7. CASE j # i
  <2>1. j <= i <=> j <= index
    BY <1>0, <1>1, <1>4, <1>7
  <2>2. toWrap'[k][j] = toWrap[k][j]
    BY <1>3, <1>4, <1>7
  <2> QED BY <1>2, <2>1, <2>2
<1> QED BY <1>6, <1>7

\* What a parity is made of stays, as no parity goes away.
LEMMA MadeStays ==
  ASSUME NEW b, InChain(b) \/ ClosesChain(b), emitted \subseteq emitted', chunkNum' = chunkNum
  PROVE  (InChain(b) => InChain(b)') /\ (ClosesChain(b) => ClosesChain(b)')
<1>1. ASSUME InChain(b) PROVE InChain(b)'
  BY <1>1 DEF InChain
<1>2. ASSUME ClosesChain(b) PROVE ClosesChain(b)'
  BY <1>2 DEF ClosesChain
<1> QED BY <1>1, <1>2

LEMMA EntangleMakes ==
  ASSUME Square, TypeInv, PhaseInv, CacheInv, AllMade, OneMade, NoneMissing,
         EntangleSingleBlock
  PROVE  AllMade' /\ OneMade' /\ NoneMissing'
<1>0. PICK i \in Nat \ {0} : i = index + 1
  BY EntanglerAssumption DEF TypeInv
<1>1. /\ index' = i /\ i <= chunkNum /\ index \in Nat /\ chunkNum' = chunkNum
      /\ strands' = strands /\ strands \subseteq Strand
      /\ 1..i = 1..index \cup {i} /\ i \notin 1..index
  BY <1>0, EntanglerAssumption DEF TypeInv, EntangleSingleBlock
<1>2. emitted' = emitted \cup {Entangled(i, k) : k \in {j \in strands : ~HeldBack(i, j)}}
  BY <1>0 DEF EntangleSingleBlock
<1>3. emitted \subseteq emitted'
  BY <1>2
<1>4. ASSUME NEW k \in strands
      PROVE  ~Passed(k, ChainIndex(i, k)) /\ \A j \in 1..index : ~Passed(k, ChainIndex(j, k))
  <2>1. chain = <<1, 0>>
    BY DEF EntangleSingleBlock, PhaseInv
  <2>2. k \in Nat /\ k >= 1
    BY <1>1, PositionsAssumption DEF Strand
  <2>3. ASSUME NEW j \in Nat \ {0} PROVE ~Passed(k, ChainIndex(j, k))
    <3>1. ChainIndex(j, k) \in 0..(S - 1) /\ S \in Nat
      BY <1>1, ChainIs, PositionsAssumption
    <3> QED BY <2>1, <2>2, <3>1 DEF Passed
  <2> QED BY <1>1, <2>3
<1>5. ASSUME NEW b \in emitted
      PROVE  /\ b.strand \in strands /\ b.left \in 1..index /\ ~HeldBack(b.left, b.strand)
             /\ b.right = ForwardNeighbor(b.left, b.strand) /\ InChain(b)
  BY <1>4 DEF AllMade, ParityMade
<1>6. ASSUME NEW k \in strands, ~HeldBack(i, k)
      PROVE  /\ Entangled(i, k).left = i /\ Entangled(i, k).strand = k
             /\ Entangled(i, k).right = ForwardNeighbor(i, k) /\ InChain(Entangled(i, k))
             /\ Entangled(i, k) \in emitted'
  BY <1>0, <1>1, <1>2, <1>6, EntangledIs
<1>7. AllMade'
  <2> SUFFICES ASSUME NEW b \in emitted' PROVE ParityMade(b)'
    BY DEF AllMade
  <2>1. /\ b.strand \in strands /\ b.left \in 1..i /\ ~HeldBack(b.left, b.strand)
        /\ b.right = ForwardNeighbor(b.left, b.strand) /\ InChain(b)
    <3>1. CASE b \in emitted
      BY <1>1, <1>5, <3>1
    <3>2. CASE b \notin emitted
      <4>1. PICK k \in strands : ~HeldBack(i, k) /\ b = Entangled(i, k)
        BY <1>2, <3>2
      <4> QED BY <1>1, <1>6, <4>1
    <3> QED BY <3>1, <3>2
  <2>2. InChain(b)'
    BY <1>1, <1>3, <2>1, MadeStays
  <2> QED BY <1>1, <2>1, <2>2 DEF ParityMade
<1>8. OneMade'
  <2> SUFFICES ASSUME NEW a \in emitted', NEW b \in emitted',
                      a.strand = b.strand, a.left = b.left
               PROVE  a = b
    BY DEF OneMade
  <2>1. ASSUME NEW x \in emitted'
        PROVE  IF x.left = i THEN x = Entangled(i, x.strand) ELSE x \in emitted
    <3>1. CASE x \in emitted
      BY <1>1, <1>5, <3>1
    <3>2. CASE x \notin emitted
      <4>1. PICK k \in strands : ~HeldBack(i, k) /\ x = Entangled(i, k)
        BY <1>2, <3>2
      <4> QED BY <1>6, <4>1
    <3> QED BY <3>1, <3>2
  <2>2. CASE a.left = i
    BY <2>1, <2>2
  <2>3. CASE a.left # i
    BY <2>1, <2>3 DEF OneMade
  <2> QED BY <2>2, <2>3
<1>9. NoneMissing'
  <2>0. \A k \in strands, l \in 1..i : ~Passed(k, ChainIndex(l, k))'
    <3>1. chain' = chain
      BY DEF EntangleSingleBlock
    <3>2. ASSUME NEW k \in strands, NEW l \in 1..i PROVE ~Passed(k, ChainIndex(l, k))
      BY <1>1, <1>4
    <3> QED BY <3>1, <3>2 DEF Passed
  <2> SUFFICES ASSUME NEW k \in strands, NEW j \in 1..i, ~HeldBack(j, k)
               PROVE  \E a \in emitted' : a.strand = k /\ a.left = j
    BY <1>1, <2>0 DEF NoneMissing
  <2>1. CASE j = i
    BY <1>6, <2>1
  <2>2. CASE j # i
    <3>1. j \in 1..index /\ phase # "panic"
      BY <1>1, <2>2 DEF EntangleSingleBlock
    <3> QED BY <1>3, <3>1 DEF NoneMissing
  <2> QED BY <2>1, <2>2
<1> QED BY <1>7, <1>8, <1>9

-----------------------------------------------------------------------------
(* A chain is closed *)

\* The parity that closes a chain with a block on it.
ClosedChain(k, c, b) ==
  /\ b.strand = k /\ b.left \in 1..index /\ ChainIndex(b.left, k) = c
  /\ HeldBack(b.left, k) /\ ClosesChain(b)

LEMMA ClosedBegun ==
  ASSUME Square, TypeInv, PhaseInv, CacheInv, phase = "wrapping",
         NEW k \in strands, NEW c \in Chains(k), Begun(k, c)
  PROVE  LET last == cached[k][c] IN
         /\ ChainStart(last.right, k) \in 1..MaxChainNumPerStrand
         /\ ClosedChain(k, c, Closed(last, k))
<1>1. /\ index = chunkNum /\ index \in Nat /\ k \in Strand
      /\ \A j \in 1..index : j \in Nat \ {0}
  BY EntanglerAssumption DEF TypeInv, PhaseInv
<1>2. PICK last : last = cached[k][c]
  OBVIOUS
<1>3. LastIs(k, c, last)
  BY <1>2 DEF CacheInv
<1>4. PICK l \in 1..index : l = last.left
  BY <1>3 DEF LastIs
<1>5. /\ ChainIndex(l, k) = c /\ last.strand = k /\ last.right = ForwardNeighbor(l, k)
      /\ last.right > index
      /\ IF HeldBack(l, k) THEN last.data = {l} ELSE last \in emitted
  BY <1>3, <1>4 DEF LastIs
<1>6. PICK s \in 1..S : s = StartOf(k, c)
  BY <1>1, <1>5, StartLeast
<1>7. /\ s <= l /\ s \in 1..index /\ s \in Nat \ {0} /\ ChainIndex(s, k) = c
      /\ HeldBack(l, k) <=> l = s
      /\ HeldBack(s, k)
  <2>1. s <= l /\ s \in Nat \ {0} /\ ChainIndex(s, k) = c
    BY <1>1, <1>5, <1>6, StartLeast, StartAt, ChainIs
  <2>2. HeldBack(l, k) <=> l = s
    BY <1>1, <1>5, <1>6, StartLeast
  <2>3. HeldBack(s, k)
    BY <1>1, <1>6, <2>1, StartLeast
  <2> QED BY <1>1, <2>1, <2>2, <2>3
<1>8. ChainStart(last.right, k) = s
  BY <1>1, <1>4, <1>5, <1>6, ForwardAt, StartIs
<1>9. s \in 1..MaxChainNumPerStrand
  BY ChainsAre
<1>10. PICK f \in Nat : f = ForwardNeighbor(s, k)
  BY <1>1, <1>7, ForwardNat
<1>11. CASE f <= index
  <2>1. f > s
    BY <1>1, <1>7, <1>10, ForwardAt
  <2>2. IsValidIndex(f, index)
    BY <1>1, <1>7, <1>10, <1>11, <2>1 DEF IsValidIndex
  <2>3. Closed(last, k) = [left |-> s, right |-> f, strand |-> k,
                           data |-> SymDiff({s}, last.data)]
    BY <1>8, <1>10, <2>2 DEF Closed
  <2>4. l # s
    BY <1>1, <1>5, <1>10, <1>11
  <2>5. last \in emitted /\ last.left # s /\ last.right > chunkNum
    BY <1>1, <1>4, <1>5, <1>7, <2>4
  <2>6. PICK b : b = Closed(last, k)
    OBVIOUS
  <2>7. b.left = s /\ b.strand = k /\ b.data = SymDiff({s}, last.data)
    BY <2>3, <2>6
  <2>8. ClosesChain(b)
    BY <1>4, <1>5, <1>7, <2>5, <2>7 DEF ClosesChain
  <2>9. ClosedChain(k, c, b)
    BY <1>7, <2>7, <2>8 DEF ClosedChain
  <2> QED BY <1>2, <1>8, <1>9, <2>6, <2>9
<1>12. CASE f > index
  <2>1. l = s
    <3> SUFFICES ASSUME s < l PROVE FALSE
      BY <1>1, <1>7
    <3>1. f <= l
      BY <1>1, <1>5, <1>7, <1>10, NextOnChain
    <3> QED BY <1>1, <1>10, <1>12, <3>1
  <2>2. ~IsValidIndex(f, index)
    BY <1>1, <1>10, <1>12 DEF IsValidIndex
  <2>3. Closed(last, k) = [last EXCEPT !.right = s]
    BY <1>4, <1>8, <1>10, <2>1, <2>2 DEF Closed
  <2>4. last \in Parity(chunkNum)
    BY <1>1, <1>2 DEF TypeInv
  <2>5. PICK b : b = Closed(last, k)
    OBVIOUS
  <2>6. b.left = s /\ b.strand = k /\ b.data = {s}
    BY <1>4, <1>5, <1>7, <2>1, <2>3, <2>4, <2>5 DEF Parity
  <2>7. ClosesChain(b)
    BY <1>1, <1>10, <1>12, <2>6 DEF ClosesChain
  <2>8. ClosedChain(k, c, b)
    BY <1>7, <2>6, <2>7 DEF ClosedChain
  <2> QED BY <1>2, <1>8, <1>9, <2>5, <2>8
<1> QED BY <1>1, <1>10, <1>11, <1>12

\* A chain without a block cannot be closed, and there is one in a small file only.
LEMMA ClosedEmpty ==
  ASSUME Square, TypeInv, PhaseInv, CacheInv, WrapInv, phase = "wrapping",
         NEW k \in strands, NEW c \in Chains(k), ~Begun(k, c)
  PROVE  LET last == cached[k][c] IN
         /\ chunkNum < P
         /\ \/ ChainStart(last.right, k) \notin 1..MaxChainNumPerStrand
            \/ Closed(last, k) = NoParity
<1>1. index = chunkNum /\ index \in Nat /\ k \in Strand /\ P = S /\ S \in Nat \ {0}
  BY EntanglerAssumption, PositionsAssumption DEF TypeInv, PhaseInv, Square
<1>2. cached[k][c] = NoParity
  BY DEF CacheInv
<1>3. index < P
  <2>1. c \in 0..(S - 1)
    BY ChainsAre
  <2>2. StartOf(k, c) \in 1..S /\ ChainIndex(StartOf(k, c), k) = c
    BY <1>1, <2>1, StartAt
  <2>3. StartOf(k, c) \notin 1..index
    BY <2>2 DEF Begun
  <2> QED BY <1>1, <2>2, <2>3
<1>4. CASE k # 2
  <2>1. ChainStart(NoParity.right, k) = 0
    BY <1>1, <1>4, NoStart
  <2> QED BY <1>1, <1>2, <1>3, <2>1
<1>5. CASE k = 2
  <2>1. ChainStart(NoParity.right, k) = P
    BY <1>1, <1>5, NoStart
  <2>2. ForwardNeighbor(P, k) > S /\ P \in 1..MaxChainNumPerStrand
    BY <1>1, StartLeast, ChainsAre
  <2>3. ~IsValidIndex(ForwardNeighbor(P, k), index)
    BY <1>1, <1>3, <2>2 DEF IsValidIndex
  <2>4. toWrap[k][P] = NoParity
    BY <1>1, <1>3, <2>2 DEF WrapInv
  <2>5. NoParity.left # P
    BY <1>1 DEF NoParity
  <2>6. Closed(NoParity, k) = NoParity
    BY <2>1, <2>3, <2>4, <2>5 DEF Closed
  <2> QED BY <1>1, <1>2, <1>3, <2>6
<1> QED BY <1>4, <1>5

\* What one step of the closing does to chain c of strand k.
Skips(k) == k \notin strands /\ emitted' = emitted /\ phase' = phase

Panics(k) == k \in strands /\ emitted' = emitted /\ phase' = "panic" /\ chunkNum < P

Closes(k, c) ==
  /\ k \in strands /\ phase' = phase
  /\ \E b : ClosedChain(k, c, b) /\ emitted' = emitted \cup {b}

Wraps(k, c) ==
  /\ chain = <<k, c>> /\ chain' = NextChain(k, c)
  /\ Skips(k) \/ Panics(k) \/ Closes(k, c)

LEMMA WrapDoes ==
  ASSUME Square, TypeInv, PhaseInv, CacheInv, WrapInv, WrapChain
  PROVE  \E k \in Strand : \E c \in Chains(k) : Wraps(k, c)
<1>0. PICK k \in Strand : chain[1] = k
  BY DEF WrapChain
<1>1. PICK c \in Chains(k) : chain[1] = k /\ chain[2] = c
  BY <1>0 DEF TypeInv, ChainInv
<1>2. phase = "wrapping" /\ chain' = NextChain(k, c)
  BY <1>1 DEF WrapChain
<1>3. PICK last : last = cached[k][c]
  OBVIOUS
<1>4. IF k \notin strands
        THEN UNCHANGED <<emitted, phase>>
      ELSE IF ChainStart(last.right, k) \notin 1..MaxChainNumPerStrand
        THEN phase' = "panic" /\ UNCHANGED emitted
      ELSE IF Closed(last, k) = NoParity
        THEN phase' = "panic" /\ UNCHANGED emitted
        ELSE emitted' = emitted \cup {Closed(last, k)} /\ UNCHANGED phase
  BY <1>1, <1>3 DEF WrapChain
<1>5. chain = <<k, c>>
  BY <1>1 DEF TypeInv, ChainInv
<1>6. CASE k \notin strands
  BY <1>2, <1>4, <1>5, <1>6 DEF Wraps, Skips
<1>7. CASE k \in strands /\ ~Begun(k, c)
  <2>1. /\ chunkNum < P
        /\ \/ ChainStart(last.right, k) \notin 1..MaxChainNumPerStrand
           \/ Closed(last, k) = NoParity
    BY <1>2, <1>3, <1>7, ClosedEmpty
  <2>2. phase' = "panic" /\ emitted' = emitted
    BY <1>4, <1>7, <2>1
  <2> QED BY <1>2, <1>5, <1>7, <2>1, <2>2 DEF Wraps, Panics
<1>8. CASE k \in strands /\ Begun(k, c)
  <2>1. PICK b : b = Closed(last, k)
    OBVIOUS
  <2>2. ChainStart(last.right, k) \in 1..MaxChainNumPerStrand /\ ClosedChain(k, c, b)
    BY <1>2, <1>3, <1>8, <2>1, ClosedBegun
  <2>3. b # NoParity
    BY <2>2, EntanglerAssumption DEF ClosedChain, NoParity, TypeInv
  <2>4. emitted' = emitted \cup {b} /\ phase' = phase
    BY <1>4, <1>8, <2>1, <2>2, <2>3
  <2> QED BY <1>2, <1>5, <1>8, <2>2, <2>4 DEF Wraps, Closes
<1> QED BY <1>6, <1>7, <1>8

\* After a chain comes the next one, strand after strand.
LEMMA PassedNext ==
  ASSUME Square, NEW k \in Strand, NEW c \in Chains(k), chain = <<k, c>>,
         chain' = NextChain(k, c), NEW j \in Strand, NEW d \in Chains(j)
  PROVE  Passed(j, d)' <=> Passed(j, d) \/ (j = k /\ d = c)
<1>1. c \in 0..(S - 1) /\ d \in 0..(S - 1) /\ Chains(k) = 0..(S - 1) /\ S \in Nat \ {0}
      /\ j \in Nat /\ k \in Nat
  BY ChainsAre, PositionsAssumption DEF Strand
<1>2. CASE c + 1 \in Chains(k)
  <2>1. chain' = <<k, c + 1>>
    BY <1>2 DEF NextChain
  <2> QED BY <1>1, <2>1 DEF Passed
<1>3. CASE c + 1 \notin Chains(k)
  <2>1. chain' = <<k + 1, 0>>
    BY <1>3 DEF NextChain
  <2>2. d <= c
    BY <1>1, <1>3
  <2> QED BY <1>1, <2>1, <2>2 DEF Passed
<1> QED BY <1>2, <1>3

LEMMA WrapMakes ==
  ASSUME Square, EntInv, WrapChain
  PROVE  AllMade' /\ OneMade' /\ NoneMissing' /\ OnlySmallPanic'
<1>0. TypeInv /\ PhaseInv /\ CacheInv /\ WrapInv /\ AllMade /\ OneMade /\ NoneMissing
      /\ OnlySmallPanic
  BY DEF EntInv
<1>1a. PICK k \in Strand : \E c \in Chains(k) : Wraps(k, c)
  BY <1>0, WrapDoes
<1>1b. PICK c \in Chains(k) : Wraps(k, c)
  BY <1>1a
<1>1. /\ chain = <<k, c>> /\ chain' = NextChain(k, c)
      /\ Skips(k) \/ Panics(k) \/ Closes(k, c)
  BY <1>1b DEF Wraps
<1>2. /\ chunkNum' = chunkNum /\ strands' = strands /\ index' = index /\ phase = "wrapping"
      /\ strands \subseteq Strand /\ \A i \in 1..index : i \in Nat \ {0}
      /\ emitted \subseteq emitted'
  BY <1>0, <1>1, EntanglerAssumption DEF TypeInv, WrapChain, Skips, Panics, Closes
<1>3. \A j \in Strand : \A d \in Chains(j) : Passed(j, d)' <=> Passed(j, d) \/ (j = k /\ d = c)
  BY <1>1, PassedNext
<1>4. ~Passed(k, c)
  BY <1>1, ChainsAre, PositionsAssumption DEF Passed, Strand
<1>5. \A j \in strands, i \in 1..index : j \in Strand /\ ChainIndex(i, j) \in Chains(j)
  BY <1>2, ChainOfBlock
<1>6. ASSUME NEW b \in emitted PROVE ParityMade(b)'
  <2>1. /\ b.strand \in strands /\ b.left \in 1..index
        /\ IF HeldBack(b.left, b.strand)
             THEN Passed(b.strand, ChainIndex(b.left, b.strand)) /\ ClosesChain(b)
             ELSE b.right = ForwardNeighbor(b.left, b.strand) /\ InChain(b)
    BY <1>0 DEF AllMade, ParityMade
  <2>2. (InChain(b) => InChain(b)') /\ (ClosesChain(b) => ClosesChain(b)')
    BY <1>2, <2>1, MadeStays
  <2>3. Passed(b.strand, ChainIndex(b.left, b.strand)) =>
          Passed(b.strand, ChainIndex(b.left, b.strand))'
    BY <1>3, <1>5, <2>1
  <2> QED BY <1>2, <2>1, <2>2, <2>3 DEF ParityMade
<1>7. CASE Skips(k) \/ Panics(k)
  <2>1. AllMade' /\ OneMade'
    BY <1>0, <1>6, <1>7 DEF Skips, Panics, AllMade, OneMade
  <2>2. OnlySmallPanic'
    BY <1>0, <1>1, <1>2, <1>7 DEF Skips, Panics, OnlySmallPanic
  <2>3. NoneMissing'
    <3>1. CASE phase' = "panic"
      BY <3>1 DEF NoneMissing
    <3>2. CASE phase' # "panic" /\ k \notin strands
      <4>1. \A j \in strands, i \in 1..index :
              Passed(j, ChainIndex(i, j))' <=> Passed(j, ChainIndex(i, j))
        BY <1>3, <1>5, <3>2
      <4>2. phase # "panic"
        BY <1>2
      <4> QED BY <1>0, <1>2, <1>7, <3>2, <4>1, <4>2 DEF Skips, Panics, NoneMissing
    <3> QED BY <1>7, <3>1, <3>2 DEF Skips, Panics
  <2> QED BY <2>1, <2>2, <2>3
<1>8. CASE Closes(k, c)
  <2>1. PICK b : ClosedChain(k, c, b) /\ emitted' = emitted \cup {b}
    BY <1>8 DEF Closes
  <2>2. /\ b.strand = k /\ b.left \in 1..index /\ ChainIndex(b.left, k) = c
        /\ HeldBack(b.left, k) /\ ClosesChain(b)
    BY <2>1 DEF ClosedChain
  <2>3. ParityMade(b)'
    <3>1. ClosesChain(b)'
      BY <1>2, <2>2, MadeStays
    <3>2. Passed(k, c)'
      BY <1>3
    <3> QED BY <1>2, <1>8, <2>2, <3>1, <3>2 DEF ParityMade, Closes
  <2>4. AllMade'
    BY <1>6, <2>1, <2>3 DEF AllMade
  <2>5. OneMade'
    <3>1. \A a \in emitted : ~(a.strand = b.strand /\ a.left = b.left)
      BY <1>0, <1>4, <2>2 DEF AllMade, ParityMade
    <3>2. \A a, d \in emitted : a.strand = d.strand /\ a.left = d.left => a = d
      BY <1>0 DEF OneMade
    <3> QED BY <2>1, <3>1, <3>2 DEF OneMade
  <2>6. NoneMissing'
    <3> SUFFICES ASSUME NEW j \in strands, NEW i \in 1..index,
                        ~HeldBack(i, j) \/ Passed(j, ChainIndex(i, j))'
                 PROVE  \E a \in emitted' : a.strand = j /\ a.left = i
      BY <1>2 DEF NoneMissing
    <3>1. CASE ~HeldBack(i, j) \/ Passed(j, ChainIndex(i, j))
      BY <1>0, <1>2, <3>1 DEF NoneMissing
    <3>2. CASE HeldBack(i, j) /\ ~Passed(j, ChainIndex(i, j))
      <4>1. j = k /\ ChainIndex(i, j) = c
        BY <1>3, <1>5, <3>2
      <4>2. i = b.left
        <5>1. HeldBack(i, k) /\ ChainIndex(i, k) = c /\ i \in Nat \ {0}
          BY <1>2, <3>2, <4>1
        <5>2. HeldBack(b.left, k) /\ ChainIndex(b.left, k) = c
          BY <2>2
        <5> QED BY <5>1, <5>2, StartIs DEF HeldBack
      <4> QED BY <2>1, <2>2, <4>1, <4>2
    <3> QED BY <3>1, <3>2
  <2>7. OnlySmallPanic'
    BY <1>2, <1>8 DEF Closes, OnlySmallPanic, Closes
  <2> QED BY <2>4, <2>5, <2>6, <2>7
<1> QED BY <1>1, <1>7, <1>8

-----------------------------------------------------------------------------
(* The invariant *)

LEMMA InitEnt == Square /\ Init => EntInv
<1> SUFFICES ASSUME Square, Init PROVE EntInv
  OBVIOUS
<1>1. TypeInv
  BY InitType
<1>2. PhaseInv /\ AllMade /\ OneMade /\ NoneMissing /\ OnlySmallPanic
  BY DEF Init, PhaseInv, AllMade, OneMade, NoneMissing, OnlySmallPanic
<1>3. strands \subseteq Strand
  BY <1>1, EntanglerAssumption DEF TypeInv
<1>4. CacheInv
  <2> SUFFICES ASSUME NEW k \in strands, NEW c \in Chains(k)
               PROVE  ~Begun(k, c) /\ cached[k][c] = NoParity
    BY DEF CacheInv
  <2>1. ~Begun(k, c)
    BY DEF Init, Begun
  <2>2. cached[k][c] = NoParity
    BY <1>3 DEF Init
  <2> QED BY <2>1, <2>2
<1>5. WrapInv
  <2> SUFFICES ASSUME NEW k \in strands, NEW i \in 1..MaxChainNumPerStrand
               PROVE  ~(i <= index) /\ toWrap[k][i] = NoParity
    BY DEF WrapInv
  <2>1. ~(i <= index)
    BY PositionsAssumption DEF Init, MaxChainNumPerStrand
  <2>2. toWrap[k][i] = NoParity
    BY <1>3 DEF Init
  <2> QED BY <2>1, <2>2
<1> QED BY <1>1, <1>2, <1>4, <1>5 DEF EntInv

\* A step that moves nothing the parities speak of.
LEMMA EntStays ==
  ASSUME EntInv, UNCHANGED <<chunkNum, strands, index, cached, toWrap, chain, emitted>>
  PROVE  CacheInv' /\ WrapInv' /\ AllMade' /\ OneMade'
<1>1. CacheInv'
  BY DEF EntInv, CacheInv, Begun, LastIs
<1>2. WrapInv'
  BY DEF EntInv, WrapInv
<1>3. AllMade'
  BY DEF EntInv, AllMade, ParityMade, Passed, InChain, ClosesChain
<1>4. OneMade'
  BY DEF EntInv, OneMade
<1> QED BY <1>1, <1>2, <1>3, <1>4

LEMMA StepEnt == Square /\ EntInv /\ [Next]_vars => EntInv'
<1> SUFFICES ASSUME Square, EntInv, [Next]_vars PROVE EntInv'
  OBVIOUS
<1>0. /\ TypeInv /\ PhaseInv /\ CacheInv /\ WrapInv
      /\ AllMade /\ OneMade /\ NoneMissing /\ OnlySmallPanic
  BY DEF EntInv
<1>1. TypeInv'
  BY <1>0, StepType
<1>2. CASE EntangleSingleBlock
  <2>1. CacheInv' /\ WrapInv' /\ AllMade' /\ OneMade' /\ NoneMissing'
    BY <1>0, <1>2, EntangleCaches, EntangleWraps, EntangleMakes
  <2>2. PhaseInv' /\ OnlySmallPanic'
    BY <1>0, <1>2 DEF EntangleSingleBlock, PhaseInv, OnlySmallPanic
  <2> QED BY <1>1, <2>1, <2>2 DEF EntInv
<1>3. CASE DataEnds
  <2>1. CacheInv' /\ WrapInv' /\ AllMade' /\ OneMade'
    BY <1>3, EntStays DEF DataEnds
  <2>2. PhaseInv' /\ OnlySmallPanic'
    BY <1>0, <1>3 DEF DataEnds, PhaseInv, OnlySmallPanic
  <2>3. NoneMissing'
    BY <1>0, <1>3 DEF DataEnds, NoneMissing, Passed
  <2> QED BY <1>1, <2>1, <2>2, <2>3 DEF EntInv
<1>4. CASE WrapChain
  <2>1. AllMade' /\ OneMade' /\ NoneMissing' /\ OnlySmallPanic'
    BY <1>4, WrapMakes
  <2>2. UNCHANGED <<chunkNum, strands, index, cached, toWrap>> /\ emitted \subseteq emitted'
    BY <1>4 DEF WrapChain
  <2>3. CacheInv'
    BY <1>0, <2>2 DEF CacheInv, Begun, LastIs
  <2>4. WrapInv'
    BY <1>0, <2>2 DEF WrapInv
  <2>5. PhaseInv'
    <3>1. phase = "wrapping" /\ phase' \in {"wrapping", "panic"}
      BY <1>4 DEF WrapChain
    <3> QED BY <1>0, <2>2, <3>1 DEF PhaseInv
  <2> QED BY <1>1, <2>1, <2>3, <2>4, <2>5 DEF EntInv
<1>5. CASE CloseParities
  <2>1. CacheInv' /\ WrapInv' /\ AllMade' /\ OneMade'
    BY <1>5, EntStays DEF CloseParities
  <2>2. PhaseInv' /\ OnlySmallPanic'
    BY <1>0, <1>5 DEF CloseParities, PhaseInv, OnlySmallPanic
  <2>3. NoneMissing'
    BY <1>0, <1>5 DEF CloseParities, NoneMissing, Passed
  <2> QED BY <1>1, <2>1, <2>2, <2>3 DEF EntInv
<1>6. CASE UNCHANGED vars
  <2>1. CacheInv' /\ WrapInv' /\ AllMade' /\ OneMade'
    BY <1>6, EntStays DEF vars
  <2>2. PhaseInv' /\ OnlySmallPanic' /\ NoneMissing'
    BY <1>0, <1>6 DEF vars, PhaseInv, OnlySmallPanic, NoneMissing, Passed
  <2> QED BY <1>1, <2>1, <2>2 DEF EntInv
<1> QED BY <1>2, <1>3, <1>4, <1>5, <1>6 DEF Next

LEMMA EntHolds ==
  ASSUME Square
  PROVE  Spec => []EntInv
<1>1. Init => EntInv
  BY InitEnt
<1>2. EntInv /\ [Next]_vars => EntInv'
  BY StepEnt
<1> QED BY <1>1, <1>2, PTL DEF Spec

\* The places a parity is stored at, strand and block, get one parity each: nothing that
\* an upload puts in the order of the channel is overwritten by another parity.
THEOREM PlacesGetOne ==
  ASSUME Square
  PROVE  Spec => []OneParityPerPlace
<1>1. EntInv => OneParityPerPlace
  BY DEF EntInv, OneMade, OneParityPerPlace
<1> QED BY <1>1, EntHolds, PTL

-----------------------------------------------------------------------------
(* The code: what a chain of parities comes to *)

LEMMA LeastIn ==
  ASSUME NEW X \in SUBSET Nat, X # {}
  PROVE  \E m \in X : \A x \in X : m <= x
<1>1. PICK m \in X : \A y \in X : <<y, m>> \notin OpToRel(<, Nat)
  BY WFMin, NatLessThanWellFounded
<1>2. ASSUME NEW y \in X PROVE m <= y
  <2>1. m \in Nat /\ y \in Nat
    OBVIOUS
  <2>2. <<y, m>> \in OpToRel(<, Nat) <=> y < m
    <3> DEFINE yx == <<y, m>>
    <3>1. yx \in Nat \X Nat /\ yx[1] = y /\ yx[2] = m
      BY <2>1
    <3> HIDE DEF yx
    <3>2. yx \in OpToRel(<, Nat) <=> yx[1] < yx[2]
      BY <3>1, Zenon DEF OpToRel
    <3>3. yx[1] < yx[2] <=> y < m
      BY <3>1
    <3> QED BY <3>2, <3>3, Zenon DEF yx
  <2>3. ~(y < m)
    BY <1>1, <2>2, Zenon
  <2> QED BY <2>1, <2>3
<1> QED BY <1>2

\* A set of numbers under a bound has a greatest one.
LEMMA GreatestIn ==
  ASSUME NEW X \in SUBSET Nat, X # {}, NEW b \in Nat, \A x \in X : x <= b
  PROVE  \E m \in X : \A x \in X : x <= m
<1> DEFINE bounds == {m \in Nat : \A x \in X : x <= m}
<1>1. PICK m \in bounds : \A y \in bounds : m <= y
  <2>1. bounds \in SUBSET Nat /\ bounds # {}
    OBVIOUS
  <2> HIDE DEF bounds
  <2> QED BY <2>1, LeastIn
<1>2. m \in X
  <2> SUFFICES ASSUME m \notin X PROVE FALSE
    OBVIOUS
  <2>1. m # 0
    <3>1. PICK x \in X : TRUE
      OBVIOUS
    <3> QED BY <1>1, <3>1
  <2>2. m - 1 \in Nat /\ \A x \in X : x <= m - 1
    BY <1>1, <2>1
  <2>3. m - 1 \in bounds
    BY <2>2
  <2>4. m <= m - 1
    BY <1>1, <2>3
  <2> QED BY <1>1, <2>4
<1> QED BY <1>1, <1>2

Earlier(i, k, n) == {b \in Before(i, k, n) : b < i}

IsPrefix(f, k, n, m) ==
  f = [i \in 1..m |-> {i} \cup UNION {f[j] : j \in Earlier(i, k, n)}]

\* The recursion of Prefix has a solution.
LEMMA PrefixExists ==
  ASSUME NEW k, NEW n \in Nat, NEW l \in Nat
  PROVE  \E f : IsPrefix(f, k, n, l)
<1> DEFINE X == {m \in Nat : ~\E f : IsPrefix(f, k, n, m)}
<1> SUFFICES X = {}
  OBVIOUS
<1> SUFFICES ASSUME X # {} PROVE FALSE
  OBVIOUS
<1>1. PICK m \in X : \A x \in X : m <= x
  BY LeastIn
<1>2. m \in Nat /\ ~\E f : IsPrefix(f, k, n, m)
  OBVIOUS
<1>3. CASE m = 0
  <2> DEFINE f == [i \in 1..0 |-> {i}]
  <2>1. IsPrefix(f, k, n, 0)
    BY DEF IsPrefix
  <2> QED BY <1>2, <1>3, <2>1
<1>4. CASE m # 0
  <2>1. m - 1 \in Nat /\ m - 1 \notin X
    BY <1>1, <1>2, <1>4
  <2>2. PICK g : IsPrefix(g, k, n, m - 1)
    BY <2>1
  <2> DEFINE f == [i \in 1..m |-> {i} \cup UNION {g[j] : j \in Earlier(i, k, n)}]
  <2>3. ASSUME NEW i \in 1..m, NEW j \in Earlier(i, k, n) PROVE f[j] = g[j]
    <3>1. j \in 1..(m - 1) /\ j \in 1..m
      BY <1>2 DEF Earlier, Before
    <3>2. g[j] = {j} \cup UNION {g[x] : x \in Earlier(j, k, n)}
      BY <2>2, <3>1 DEF IsPrefix
    <3> QED BY <3>1, <3>2
  <2>4. f = [i \in 1..m |-> {i} \cup UNION {f[j] : j \in Earlier(i, k, n)}]
    <3> HIDE DEF f
    <3>1. f = [i \in 1..m |-> {i} \cup UNION {g[j] : j \in Earlier(i, k, n)}]
      BY DEF f
    <3>2. ASSUME NEW i \in 1..m
          PROVE  {g[j] : j \in Earlier(i, k, n)} = {f[j] : j \in Earlier(i, k, n)}
      BY <2>3
    <3> QED BY <3>1, <3>2
  <2>5. IsPrefix(f, k, n, m)
    BY <2>4 DEF IsPrefix
  <2> QED BY <1>2, <2>5
<1> QED BY <1>3, <1>4

LEMMA PrefixIs ==
  ASSUME NEW k, NEW n \in Nat, NEW i \in 1..n
  PROVE  Prefix(k, n)[i] = {i} \cup UNION {Prefix(k, n)[j] : j \in Earlier(i, k, n)}
<1> DEFINE f == CHOOSE h : IsPrefix(h, k, n, n)
<1>1. IsPrefix(f, k, n, n)
  BY PrefixExists
<1>2. Prefix(k, n) = f
  BY DEF Prefix, IsPrefix, Earlier
<1> HIDE DEF f
<1>3. f = [x \in 1..n |-> {x} \cup UNION {f[j] : j \in Earlier(x, k, n)}]
  BY <1>1 DEF IsPrefix
<1>4. f[i] = {i} \cup UNION {f[j] : j \in Earlier(i, k, n)}
  BY <1>3
<1> QED BY <1>2, <1>4

\* A chain of n blocks as the entangler closes it: the start is over the last, or alone,
\* and every other block is over the one before it.
Chained(f, k, n) ==
  \A i \in 1..n :
    IF HeldBack(i, k)
      THEN \/ f[i] = {i} /\ ForwardNeighbor(i, k) > n
           \/ \E j \in (1..n) \ {i} :
                /\ ChainIndex(j, k) = ChainIndex(i, k) /\ ForwardNeighbor(j, k) > n
                /\ f[i] = SymDiff({i}, f[j])
      ELSE \E j \in 1..n :
             /\ ForwardNeighbor(j, k) = i
             /\ f[i] = SymDiff({i}, IF HeldBack(j, k) THEN {j} ELSE f[j])

\* Nothing leads to the start of a chain.
LEMMA NoneBeforeStart ==
  ASSUME Square, NEW k \in Strand, NEW n \in Nat, NEW i \in 1..n, HeldBack(i, k)
  PROVE  Before(i, k, n) = {}
<1> SUFFICES ASSUME NEW j \in 1..n, ForwardNeighbor(j, k) = i PROVE FALSE
  BY DEF Before
<1>1. i \in Nat \ {0} /\ j \in Nat \ {0}
  OBVIOUS
<1>2. i > j /\ ChainIndex(i, k) = ChainIndex(j, k)
  BY <1>1, ForwardAt
<1>3. i = StartOf(k, ChainIndex(i, k)) /\ StartOf(k, ChainIndex(j, k)) <= j
  BY <1>1, StartLeast
<1>4. i <= j
  BY <1>2, <1>3
<1> QED BY <1>1, <1>2, <1>4

\* One block leads to another at most.
LEMMA OneBefore ==
  ASSUME Square, NEW k \in Strand, NEW n \in Nat, NEW i \in 1..n, NEW j \in 1..n,
         ForwardNeighbor(j, k) = i
  PROVE  Before(i, k, n) = {j} /\ Earlier(i, k, n) = {j} /\ j < i
         /\ ChainIndex(j, k) = ChainIndex(i, k)
<1>1. i \in Nat \ {0} /\ j \in Nat \ {0}
  OBVIOUS
<1>2. i > j /\ ChainIndex(i, k) = ChainIndex(j, k) /\ Column(i) = Column(j) + 1
  BY <1>1, ForwardAt
<1>3. ASSUME NEW l \in 1..n, ForwardNeighbor(l, k) = i PROVE l = j
  <2>1. l \in Nat \ {0}
    OBVIOUS
  <2>2. ChainIndex(i, k) = ChainIndex(l, k) /\ Column(i) = Column(l) + 1
    BY <1>3, <2>1, ForwardAt
  <2>3. Column(l) \in Nat /\ Column(j) \in Nat
    BY <1>1, <2>1, RowColumn
  <2>4. Column(l) = Column(j)
    BY <1>2, <2>2, <2>3
  <2> QED BY <1>1, <1>2, <2>1, <2>2, <2>4, OnePerColumn
<1>4. Before(i, k, n) = {j}
  BY <1>3 DEF Before
<1>5. Earlier(i, k, n) = {j}
  BY <1>2, <1>4 DEF Earlier
<1> QED BY <1>2, <1>4, <1>5

\* The blocks of a prefix are on its chain, and no later.
LEMMA PrefixIn ==
  ASSUME Square, NEW k \in Strand, NEW n \in Nat, NEW i \in 1..n, NEW x \in Prefix(k, n)[i]
  PROVE  x \in 1..i /\ ChainIndex(x, k) = ChainIndex(i, k)
<1> DEFINE In(l) == \A y \in Prefix(k, n)[l] : y \in 1..l /\ ChainIndex(y, k) = ChainIndex(l, k)
           X == {l \in Nat : l \in 1..n /\ ~In(l)}
<1> SUFFICES X = {}
  OBVIOUS
<1> SUFFICES ASSUME X # {} PROVE FALSE
  OBVIOUS
<1>1. PICK m \in X : \A l \in X : m <= l
  <2> HIDE DEF X
  <2>1. X \subseteq Nat
    BY DEF X
  <2> QED BY <2>1, LeastIn
<1>2. m \in 1..n /\ m \in Nat \ {0} /\ ~In(m)
  OBVIOUS
<1>3. PICK y \in Prefix(k, n)[m] : ~(y \in 1..m /\ ChainIndex(y, k) = ChainIndex(m, k))
  BY <1>2
<1>4. y \in {m} \cup UNION {Prefix(k, n)[j] : j \in Earlier(m, k, n)}
  BY <1>2, <1>3, PrefixIs
<1>5. y # m
  BY <1>2, <1>3
<1>6. PICK j \in Earlier(m, k, n) : y \in Prefix(k, n)[j]
  BY <1>4, <1>5
<1>7. j \in 1..n /\ j < m /\ ForwardNeighbor(j, k) = m
  BY <1>6 DEF Earlier, Before
<1>8. In(j)
  <2>1. j \in Nat /\ ~(m <= j)
    BY <1>2, <1>7
  <2> QED BY <1>1, <1>7, <2>1
<1>9. ChainIndex(j, k) = ChainIndex(m, k)
  BY <1>2, <1>7, OneBefore
<1> HIDE DEF X
<1>10. y \in 1..j /\ ChainIndex(y, k) = ChainIndex(j, k)
  BY <1>6, <1>8
<1> QED BY <1>2, <1>3, <1>7, <1>9, <1>10

LEMMA StartPrefix ==
  ASSUME Square, NEW k \in Strand, NEW n \in Nat, NEW i \in 1..n, HeldBack(i, k)
  PROVE  Prefix(k, n)[i] = {i}
<1>1. Earlier(i, k, n) = {}
  BY NoneBeforeStart DEF Earlier
<1> QED BY <1>1, PrefixIs

LEMMA NextPrefix ==
  ASSUME Square, NEW k \in Strand, NEW n \in Nat, NEW i \in 1..n, NEW j \in 1..n,
         ForwardNeighbor(j, k) = i
  PROVE  /\ Prefix(k, n)[i] = {i} \cup Prefix(k, n)[j]
         /\ Prefix(k, n)[i] = SymDiff({i}, Prefix(k, n)[j])
<1>1. Earlier(i, k, n) = {j} /\ j < i
  BY OneBefore
<1>2. Prefix(k, n)[i] = {i} \cup Prefix(k, n)[j]
  BY <1>1, PrefixIs
<1>3. i \notin Prefix(k, n)[j]
  BY <1>1, PrefixIn
<1> QED BY <1>2, <1>3 DEF SymDiff

\* So every parity of a chain that is closed is the one the code defines.
LEMMA ChainedInner ==
  ASSUME Square, NEW k \in Strand, NEW n \in Nat, NEW f, Chained(f, k, n), NEW i \in 1..n
  PROVE  /\ ~HeldBack(i, k) => f[i] = Prefix(k, n)[i]
         /\ StartOf(k, ChainIndex(i, k)) \in Prefix(k, n)[i]
<1> DEFINE Ok(l) == /\ ~HeldBack(l, k) => f[l] = Prefix(k, n)[l]
                    /\ StartOf(k, ChainIndex(l, k)) \in Prefix(k, n)[l]
           X == {l \in Nat : l \in 1..n /\ ~Ok(l)}
<1> SUFFICES X = {}
  OBVIOUS
<1> SUFFICES ASSUME X # {} PROVE FALSE
  OBVIOUS
<1>1. PICK m \in X : \A l \in X : m <= l
  <2> HIDE DEF X
  <2>1. X \subseteq Nat
    BY DEF X
  <2> QED BY <2>1, LeastIn
<1>2. m \in 1..n /\ m \in Nat \ {0} /\ ~Ok(m)
  OBVIOUS
<1>3. CASE HeldBack(m, k)
  <2>1. Prefix(k, n)[m] = {m}
    BY <1>2, <1>3, StartPrefix
  <2>2. m = StartOf(k, ChainIndex(m, k))
    BY <1>2, <1>3, StartLeast
  <2> QED BY <1>2, <1>3, <2>1, <2>2
<1>4. CASE ~HeldBack(m, k)
  <2>1. PICK j \in 1..n : /\ ForwardNeighbor(j, k) = m
                          /\ f[m] = SymDiff({m}, IF HeldBack(j, k) THEN {j} ELSE f[j])
    BY <1>2, <1>4 DEF Chained
  <2>2. j < m /\ ChainIndex(j, k) = ChainIndex(m, k)
    BY <1>2, <2>1, OneBefore
  <2>3. Ok(j)
    <3>1. j \in Nat /\ ~(m <= j)
      BY <1>2, <2>2
    <3> QED BY <1>1, <3>1
  <2>4. /\ Prefix(k, n)[m] = {m} \cup Prefix(k, n)[j]
        /\ Prefix(k, n)[m] = SymDiff({m}, Prefix(k, n)[j])
    BY <1>2, <2>1, NextPrefix
  <2>5. HeldBack(j, k) => Prefix(k, n)[j] = {j}
    BY StartPrefix
  <2>6. f[m] = Prefix(k, n)[m]
    BY <2>1, <2>3, <2>4, <2>5
  <2>7. StartOf(k, ChainIndex(m, k)) \in Prefix(k, n)[m]
    BY <2>2, <2>3, <2>4
  <2> QED BY <1>2, <2>6, <2>7
<1> QED BY <1>3, <1>4

LEMMA ChainedIsCode ==
  ASSUME Square, NEW k \in Strand, NEW n \in Nat, NEW f, Chained(f, k, n), NEW i \in 1..n
  PROVE  f[i] = Codeword(k, n)[i]
<1> DEFINE upTo == Prefix(k, n)
           last == {j \in 1..n : i \in upTo[j] /\ ForwardNeighbor(j, k) > n}
<1>1. Codeword(k, n)[i] = IF Before(i, k, n) = {} /\ i \notin last
                            THEN SymDiff({i}, UNION {upTo[j] : j \in last})
                            ELSE upTo[i]
  BY DEF Codeword
<1>2. CASE ~HeldBack(i, k)
  <2>1. PICK j \in 1..n : ForwardNeighbor(j, k) = i
    BY <1>2 DEF Chained
  <2>2. Before(i, k, n) # {}
    BY <2>1 DEF Before
  <2> QED BY <1>1, <1>2, <2>2, ChainedInner
<1>3. CASE HeldBack(i, k)
  <2>0. i \in Nat \ {0} /\ i = StartOf(k, ChainIndex(i, k))
    BY <1>3, StartLeast
  <2>1. Before(i, k, n) = {} /\ upTo[i] = {i}
    BY <1>3, NoneBeforeStart, StartPrefix
  <2>2. CASE f[i] = {i} /\ ForwardNeighbor(i, k) > n
    <3>1. i \in last
      BY <2>1, <2>2
    <3> QED BY <1>1, <2>1, <2>2, <3>1
  <2>3. ASSUME NEW j \in (1..n) \ {i}, ChainIndex(j, k) = ChainIndex(i, k),
               ForwardNeighbor(j, k) > n, f[i] = SymDiff({i}, f[j])
        PROVE  f[i] = Codeword(k, n)[i]
    <3>1. j \in Nat \ {0} /\ ~HeldBack(j, k)
      <4>1. j \in Nat \ {0}
        OBVIOUS
      <4> QED BY <2>0, <2>3, <4>1, StartLeast
    <3>2. f[j] = upTo[j] /\ i \in upTo[j]
      BY <2>0, <2>3, <3>1, ChainedInner
    <3>3. ASSUME NEW x \in last PROVE x = j
      <4>1. x \in 1..n /\ x \in Nat \ {0} /\ i \in upTo[x] /\ ForwardNeighbor(x, k) > n
        OBVIOUS
      <4>2. ChainIndex(x, k) = ChainIndex(j, k)
        BY <2>3, <4>1, PrefixIn
      <4>3. ~(x < j)
        <5> SUFFICES ASSUME x < j PROVE FALSE
          OBVIOUS
        <5>1. ForwardNeighbor(x, k) <= j /\ ForwardNeighbor(x, k) \in Nat
          BY <3>1, <4>1, <4>2, NextOnChain, ForwardNat
        <5> QED BY <4>1, <5>1
      <4>4. ~(j < x)
        <5> SUFFICES ASSUME j < x PROVE FALSE
          OBVIOUS
        <5>1. ForwardNeighbor(j, k) <= x /\ ForwardNeighbor(j, k) \in Nat
          BY <3>1, <4>1, <4>2, NextOnChain, ForwardNat
        <5> QED BY <2>3, <4>1, <5>1
      <4> QED BY <3>1, <4>1, <4>3, <4>4
    <3>4. last = {j}
      BY <2>3, <3>2, <3>3
    <3> HIDE DEF last
    <3>5. i \notin last /\ UNION {upTo[x] : x \in last} = upTo[j]
      BY <3>4
    <3> QED BY <1>1, <2>1, <2>3, <3>2, <3>5
  <2> QED BY <1>3, <2>2, <2>3 DEF Chained
<1> QED BY <1>2, <1>3

-----------------------------------------------------------------------------
(* The chains of the code are rings *)

\* Two columns of blocks: no chain is one block alone.
TwoColumns(n) == n \in Nat /\ n >= 2 * S

\* The block after the last of a chain is its first.
Turn(i, k, n) == IF IsValidIndex(ForwardNeighbor(i, k), n) THEN ForwardNeighbor(i, k)
                 ELSE ChainStart(i, k)

LEMMA StartLeads ==
  ASSUME Square, NEW k \in Strand, NEW n, TwoColumns(n), NEW i \in 1..n, HeldBack(i, k)
  PROVE  ForwardNeighbor(i, k) \in 1..n
<1>0. n \in Nat /\ n >= 2 * S /\ i \in Nat \ {0} /\ S \in Nat \ {0}
  BY PositionsAssumption DEF TwoColumns
<1>1. i \in 1..S
  BY <1>0, StartLeast
<1> DEFINE f == ForwardNeighbor(i, k)
<1>2. f \in Nat \ {0} /\ Column(f) = Column(i) + 1
  BY <1>0, ForwardAt
<1>3. Column(i) = 0
  <2>1. Row(i) \in 0..(S - 1) /\ Column(i) \in Nat /\ i = S * Column(i) + Row(i) + 1
    BY <1>0, RowColumn
  <2>2. CASE Column(i) >= 1
    <3>1. S * Column(i) >= S
      BY <1>0, <2>1, <2>2
    <3> QED BY <1>0, <1>1, <2>1, <3>1
  <2> QED BY <2>1, <2>2
<1>4. Row(f) \in 0..(S - 1) /\ f = S * Column(f) + Row(f) + 1
  BY <1>2, RowColumn
<1>5. S * Column(f) = S
  BY <1>0, <1>2, <1>3
<1> HIDE DEF f
<1>6. f <= 2 * S
  BY <1>0, <1>2, <1>4, <1>5
<1> QED BY <1>0, <1>2, <1>6 DEF f

\* Every other block has one before it.
LEMMA BeforeExists ==
  ASSUME Square, NEW k \in Strand, NEW n \in Nat, NEW i \in 1..n, ~HeldBack(i, k)
  PROVE  \E j \in 1..n : ForwardNeighbor(j, k) = i
<1> DEFINE c == ChainIndex(i, k)
           s == StartOf(k, c)
           X == {j \in 1..n : j < i /\ ChainIndex(j, k) = c}
<1>0. i \in Nat \ {0}
  OBVIOUS
<1>1. s \in 1..n /\ s < i /\ ChainIndex(s, k) = c
  <2>1. s \in 1..S /\ s <= i /\ s # i
    BY <1>0, StartLeast
  <2>2. c \in 0..(S - 1)
    BY <1>0, ChainIs
  <2>3. ChainIndex(s, k) = c
    BY <2>2, StartAt
  <2> QED BY <2>1, <2>3
<1>2. PICK j \in X : \A x \in X : x <= j
  <2>1. X \in SUBSET Nat /\ X # {} /\ \A x \in X : x <= n
    BY <1>1
  <2> HIDE DEF X
  <2> QED BY <2>1, GreatestIn
<1>3. j \in 1..n /\ j \in Nat \ {0} /\ j < i /\ ChainIndex(j, k) = c
  OBVIOUS
<1>4. /\ ForwardNeighbor(j, k) \in Nat /\ ForwardNeighbor(j, k) > j
      /\ ChainIndex(ForwardNeighbor(j, k), k) = c /\ ForwardNeighbor(j, k) <= i
  BY <1>0, <1>3, ForwardAt, NextOnChain
<1>5. ~(ForwardNeighbor(j, k) < i)
  <2> SUFFICES ASSUME ForwardNeighbor(j, k) < i PROVE FALSE
    OBVIOUS
  <2>1. ForwardNeighbor(j, k) \in X
    BY <1>3, <1>4
  <2>2. ForwardNeighbor(j, k) <= j
    BY <1>2, <2>1
  <2> QED BY <1>3, <1>4, <2>2
<1> QED BY <1>3, <1>4, <1>5

\* And every chain has one last block.
LEMMA LastExists ==
  ASSUME Square, NEW k \in Strand, NEW n \in Nat, NEW i \in 1..n
  PROVE  \E j \in 1..n : ChainIndex(j, k) = ChainIndex(i, k) /\ ForwardNeighbor(j, k) > n
<1> DEFINE c == ChainIndex(i, k)
           X == {j \in 1..n : ChainIndex(j, k) = c}
<1>1. PICK j \in X : \A x \in X : x <= j
  <2>1. X \in SUBSET Nat /\ X # {} /\ \A x \in X : x <= n
    OBVIOUS
  <2> HIDE DEF X
  <2> QED BY <2>1, GreatestIn
<1>2. j \in 1..n /\ j \in Nat \ {0} /\ ChainIndex(j, k) = c
  OBVIOUS
<1>3. /\ ForwardNeighbor(j, k) \in Nat /\ ForwardNeighbor(j, k) > j
      /\ ChainIndex(ForwardNeighbor(j, k), k) = c
  BY <1>2, ForwardAt
<1>4. ForwardNeighbor(j, k) > n
  <2> SUFFICES ASSUME ForwardNeighbor(j, k) <= n PROVE FALSE
    BY <1>3
  <2>1. ForwardNeighbor(j, k) \in X
    BY <1>2, <1>3
  <2>2. ForwardNeighbor(j, k) <= j
    BY <1>1, <2>1
  <2> QED BY <1>2, <1>3, <2>2
<1> QED BY <1>2, <1>4

LEMMA OneLast ==
  ASSUME Square, NEW k \in Strand, NEW n \in Nat, NEW i \in 1..n, NEW j \in 1..n,
         ChainIndex(i, k) = ChainIndex(j, k),
         ForwardNeighbor(i, k) > n, ForwardNeighbor(j, k) > n
  PROVE  i = j
<1>0. i \in Nat \ {0} /\ j \in Nat \ {0}
  OBVIOUS
<1>1. ForwardNeighbor(i, k) \in Nat /\ ForwardNeighbor(j, k) \in Nat
  BY <1>0, ForwardNat
<1>2. ~(i < j)
  <2>1. i < j => ForwardNeighbor(i, k) <= j
    BY <1>0, NextOnChain
  <2> QED BY <1>1, <2>1
<1>3. ~(j < i)
  <2>1. j < i => ForwardNeighbor(j, k) <= i
    BY <1>0, NextOnChain
  <2> QED BY <1>1, <2>1
<1> QED BY <1>0, <1>2, <1>3

\* What the code makes of a chain, when it is not one block alone.
LEMMA RingChained ==
  ASSUME Square, NEW k \in Strand, NEW n, TwoColumns(n)
  PROVE  LET upTo == Prefix(k, n)
             last(i) == CHOOSE j \in 1..n :
                          ChainIndex(j, k) = ChainIndex(i, k) /\ ForwardNeighbor(j, k) > n
         IN  Chained([i \in 1..n |-> IF HeldBack(i, k) THEN SymDiff({i}, upTo[last(i)])
                                     ELSE upTo[i]], k, n)
<1> DEFINE upTo == Prefix(k, n)
           last(i) == CHOOSE j \in 1..n :
                        ChainIndex(j, k) = ChainIndex(i, k) /\ ForwardNeighbor(j, k) > n
           f == [i \in 1..n |-> IF HeldBack(i, k) THEN SymDiff({i}, upTo[last(i)]) ELSE upTo[i]]
<1>0. n \in Nat
  BY DEF TwoColumns
<1>1. ASSUME NEW i \in 1..n
      PROVE  /\ last(i) \in 1..n /\ ChainIndex(last(i), k) = ChainIndex(i, k)
             /\ ForwardNeighbor(last(i), k) > n
  BY <1>0, LastExists
<1> HIDE DEF last
<1>2. ASSUME NEW i \in 1..n, HeldBack(i, k)
      PROVE  \E j \in (1..n) \ {i} :
               /\ ChainIndex(j, k) = ChainIndex(i, k) /\ ForwardNeighbor(j, k) > n
               /\ f[i] = SymDiff({i}, f[j])
  <2>1. ForwardNeighbor(i, k) \in 1..n
    BY <1>2, StartLeads
  <2>2. last(i) # i
    BY <1>0, <1>1, <2>1
  <2>3. ~HeldBack(last(i), k)
    <3>1. i \in Nat \ {0} /\ last(i) \in Nat \ {0}
      BY <1>0, <1>1
    <3>2. ChainIndex(last(i), k) = ChainIndex(i, k)
      BY <1>1
    <3>3. i = StartOf(k, ChainIndex(i, k))
      BY <1>2, <3>1, StartLeast
    <3>4. HeldBack(last(i), k) <=> last(i) = StartOf(k, ChainIndex(last(i), k))
      BY <3>1, StartLeast
    <3> QED BY <2>2, <3>2, <3>3, <3>4
  <2>4. f[i] = SymDiff({i}, upTo[last(i)]) /\ f[last(i)] = upTo[last(i)]
    BY <1>1, <1>2, <2>3
  <2> HIDE DEF f
  <2> QED BY <1>1, <2>2, <2>4
<1>3. ASSUME NEW i \in 1..n, ~HeldBack(i, k)
      PROVE  \E j \in 1..n : /\ ForwardNeighbor(j, k) = i
                             /\ f[i] = SymDiff({i}, IF HeldBack(j, k) THEN {j} ELSE f[j])
  <2>1. PICK j \in 1..n : ForwardNeighbor(j, k) = i
    BY <1>0, <1>3, BeforeExists
  <2>2. upTo[i] = SymDiff({i}, upTo[j])
    BY <1>0, <2>1, NextPrefix
  <2>3. HeldBack(j, k) => upTo[j] = {j}
    BY <1>0, StartPrefix
  <2>4. f[i] = upTo[i] /\ (~HeldBack(j, k) => f[j] = upTo[j])
    BY <1>3
  <2> HIDE DEF f
  <2> QED BY <2>1, <2>2, <2>3, <2>4
<1> HIDE DEF f
<1>4. Chained(f, k, n)
  BY <1>2, <1>3 DEF Chained
<1> QED BY <1>4 DEF f, last

\* A block that follows j in its ring: its parity is its data block over what the chain
\* has up to j.
Follows(i, j, k, n) ==
  /\ Turn(j, k, n) = i
  /\ \A l \in 1..n : Turn(l, k, n) = i => l = j
  /\ i # j
  /\ Codeword(k, n)[i] = SymDiff({i}, Prefix(k, n)[j])
  /\ IF HeldBack(i, k)
       THEN /\ Before(i, k, n) = {} /\ Prefix(k, n)[i] = {i} /\ ~HeldBack(j, k)
            /\ {l \in 1..n : ForwardNeighbor(l, k) > n /\ i \in Prefix(k, n)[l]} = {j}
       ELSE Before(i, k, n) = {j} /\ Prefix(k, n)[i] = Codeword(k, n)[i]

LEMMA Ring ==
  ASSUME Square, NEW k \in Strand, NEW n, TwoColumns(n), NEW i \in 1..n
  PROVE  \E j \in 1..n : Follows(i, j, k, n)
<1> DEFINE upTo == Prefix(k, n)
           code == Codeword(k, n)
           last(x) == CHOOSE j \in 1..n :
                        ChainIndex(j, k) = ChainIndex(x, k) /\ ForwardNeighbor(j, k) > n
           f == [x \in 1..n |-> IF HeldBack(x, k) THEN SymDiff({x}, upTo[last(x)]) ELSE upTo[x]]
<1>0. n \in Nat /\ i \in Nat \ {0}
  BY DEF TwoColumns
<1>1. Chained(f, k, n)
  BY RingChained
<1> HIDE DEF f
<1>2. \A x \in 1..n : f[x] = code[x]
  BY <1>0, <1>1, ChainedIsCode
<1>3. \A x \in 1..n : ~HeldBack(x, k) => code[x] = upTo[x]
  BY <1>0, <1>1, <1>2, ChainedInner
<1>4. ASSUME NEW l \in 1..n
      PROVE  /\ ForwardNeighbor(l, k) \in Nat /\ ForwardNeighbor(l, k) > l
             /\ ForwardNeighbor(l, k) \notin 1..n => ForwardNeighbor(l, k) > n
             /\ ChainStart(l, k) = StartOf(k, ChainIndex(l, k))
             /\ HeldBack(StartOf(k, ChainIndex(l, k)), k)
             /\ ChainIndex(StartOf(k, ChainIndex(l, k)), k) = ChainIndex(l, k)
  <2>1. l \in Nat \ {0}
    BY <1>0
  <2>2. ForwardNeighbor(l, k) \in Nat /\ ForwardNeighbor(l, k) > l
    BY <2>1, ForwardAt
  <2>3. ChainIndex(l, k) \in 0..(S - 1)
    BY <2>1, ChainIs
  <2>4. ChainStart(l, k) = StartOf(k, ChainIndex(l, k))
    BY StartIs
  <2> QED BY <1>0, <2>2, <2>3, <2>4, StartAt DEF HeldBack
<1>5. CASE HeldBack(i, k)
  <2>1. ForwardNeighbor(i, k) \in 1..n /\ Before(i, k, n) = {} /\ upTo[i] = {i}
    BY <1>0, <1>5, StartLeads, NoneBeforeStart, StartPrefix
  <2>2. i = StartOf(k, ChainIndex(i, k))
    BY <1>0, <1>5, StartLeast
  <2>3. PICK j \in 1..n : /\ ChainIndex(j, k) = ChainIndex(i, k) /\ ForwardNeighbor(j, k) > n
                          /\ last(i) = j
    BY <1>0, LastExists
  <2>4. i # j
    BY <1>0, <2>1, <2>3
  <2>5. ~HeldBack(j, k)
    <3>1. j \in Nat \ {0}
      BY <1>0
    <3> QED BY <2>2, <2>3, <2>4, <3>1, StartLeast
  <2>6. code[i] = SymDiff({i}, upTo[j])
    <3>1. f[i] = SymDiff({i}, upTo[j])
      BY <1>5, <2>3 DEF f
    <3> QED BY <1>2, <3>1
  <2>7. i \in upTo[j]
    BY <1>0, <1>1, <2>2, <2>3, ChainedInner
  <2>8. ASSUME NEW l \in 1..n, ForwardNeighbor(l, k) > n, ChainIndex(l, k) = ChainIndex(i, k)
        PROVE  l = j
    BY <1>0, <2>3, <2>8, OneLast
  <2>9. {l \in 1..n : ForwardNeighbor(l, k) > n /\ i \in upTo[l]} = {j}
    <3>1. ASSUME NEW l \in 1..n, ForwardNeighbor(l, k) > n, i \in upTo[l] PROVE l = j
      <4>1. ChainIndex(i, k) = ChainIndex(l, k)
        BY <1>0, <3>1, PrefixIn
      <4> QED BY <2>8, <3>1, <4>1
    <3> QED BY <2>3, <2>7, <3>1
  <2>10. Turn(j, k, n) = i
    <3>1. ForwardNeighbor(j, k) \notin 1..n
      BY <1>0, <1>4, <2>3
    <3> QED BY <1>4, <2>2, <2>3, <3>1 DEF Turn, IsValidIndex
  <2>11. ASSUME NEW l \in 1..n, Turn(l, k, n) = i PROVE l = j
    <3>1. ForwardNeighbor(l, k) # i
      BY <2>1 DEF Before
    <3>2. ForwardNeighbor(l, k) > n /\ StartOf(k, ChainIndex(l, k)) = i
      BY <1>4, <2>11, <3>1 DEF Turn, IsValidIndex
    <3>3. ChainIndex(l, k) = ChainIndex(i, k)
      BY <1>4, <3>2
    <3> QED BY <2>8, <3>2, <3>3
  <2> QED BY <1>5, <2>1, <2>4, <2>5, <2>6, <2>9, <2>10, <2>11 DEF Follows
<1>6. CASE ~HeldBack(i, k)
  <2>1. PICK j \in 1..n : ForwardNeighbor(j, k) = i
    BY <1>0, <1>6, BeforeExists
  <2>2. Before(i, k, n) = {j} /\ j < i
    BY <1>0, <2>1, OneBefore
  <2>3. upTo[i] = SymDiff({i}, upTo[j]) /\ code[i] = upTo[i]
    BY <1>0, <1>3, <1>6, <2>1, NextPrefix
  <2>4. Turn(j, k, n) = i
    BY <2>1 DEF Turn, IsValidIndex
  <2>5. ASSUME NEW l \in 1..n, Turn(l, k, n) = i PROVE l = j
    <3>1. ForwardNeighbor(l, k) = i
      BY <1>4, <1>6, <2>5 DEF Turn, IsValidIndex
    <3> QED BY <2>2, <3>1 DEF Before
  <2> QED BY <1>0, <1>6, <2>2, <2>3, <2>4, <2>5 DEF Follows
<1> QED BY <1>5, <1>6

-----------------------------------------------------------------------------
(* What was emitted when the channel is closed *)

\* The parity at the place of block i on strand k.
ParityAt(k, i) == CHOOSE b \in emitted : b.strand = k /\ b.left = i

LEMMA ClosedChains ==
  ASSUME Square, EntInv, phase = "closed", NEW k \in strands
  PROVE  /\ \A i \in 1..chunkNum :
              ParityAt(k, i) \in emitted /\ ParityAt(k, i).strand = k /\ ParityAt(k, i).left = i
         /\ Chained([i \in 1..chunkNum |-> ParityAt(k, i).data], k, chunkNum)
<1> DEFINE f == [i \in 1..chunkNum |-> ParityAt(k, i).data]
<1>1. index = chunkNum /\ chain[1] \notin Strand /\ phase # "panic"
  BY DEF EntInv, PhaseInv
<1>2. k \in Strand /\ chain[1] \in 1..(Alpha + 1) /\ chunkNum \in Nat
  BY EntanglerAssumption DEF EntInv, TypeInv, ChainInv
<1>3. ASSUME NEW i \in 1..chunkNum
      PROVE  ParityAt(k, i) \in emitted /\ ParityAt(k, i).strand = k /\ ParityAt(k, i).left = i
  <2>1. Passed(k, ChainIndex(i, k))
    BY <1>1, <1>2, PositionsAssumption DEF Passed, Strand
  <2>2. \E b \in emitted : b.strand = k /\ b.left = i
    BY <1>1, <2>1 DEF EntInv, NoneMissing
  <2> QED BY <2>2 DEF ParityAt
<1>4. ASSUME NEW a \in emitted, a.strand = k PROVE a.left \in 1..chunkNum /\ f[a.left] = a.data
  <2>1. a.left \in 1..chunkNum
    BY <1>1 DEF EntInv, AllMade, ParityMade
  <2>2. ParityAt(k, a.left) = a
    BY <1>3, <1>4, <2>1 DEF EntInv, OneMade
  <2> QED BY <2>1, <2>2
<1>5. ASSUME NEW i \in 1..chunkNum
      PROVE  IF HeldBack(i, k)
               THEN \/ f[i] = {i} /\ ForwardNeighbor(i, k) > chunkNum
                    \/ \E j \in (1..chunkNum) \ {i} :
                         /\ ChainIndex(j, k) = ChainIndex(i, k)
                         /\ ForwardNeighbor(j, k) > chunkNum
                         /\ f[i] = SymDiff({i}, f[j])
               ELSE \E j \in 1..chunkNum :
                      /\ ForwardNeighbor(j, k) = i
                      /\ f[i] = SymDiff({i}, IF HeldBack(j, k) THEN {j} ELSE f[j])
  <2> DEFINE b == ParityAt(k, i)
  <2>1. b \in emitted /\ b.strand = k /\ b.left = i
    BY <1>3
  <2>2. ParityMade(b) /\ f[i] = b.data
    BY <1>4, <2>1 DEF EntInv, AllMade
  <2> HIDE DEF b, f
  <2>3. CASE HeldBack(i, k)
    <3>1. ClosesChain(b)
      BY <2>1, <2>2, <2>3 DEF ParityMade
    <3>2. CASE b.data = {b.left} /\ ForwardNeighbor(b.left, b.strand) > chunkNum
      BY <2>1, <2>2, <2>3, <3>2
    <3>3. ASSUME NEW a \in emitted, a.strand = b.strand,
                 ChainIndex(a.left, a.strand) = ChainIndex(b.left, b.strand),
                 a.right > chunkNum, a.left # b.left, b.data = SymDiff({b.left}, a.data)
          PROVE  \E j \in (1..chunkNum) \ {i} :
                   /\ ChainIndex(j, k) = ChainIndex(i, k) /\ ForwardNeighbor(j, k) > chunkNum
                   /\ f[i] = SymDiff({i}, f[j])
      <4>1. a.left \in (1..chunkNum) \ {i} /\ f[a.left] = a.data
        BY <1>4, <2>1, <3>3
      <4>2. ~HeldBack(a.left, k)
        <5>1. a.left \in Nat \ {0} /\ i \in Nat \ {0}
          BY <1>2, <4>1
        <5> QED BY <1>2, <2>1, <2>3, <3>3, <4>1, <5>1, StartLeast
      <4>3. a.right = ForwardNeighbor(a.left, k)
        BY <2>1, <3>3, <4>2 DEF EntInv, AllMade, ParityMade
      <4> QED BY <2>1, <2>2, <3>3, <4>1, <4>3
    <3> QED BY <2>3, <3>1, <3>2, <3>3, <2>1, <2>2 DEF ClosesChain
  <2>4. CASE ~HeldBack(i, k)
    <3>1. InChain(b)
      BY <2>1, <2>2, <2>4 DEF ParityMade
    <3>2. PICK j \in 1..chunkNum :
            /\ ForwardNeighbor(j, k) = i
            /\ IF HeldBack(j, k) THEN b.data = SymDiff({i}, {j})
               ELSE \E a \in emitted : /\ a.strand = k /\ a.left = j
                                       /\ b.data = SymDiff({i}, a.data)
      BY <2>1, <3>1 DEF InChain
    <3>3. f[i] = SymDiff({i}, IF HeldBack(j, k) THEN {j} ELSE f[j])
      BY <1>4, <2>2, <3>2
    <3> QED BY <2>4, <3>2, <3>3
  <2> QED BY <2>3, <2>4
<1>6. Chained(f, k, chunkNum)
  <2> HIDE DEF f
  <2> QED BY <1>5 DEF Chained
<1> QED BY <1>3, <1>6

LEMMA CodeEmitted == Square /\ EntInv => EmitsCode
<1> SUFFICES ASSUME Square, EntInv, phase = "closed" PROVE EmitsCode
  BY DEF EmitsCode
<1>1. chunkNum \in Nat /\ index = chunkNum /\ strands \subseteq Strand
  BY EntanglerAssumption DEF EntInv, PhaseInv, TypeInv
<1>2. ASSUME NEW k \in strands, NEW i \in 1..chunkNum
      PROVE  /\ ParityAt(k, i) \in emitted /\ ParityAt(k, i).strand = k /\ ParityAt(k, i).left = i
             /\ ParityAt(k, i).data = Codeword(k, chunkNum)[i]
  <2>1. Chained([l \in 1..chunkNum |-> ParityAt(k, l).data], k, chunkNum)
    BY <1>2, ClosedChains
  <2>2. [l \in 1..chunkNum |-> ParityAt(k, l).data][i] = Codeword(k, chunkNum)[i]
    BY <1>1, <2>1, ChainedIsCode
  <2> QED BY <2>2, ClosedChains
<1>3. ASSUME NEW a \in emitted
      PROVE  /\ a.strand \in strands /\ a.left \in 1..chunkNum
             /\ a.data = Codeword(a.strand, chunkNum)[a.left]
  <2>1. a.strand \in strands /\ a.left \in 1..chunkNum
    BY <1>1 DEF EntInv, AllMade, ParityMade
  <2>2. a = ParityAt(a.strand, a.left)
    BY <1>2, <2>1 DEF EntInv, OneMade
  <2> QED BY <1>2, <2>1, <2>2
<1> DEFINE made == {[strand |-> a.strand, left |-> a.left, data |-> a.data] : a \in emitted}
           code(k) == {[strand |-> k, left |-> i, data |-> Codeword(k, chunkNum)[i]] :
                         i \in 1..chunkNum}
<1>4. ASSUME NEW x \in made PROVE x \in UNION {code(k) : k \in strands}
  <2>1. PICK a \in emitted : x = [strand |-> a.strand, left |-> a.left, data |-> a.data]
    OBVIOUS
  <2>2. x \in code(a.strand)
    BY <1>3, <2>1
  <2> HIDE DEF code
  <2> QED BY <1>3, <2>2
<1>5. ASSUME NEW x \in UNION {code(k) : k \in strands} PROVE x \in made
  <2>1. PICK k \in strands : x \in code(k)
    <3> HIDE DEF code
    <3> QED OBVIOUS
  <2>2. PICK i \in 1..chunkNum :
          x = [strand |-> k, left |-> i, data |-> Codeword(k, chunkNum)[i]]
    BY <2>1
  <2>3. PICK a \in emitted : /\ a.strand = k /\ a.left = i
                             /\ a.data = Codeword(k, chunkNum)[i]
    BY <1>2
  <2> QED BY <2>2, <2>3
<1>6. made = UNION {code(k) : k \in strands}
  BY <1>4, <1>5
<1> QED BY <1>6 DEF EmitsCode

\* Every parity that was asked for comes, and it is the one that the code defines, for a
\* file of any length: cachedParities, which entangleSingleBlock indexes by chain, follows
\* the forward neighbours it never looks at, and wrapLattice closes every chain over its
\* own last block.
THEOREM CodeIsEmitted ==
  ASSUME Square
  PROVE  Spec => []EmitsCode
BY CodeEmitted, EntHolds, PTL

\* The closing panics on no file that has a data block on every chain: P blocks are
\* enough, the first column of the lattice.
THEOREM OnlyShortFilesPanic ==
  ASSUME Square
  PROVE  Spec => [](phase = "panic" => chunkNum < P)
<1>1. EntInv => (phase = "panic" => chunkNum < P)
  BY DEF EntInv, OnlySmallPanic
<1> QED BY <1>1, EntHolds, PTL
=============================================================================
