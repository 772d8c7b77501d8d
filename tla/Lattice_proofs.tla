---------------------------- MODULE Lattice_proofs ----------------------------
(***************************************************************************)
(* Whatever is asked for and whatever is lost, a block of the lattice      *)
(* holds its own value, and is in repair exactly while it is on the stack; *)
(* and a request that could succeed with its depth does.  The proof starts *)
(* from the links: they are the rings of the code, so that the pairs of a  *)
(* block are what the equations with it leave.                             *)
(***************************************************************************)
EXTENDS Lattice, FiniteSetTheorems, WellFoundedInduction, TLAPS

\* The geometry of the lattice, which no state enters into.
EP == INSTANCE Entangler_proofs WITH
  ChunkNums <- {}, StrandSets <- {}, chunkNum <- 0, strands <- {}, index <- 0,
  cached <- <<>>, toWrap <- <<>>, chain <- <<>>, emitted <- {}, phase <- ""

-----------------------------------------------------------------------------
(* The links and the chains *)

LEMMA SameForward ==
  \A i, k : ForwardNeighbor(i, k) = EP!ForwardNeighbor(i, k)
BY DEF EP!ForwardNeighbor, ForwardNeighbor, EP!PositionCategory, PositionCategory,
       EP!GoMod, GoMod

LEMMA SameStart ==
  \A i, k : ChainStart(i, k) = EP!ChainStart(i, k)
BY DEF EP!ChainStart, ChainStart, EP!ChainIndex, ChainIndex, EP!GoMod, GoMod, EP!GoDiv, GoDiv

LEMMA SameCode ==
  \A k, n : Prefix(k, n) = EP!Prefix(k, n) /\ Codeword(k, n) = EP!Codeword(k, n)
BY DEF Codeword, EP!Codeword, Prefix, EP!Prefix, Before, EP!Before,
       ForwardNeighbor, EP!ForwardNeighbor, PositionCategory, EP!PositionCategory,
       GoMod, EP!GoMod, SymDiff, EP!SymDiff

LEMMA SameBefore ==
  \A i, k, n : Before(i, k, n) = EP!Before(i, k, n)
BY SameForward DEF Before, EP!Before

LEMMA Assumed ==
  Regular => /\ EP!PositionsAssumption /\ EP!EntanglerAssumption /\ EP!Square
             /\ EP!TwoColumns(ChunkNum)
BY PositionsAssumption, LatticeAssumption
   DEF Regular, EP!PositionsAssumption, EP!EntanglerAssumption, EP!Square, EP!TwoColumns,
       EP!Strand

\* The first block of a chain.
IsStart(i, k) == ChainStart(i, k) = i

\* What block i of a strand has on its left, parity j, as the links and the code have it.
LinkedTo(i, j, k) ==
  /\ RightData(k, j) = i /\ LeftParity(k, i) = Parity(k, j) /\ i # j
  /\ Codeword(k, ChunkNum)[i] = SymDiff({i}, Prefix(k, ChunkNum)[j])
  /\ IF IsStart(i, k)
       THEN /\ Before(i, k, ChunkNum) = {} /\ Prefix(k, ChunkNum)[i] = {i} /\ ~IsStart(j, k)
            /\ {l \in 1..ChunkNum : /\ ForwardNeighbor(l, k) > ChunkNum
                                    /\ i \in Prefix(k, ChunkNum)[l]} = {j}
       ELSE /\ Before(i, k, ChunkNum) = {j}
            /\ Prefix(k, ChunkNum)[i] = Codeword(k, ChunkNum)[i]

LEMMA LeftExists ==
  ASSUME Regular, NEW k \in Strand, NEW i \in 1..ChunkNum
  PROVE  \E j \in 1..ChunkNum : LinkedTo(i, j, k)
<1> DEFINE n == ChunkNum
<1>0. /\ EP!PositionsAssumption /\ EP!EntanglerAssumption /\ EP!Square
      /\ EP!TwoColumns(n) /\ k \in EP!Strand
  BY Assumed DEF Strand, EP!Strand
<1>1. PICK j \in 1..n : EP!Follows(i, j, k, n)
  BY <1>0, EP!Ring
<1>2. \A l : RightData(k, l) = EP!Turn(l, k, n)
  BY SameForward, SameStart
     DEF RightData, EP!Turn, IsValidIndex, EP!IsValidIndex
<1>3. \A l : IsStart(l, k) <=> EP!HeldBack(l, k)
  BY SameStart DEF IsStart, EP!HeldBack
<1>4. {l \in 1..n : RightData(k, l) = i} = {j}
  BY <1>1, <1>2 DEF EP!Follows
<1>5. LeftParity(k, i) = Parity(k, j)
  <2>1. Max({j}) = j
    BY DEF Max
  <2> QED BY <1>4, <2>1 DEF LeftParity
<1>6. SymDiff({i}, EP!Prefix(k, n)[j]) = EP!SymDiff({i}, EP!Prefix(k, n)[j])
  BY DEF SymDiff, EP!SymDiff
<1>7. {l \in 1..n : ForwardNeighbor(l, k) > n /\ i \in Prefix(k, n)[l]} =
      {l \in 1..n : EP!ForwardNeighbor(l, k) > n /\ i \in EP!Prefix(k, n)[l]}
  BY SameForward, SameCode
<1>8. Before(i, k, n) = EP!Before(i, k, n)
  BY SameBefore
<1> QED BY <1>1, <1>2, <1>3, <1>4, <1>5, <1>6, <1>7, <1>8, SameCode
        DEF LinkedTo, EP!Follows

\* The parities that are wrapped are those of the first blocks.
LEMMA WrappedAre ==
  ASSUME Regular, NEW k \in Strand, NEW i \in 1..ChunkNum
  PROVE  Parity(k, i) \in WrapModified <=> IsStart(i, k)
<1> DEFINE n == ChunkNum
           p == Parity(k, i)
<1>1. p \in Block /\ IsParity(p) /\ p[1] = k /\ p[2] = i
  BY DEF Block, Parity, IsParity, Strand
<1>2. p \in WrapModified <=>
        \E l \in (1..n) \ {i} : ~IsValidIndex(ForwardNeighbor(l, k), n) /\ RightData(k, l) = i
  <2> HIDE DEF p
  <2> QED BY <1>1 DEF WrapModified
<1>3. PICK j \in 1..n : LinkedTo(i, j, k)
  BY LeftExists
<1>4. \A l \in 1..n : l \in Before(i, k, n) <=> ForwardNeighbor(l, k) = i
  BY DEF Before
<1>5. ASSUME IsStart(i, k)
      PROVE  \E l \in (1..n) \ {i} :
               ~IsValidIndex(ForwardNeighbor(l, k), n) /\ RightData(k, l) = i
  <2>1. RightData(k, j) = i /\ i # j /\ ForwardNeighbor(j, k) # i
    BY <1>3, <1>4, <1>5 DEF LinkedTo
  <2>2. ~IsValidIndex(ForwardNeighbor(j, k), n)
    BY <2>1 DEF RightData
  <2> QED BY <2>1, <2>2
<1>6. ASSUME NEW l \in (1..n) \ {i}, ~IsValidIndex(ForwardNeighbor(l, k), n),
             RightData(k, l) = i
      PROVE  IsStart(i, k)
  <2>1. ChainStart(l, k) = i
    BY <1>6 DEF RightData
  <2>2. l \in Nat \ {0} /\ EP!Square /\ EP!PositionsAssumption /\ EP!EntanglerAssumption
        /\ k \in EP!Strand
    BY Assumed, LatticeAssumption DEF Strand, EP!Strand
  <2>3. /\ EP!ChainIndex(l, k) \in 0..(S - 1)
        /\ EP!ChainStart(l, k) = EP!StartOf(k, EP!ChainIndex(l, k))
    BY <2>2, EP!ChainIs, EP!StartIs
  <2>4. EP!ChainStart(EP!StartOf(k, EP!ChainIndex(l, k)), k) =
        EP!StartOf(k, EP!ChainIndex(l, k))
    BY <2>2, <2>3, EP!StartAt
  <2> QED BY <2>1, <2>3, <2>4, SameStart DEF IsStart
<1> QED BY <1>2, <1>5, <1>6

-----------------------------------------------------------------------------
(* The recover pairs and the equations *)

LEMMA RangeOfConcat ==
  ASSUME NEW T, NEW s \in Seq(T), NEW t \in Seq(T)
  PROVE  s \o t \in Seq(T) /\ Range(s \o t) = Range(s) \cup Range(t)
<1>1. s \o t \in Seq(T)
  OBVIOUS
<1>2. ASSUME NEW x \in Range(s \o t) PROVE x \in Range(s) \cup Range(t)
  <2>1. PICK i \in 1..(Len(s) + Len(t)) : x = (s \o t)[i]
    BY <1>2 DEF Range
  <2>2. CASE i <= Len(s)
    BY <2>1, <2>2 DEF Range
  <2>3. CASE i > Len(s)
    <3>1. x = t[i - Len(s)] /\ i - Len(s) \in 1..Len(t)
      BY <2>1, <2>3
    <3> QED BY <3>1 DEF Range
  <2> QED BY <2>1, <2>2, <2>3
<1>3. ASSUME NEW x \in Range(s) PROVE x \in Range(s \o t)
  <2>1. PICK i \in 1..Len(s) : x = s[i]
    BY DEF Range
  <2>2. i \in 1..(Len(s) + Len(t)) /\ x = (s \o t)[i]
    BY <2>1
  <2> QED BY <2>2 DEF Range
<1>4. ASSUME NEW x \in Range(t) PROVE x \in Range(s \o t)
  <2>1. PICK i \in 1..Len(t) : x = t[i]
    BY DEF Range
  <2>2. Len(s) + i \in 1..(Len(s) + Len(t)) /\ x = (s \o t)[Len(s) + i]
    BY <2>1
  <2> QED BY <2>2 DEF Range
<1> QED BY <1>1, <1>2, <1>3, <1>4

LEMMA RangeOfOne ==
  ASSUME NEW x
  PROVE  Range(<<x>>) = {x} /\ Range(<<>>) = {}
BY DEF Range

\* Two sequences or three, one after the other.
Joined(s, t) == s \o t

LEMMA Flattened ==
  ASSUME NEW T, NEW s \in Seq(Seq(T)), Len(s) \in 2..3
  PROVE  /\ FlattenSeq(s) \in Seq(T)
         /\ Range(FlattenSeq(s)) = UNION {Range(s[k]) : k \in 1..Len(s)}
<1>1. PICK n \in 2..3 : n = Len(s)
  OBVIOUS
<1> DEFINE Is(h) == h = [i \in 1..n |-> IF i = 1 THEN s[i] ELSE Joined(h[i - 1], s[i])]
           g == [i \in 1..n |-> IF i = 1 THEN s[1] ELSE IF i = 2 THEN Joined(s[1], s[2])
                                ELSE Joined(Joined(s[1], s[2]), s[3])]
           f == CHOOSE h : Is(h)
<1>2. Is(g)
  <2>1. ASSUME NEW i \in 1..n
        PROVE  g[i] = IF i = 1 THEN s[i] ELSE Joined(g[i - 1], s[i])
    <3>1. i \in 1..3 /\ i <= n
      OBVIOUS
    <3>2. CASE i = 1
      BY <3>2
    <3>3. CASE i = 2
      <4>1. i - 1 = 1 /\ 1 \in 1..n
        BY <3>3
      <4> QED BY <3>3, <4>1
    <3>4. CASE i = 3
      <4>1. i - 1 = 2 /\ 2 \in 1..n
        BY <3>4
      <4> QED BY <3>4, <4>1
    <3> QED BY <3>1, <3>2, <3>3, <3>4
  <2> QED BY <2>1
<1> HIDE DEF g
<1>3. Is(f)
  <2> HIDE DEF Is
  <2> QED BY <1>2
<1>4. FlattenSeq(s) = f[n]
  BY <1>1 DEF FlattenSeq, Joined
<1> HIDE DEF f
<1>5. /\ \A i \in 1..n : f[i] = IF i = 1 THEN s[i] ELSE Joined(f[i - 1], s[i])
      /\ 1 \in 1..n /\ 2 \in 1..n
  BY <1>3
<1>6. f[1] = s[1] /\ f[2] = Joined(f[1], s[2]) /\ (n = 3 => f[3] = Joined(f[2], s[3]))
  <2>1. 2 - 1 = 1 /\ 3 - 1 = 2 /\ (n = 3 => 3 \in 1..n)
    OBVIOUS
  <2> QED BY <1>5, <2>1
<1>7. s[1] \in Seq(T) /\ s[2] \in Seq(T) /\ (n = 3 => s[3] \in Seq(T))
  BY <1>1, <1>5
<1>8. ASSUME NEW x \in Seq(T), NEW y \in Seq(T)
      PROVE  Joined(x, y) \in Seq(T) /\ Range(Joined(x, y)) = Range(x) \cup Range(y)
  BY RangeOfConcat DEF Joined
<1>9. f[2] \in Seq(T) /\ Range(f[2]) = Range(s[1]) \cup Range(s[2])
  BY <1>6, <1>7, <1>8
<1>10. CASE n = 2
  <2>1. UNION {Range(s[k]) : k \in 1..2} = Range(s[1]) \cup Range(s[2])
    OBVIOUS
  <2> QED BY <1>1, <1>4, <1>9, <1>10, <2>1
<1>11. CASE n = 3
  <2>1. UNION {Range(s[k]) : k \in 1..3} = Range(s[1]) \cup Range(s[2]) \cup Range(s[3])
    OBVIOUS
  <2>2. f[3] \in Seq(T) /\ Range(f[3]) = Range(f[2]) \cup Range(s[3])
    BY <1>6, <1>7, <1>8, <1>9, <1>11
  <2> QED BY <1>1, <1>4, <1>9, <1>11, <2>1, <2>2
<1> QED BY <1>1, <1>10, <1>11

\* The three blocks of an equation: the data block, its parity, and what is on its left.
Left(k, i) == Unwrapped(LeftParity(k, i))

LEMMA BlockIs ==
  /\ \A i \in 1..ChunkNum : Data(i) \in Block
  /\ \A k \in Strand, i \in 1..ChunkNum : Parity(k, i) \in Block
  /\ \A b \in Block : \/ \E i \in 1..ChunkNum : b = Data(i)
                      \/ \E k \in Strand, i \in 1..ChunkNum : b = Parity(k, i)
  /\ \A i : ~IsParity(Data(i)) /\ Data(i)[2] = i
  /\ \A k \in Strand : \A i :
       IsParity(Parity(k, i)) /\ Parity(k, i)[1] = k /\ Parity(k, i)[2] = i
<1>1. \A i \in 1..ChunkNum : Data(i) \in Block
  BY DEF Data, Block
<1>2. \A k \in Strand, i \in 1..ChunkNum : Parity(k, i) \in Block
  BY DEF Parity, Block
<1>3. ASSUME NEW b \in Block
      PROVE  \/ \E i \in 1..ChunkNum : b = Data(i)
             \/ \E k \in Strand, i \in 1..ChunkNum : b = Parity(k, i)
  <2>1. CASE b \in {0} \X (1..ChunkNum)
    <3>1. b = Data(b[2]) /\ b[2] \in 1..ChunkNum
      BY <2>1 DEF Data
    <3> QED BY <3>1
  <2>2. CASE b \in Strand \X (1..ChunkNum)
    <3>1. b = Parity(b[1], b[2]) /\ b[1] \in Strand /\ b[2] \in 1..ChunkNum
      BY <2>2 DEF Parity
    <3> QED BY <3>1
  <2> QED BY <2>1, <2>2 DEF Block
<1>4. \A i : ~IsParity(Data(i)) /\ Data(i)[2] = i
  BY DEF IsParity, Data
<1>5. \A k \in Strand : \A i :
        IsParity(Parity(k, i)) /\ Parity(k, i)[1] = k /\ Parity(k, i)[2] = i
  BY DEF IsParity, Parity, Strand
<1> QED BY <1>1, <1>2, <1>3, <1>4, <1>5

LEMMA LeftIs ==
  ASSUME Regular, NEW k \in Strand, NEW i \in 1..ChunkNum, NEW j \in 1..ChunkNum,
         LinkedTo(i, j, k)
  PROVE  /\ Left(k, i) = IF IsStart(j, k) THEN Data(j) ELSE Parity(k, j)
         /\ Left(k, i) \in Block
<1>1. LeftParity(k, i) = Parity(k, j) /\ Parity(k, j)[2] = j
  BY BlockIs DEF LinkedTo
<1> QED BY <1>1, WrappedAre, BlockIs DEF Left, Unwrapped

LEMMA RightIs ==
  ASSUME Regular, NEW k \in Strand, NEW i \in 1..ChunkNum
  PROVE  /\ RightData(k, i) \in 1..ChunkNum
         /\ LinkedTo(RightData(k, i), i, k)
         /\ \A r \in 1..ChunkNum : LinkedTo(r, i, k) => r = RightData(k, i)
         /\ IsStart(i, k) => ~IsStart(RightData(k, i), k)
<1> DEFINE n == ChunkNum
           r == RightData(k, i)
<1>0. /\ i \in Nat \ {0} /\ EP!Square /\ EP!PositionsAssumption /\ EP!EntanglerAssumption
      /\ k \in EP!Strand /\ S \in Nat /\ n \in Nat /\ n >= 2 * S
  BY Assumed, PositionsAssumption, LatticeAssumption DEF Strand, EP!Strand, Regular
<1>1. r \in 1..n
  <2>1. CASE IsValidIndex(ForwardNeighbor(i, k), n)
    BY <2>1 DEF IsValidIndex, RightData
  <2>2. CASE ~IsValidIndex(ForwardNeighbor(i, k), n)
    <3>1. EP!ChainIndex(i, k) \in 0..(S - 1) /\ EP!ChainStart(i, k) = EP!StartOf(k, EP!ChainIndex(i, k))
      BY <1>0, EP!ChainIs, EP!StartIs
    <3>2. EP!ChainStart(i, k) \in 1..S
      BY <1>0, <3>1, EP!StartAt
    <3> QED BY <1>0, <2>2, <3>2, SameStart DEF RightData
  <2> QED BY <2>1, <2>2
<1> HIDE DEF r
<1>2. PICK j \in 1..n : LinkedTo(r, j, k)
  BY <1>1, LeftExists
<1>3. j = i
  <2>1. /\ EP!Square /\ EP!TwoColumns(n)
    BY Assumed
  <2>2. PICK l \in 1..n : EP!Follows(r, l, k, n)
    BY <1>0, <1>1, <2>1, EP!Ring
  <2>3. \A x : RightData(k, x) = EP!Turn(x, k, n)
    BY SameForward, SameStart
       DEF RightData, EP!Turn, IsValidIndex, EP!IsValidIndex
  <2>4. \A x \in 1..n : RightData(k, x) = r => x = l
    BY <2>2, <2>3 DEF EP!Follows
  <2>5. RightData(k, j) = r /\ RightData(k, i) = r
    BY <1>2 DEF LinkedTo, r
  <2> QED BY <2>4, <2>5
<1>4. \A q \in 1..n : LinkedTo(q, i, k) => q = r
  BY DEF LinkedTo, r
<1> QED BY <1>1, <1>2, <1>3, <1>4 DEF LinkedTo, r

LEMMA EquationIs ==
  ASSUME Regular, NEW k \in Strand, NEW i \in 1..ChunkNum
  PROVE  Equation(k, i) = {Data(i), Parity(k, i), Left(k, i)}
<1> DEFINE n == ChunkNum
           before == Before(i, k, n)
           last == {l \in 1..n : ForwardNeighbor(l, k) > n /\ i \in Prefix(k, n)[l]}
           prior(l) == IF Before(l, k, n) = {} THEN Data(l) ELSE Parity(k, l)
<1>1. PICK j \in 1..n : LinkedTo(i, j, k)
  BY LeftExists
<1>2. Left(k, i) = IF IsStart(j, k) THEN Data(j) ELSE Parity(k, j)
  BY <1>1, LeftIs
<1>3. Equation(k, i) = {Data(i), Parity(k, i)} \cup
        IF before = {} THEN {Parity(k, l) : l \in last} ELSE {prior(l) : l \in before}
  BY DEF Equation
<1>4. PICK h \in 1..n : LinkedTo(j, h, k)
  BY LeftExists
<1>5. prior(j) = IF IsStart(j, k) THEN Data(j) ELSE Parity(k, j)
  <2>1. Before(j, k, n) = {} <=> IsStart(j, k)
    BY <1>4 DEF LinkedTo
  <2> QED BY <2>1
<1> HIDE DEF prior
<1>6. CASE IsStart(i, k)
  <2>1. before = {} /\ last = {j} /\ ~IsStart(j, k)
    BY <1>1, <1>6 DEF LinkedTo
  <2> HIDE DEF before, last
  <2>2. {Parity(k, l) : l \in last} = {Left(k, i)}
    BY <1>2, <2>1
  <2> QED BY <1>3, <2>1, <2>2
<1>7. CASE ~IsStart(i, k)
  <2>1. before = {j}
    BY <1>1, <1>7 DEF LinkedTo
  <2> HIDE DEF before, last
  <2>2. {prior(l) : l \in before} = {Left(k, i)}
    BY <1>2, <1>5, <2>1
  <2> QED BY <1>3, <2>1, <2>2
<1> QED BY <1>6, <1>7

\* The XOR of an equation is nothing.
LEMMA EquationHolds ==
  ASSUME Regular, NEW k \in Strand, NEW i \in 1..ChunkNum
  PROVE  LET d == Value[Data(i)]
             p == Value[Parity(k, i)]
             l == Value[Left(k, i)]
         IN  /\ d = SymDiff(l, p) /\ d = SymDiff(p, l)
             /\ p = SymDiff(l, d) /\ p = SymDiff(d, l)
             /\ l = SymDiff(d, p) /\ l = SymDiff(p, d)
             /\ d \in Chunk /\ p \in Chunk
<1> DEFINE n == ChunkNum
           upTo == Prefix(k, n)
<1>1. PICK j \in 1..n : LinkedTo(i, j, k)
  BY LeftExists
<1>2. Value[Data(i)] = {i} /\ Value[Parity(k, i)] = Codeword(k, n)[i]
  BY BlockIs DEF Value
<1>3. Value[Left(k, i)] = upTo[j]
  <2>1. PICK h \in 1..n : LinkedTo(j, h, k)
    BY LeftExists
  <2>2. CASE IsStart(j, k)
    <3>1. Left(k, i) = Data(j) /\ upTo[j] = {j}
      BY <1>1, <2>1, <2>2, LeftIs DEF LinkedTo
    <3> QED BY <3>1, BlockIs DEF Value
  <2>3. CASE ~IsStart(j, k)
    <3>1. Left(k, i) = Parity(k, j) /\ upTo[j] = Codeword(k, n)[j]
      BY <1>1, <2>1, <2>3, LeftIs DEF LinkedTo
    <3> QED BY <3>1, BlockIs DEF Value
  <2> QED BY <2>2, <2>3
<1>4. Codeword(k, n)[i] = SymDiff({i}, upTo[j])
  BY <1>1 DEF LinkedTo
<1>5. upTo[j] \subseteq 1..n
  <2>0. /\ EP!Square /\ EP!PositionsAssumption /\ EP!EntanglerAssumption
        /\ k \in EP!Strand /\ n \in Nat
    BY Assumed, LatticeAssumption DEF Strand, EP!Strand
  <2>1. \A x \in EP!Prefix(k, n)[j] : x \in 1..j
    BY <2>0, EP!PrefixIn
  <2> QED BY <2>0, <2>1, SameCode
<1> DEFINE u == upTo[j]
           c == Codeword(k, n)[i]
<1>6. c = SymDiff({i}, u) /\ u \subseteq 1..n
  BY <1>4, <1>5
<1> HIDE DEF u, c
<1>7. /\ {i} = SymDiff(u, c) /\ {i} = SymDiff(c, u) /\ c = SymDiff(u, {i})
      /\ u = SymDiff({i}, c) /\ u = SymDiff(c, {i}) /\ c \subseteq 1..n
  BY <1>6 DEF SymDiff
<1> QED BY <1>2, <1>3, <1>6, <1>7 DEF u, c, Chunk

\* The pairs of a data block are what is on the left of its parities with them and, at the
\* start of a chain, the next block of it with its parity.
DataPair(x, k, i) ==
  \/ x = <<Left(k, i), Parity(k, i)>>
  \/ IsStart(i, k) /\ x = <<Data(RightData(k, i)), Parity(k, RightData(k, i))>>

\* Those of a parity are what is on its left with its data block and, in a chain, the next
\* block of it with its parity.
ParityPair(x, k, i) ==
  \/ x = <<Left(k, i), Data(i)>>
  \/ ~IsStart(i, k) /\ x = <<Data(RightData(k, i)), Parity(k, RightData(k, i))>>

LEMMA LeftInBlock ==
  ASSUME Regular, NEW k \in Strand, NEW i \in 1..ChunkNum
  PROVE  Left(k, i) \in Block
BY LeftExists, LeftIs

LEMMA OnePair ==
  ASSUME NEW T, NEW a \in T
  PROVE  Joined(<<a>>, <<>>) \in Seq(T) /\ Range(Joined(<<a>>, <<>>)) = {a}
<1>1. <<a>> \in Seq(T) /\ <<>> \in Seq(T)
  OBVIOUS
<1>2. Range(<<a>>) = {a} /\ Range(<<>>) = {}
  BY RangeOfOne
<1>3. /\ <<a>> \o <<>> \in Seq(T)
      /\ Range(<<a>> \o <<>>) = Range(<<a>>) \cup Range(<<>>)
  BY <1>1, RangeOfConcat
<1> QED BY <1>2, <1>3 DEF Joined

LEMMA TwoPairs ==
  ASSUME NEW T, NEW a \in T, NEW c \in T
  PROVE  Joined(<<a>>, <<c>>) \in Seq(T) /\ Range(Joined(<<a>>, <<c>>)) = {a, c}
<1>1. <<a>> \in Seq(T) /\ <<c>> \in Seq(T)
  OBVIOUS
<1>2. Range(<<a>>) = {a} /\ Range(<<c>>) = {c}
  BY RangeOfOne
<1>3. /\ <<a>> \o <<c>> \in Seq(T)
      /\ Range(<<a>> \o <<c>>) = Range(<<a>>) \cup Range(<<c>>)
  BY <1>1, RangeOfConcat
<1> QED BY <1>2, <1>3 DEF Joined

LEMMA DataPairsAre ==
  ASSUME Regular, NEW i \in 1..ChunkNum
  PROVE  /\ RecoverPairs[Data(i)] \in Seq(Block \X Block)
         /\ \A x : x \in Range(RecoverPairs[Data(i)]) <=> \E k \in Strand : DataPair(x, k, i)
<1> DEFINE first(k) == <<Left(k, i), Parity(k, i)>>
           next(k) == <<Data(RightData(k, i)), Parity(k, RightData(k, i))>>
           more(k) == IF Parity(k, i) \in WrapModified THEN <<next(k)>> ELSE <<>>
           pairs(k) == <<first(k)>> \o more(k)
           s == [k \in Strand |-> pairs(k)]
           T == Block \X Block
<1>1. ASSUME NEW k \in Strand
      PROVE  /\ pairs(k) \in Seq(T)
             /\ \A x : x \in Range(pairs(k)) <=> DataPair(x, k, i)
  <2>1. first(k) \in T
    BY BlockIs, LeftInBlock
  <2>2. next(k) \in T
    BY BlockIs, RightIs
  <2>3. Parity(k, i) \in WrapModified <=> IsStart(i, k)
    BY WrappedAre
  <2>4. \A x : DataPair(x, k, i) <=> x = first(k) \/ (IsStart(i, k) /\ x = next(k))
    BY DEF DataPair
  <2> HIDE DEF first, next, T
  <2>5. CASE IsStart(i, k)
    <3>1. pairs(k) = Joined(<<first(k)>>, <<next(k)>>)
      BY <2>3, <2>5 DEF Joined
    <3> HIDE DEF pairs
    <3>2. PICK a \in T, c \in T : a = first(k) /\ c = next(k)
      BY <2>1, <2>2
    <3>3. Joined(<<a>>, <<c>>) \in Seq(T) /\ Range(Joined(<<a>>, <<c>>)) = {a, c}
      BY TwoPairs
    <3>4. pairs(k) \in Seq(T) /\ Range(pairs(k)) = {first(k), next(k)}
      BY <3>1, <3>2, <3>3
    <3> QED BY <2>4, <2>5, <3>4
  <2>6. CASE ~IsStart(i, k)
    <3>1. pairs(k) = Joined(<<first(k)>>, <<>>)
      BY <2>3, <2>6 DEF Joined
    <3> HIDE DEF pairs
    <3>2. pairs(k) \in Seq(T) /\ Range(pairs(k)) = {first(k)}
      BY <2>1, <3>1, OnePair
    <3> QED BY <2>4, <2>6, <3>2
  <2> QED BY <2>5, <2>6
<1>2. RecoverPairs[Data(i)] = FlattenSeq(s)
  BY BlockIs DEF RecoverPairs, DataPairs, Left
<1> HIDE DEF pairs, T
<1>3. s \in Seq(Seq(T)) /\ Len(s) = Alpha /\ Alpha \in 2..3 /\ \A k \in Strand : s[k] = pairs(k)
  <2>1. s \in [1..Alpha -> Seq(T)] /\ Alpha \in Nat
    BY <1>1, PositionsAssumption DEF Strand
  <2>2. \A k \in Strand : s[k] = pairs(k)
    OBVIOUS
  <2> HIDE DEF s
  <2>3. s \in Seq(Seq(T)) /\ Len(s) = Alpha
    BY <2>1
  <2> QED BY <2>2, <2>3, PositionsAssumption
<1> HIDE DEF s
<1>4. /\ FlattenSeq(s) \in Seq(T)
      /\ Range(FlattenSeq(s)) = UNION {Range(s[k]) : k \in 1..Len(s)}
  BY <1>3, Flattened
<1>5. Range(FlattenSeq(s)) = UNION {Range(pairs(k)) : k \in Strand}
  BY <1>3, <1>4 DEF Strand
<1>6. \A x : x \in Range(FlattenSeq(s)) <=> \E k \in Strand : x \in Range(pairs(k))
  BY <1>5
<1>7. \A x : (\E k \in Strand : x \in Range(pairs(k))) <=> \E k \in Strand : DataPair(x, k, i)
  BY <1>1
<1> QED BY <1>2, <1>4, <1>6, <1>7 DEF T

LEMMA ParityPairsAre ==
  ASSUME Regular, NEW k \in Strand, NEW i \in 1..ChunkNum
  PROVE  /\ RecoverPairs[Parity(k, i)] \in Seq(Block \X Block)
         /\ \A x : x \in Range(RecoverPairs[Parity(k, i)]) <=> ParityPair(x, k, i)
<1> DEFINE first == <<Left(k, i), Data(i)>>
           next == <<Data(RightData(k, i)), Parity(k, RightData(k, i))>>
           more == IF Parity(k, i) \in WrapModified THEN <<>> ELSE <<next>>
           pairs == <<first>> \o more
           T == Block \X Block
<1>1. first \in T
  BY BlockIs, LeftInBlock
<1>2. next \in T
  BY BlockIs, RightIs
<1>3. Parity(k, i) \in WrapModified <=> IsStart(i, k)
  BY WrappedAre
<1>4. \A x : ParityPair(x, k, i) <=> x = first \/ (~IsStart(i, k) /\ x = next)
  BY DEF ParityPair
<1>5. RecoverPairs[Parity(k, i)] = pairs
  BY BlockIs DEF RecoverPairs, ParityPairs, Left
<1> HIDE DEF first, next, T
<1>6. CASE IsStart(i, k)
  <2>1. pairs = Joined(<<first>>, <<>>)
    BY <1>3, <1>6 DEF Joined
  <2> HIDE DEF pairs
  <2>2. pairs \in Seq(T) /\ Range(pairs) = {first}
    BY <1>1, <2>1, OnePair
  <2> QED BY <1>4, <1>5, <1>6, <2>2 DEF T
<1>7. CASE ~IsStart(i, k)
  <2>1. pairs = Joined(<<first>>, <<next>>)
    BY <1>3, <1>7 DEF Joined
  <2> HIDE DEF pairs
  <2>2. pairs \in Seq(T) /\ Range(pairs) = {first, next}
    BY <1>1, <1>2, <2>1, TwoPairs
  <2> QED BY <1>4, <1>5, <1>7, <2>2 DEF T
<1> QED BY <1>6, <1>7

\* A block in the left of the next one, and the equation it is in there.
LEMMA NextEquation ==
  ASSUME Regular, NEW k \in Strand, NEW i \in 1..ChunkNum
  PROVE  LET r == RightData(k, i) IN
         /\ r \in 1..ChunkNum /\ r # i
         /\ Left(k, r) = IF IsStart(i, k) THEN Data(i) ELSE Parity(k, i)
         /\ \A q \in 1..ChunkNum :
              Left(k, q) = Data(i) \/ Left(k, q) = Parity(k, i) => q = r
<1> DEFINE r == RightData(k, i)
<1>1. r \in 1..ChunkNum /\ LinkedTo(r, i, k) /\ \A q \in 1..ChunkNum : LinkedTo(q, i, k) => q = r
  BY RightIs
<1> HIDE DEF r
<1>2. r # i
  BY <1>1 DEF LinkedTo
<1>3. Left(k, r) = IF IsStart(i, k) THEN Data(i) ELSE Parity(k, i)
  BY <1>1, LeftIs
<1>4. ASSUME NEW q \in 1..ChunkNum, Left(k, q) = Data(i) \/ Left(k, q) = Parity(k, i)
      PROVE  q = r
  <2>1. PICK j \in 1..ChunkNum : LinkedTo(q, j, k)
    BY LeftExists
  <2>2. Left(k, q) = Data(j) \/ Left(k, q) = Parity(k, j)
    BY <2>1, LeftIs
  <2>3. /\ Data(j)[2] = j /\ Parity(k, j)[2] = j /\ Data(i)[2] = i /\ Parity(k, i)[2] = i
    BY BlockIs
  <2>4. j = i
    BY <1>4, <2>2, <2>3
  <2> QED BY <1>1, <2>1, <2>4
<1> QED BY <1>1, <1>2, <1>3, <1>4 DEF r

\* The left of a block's equation is another block than its two.
LEMMA LeftIsOther ==
  ASSUME Regular, NEW k \in Strand, NEW i \in 1..ChunkNum
  PROVE  Left(k, i) # Data(i) /\ Left(k, i) # Parity(k, i)
<1>1. PICK j \in 1..ChunkNum : LinkedTo(i, j, k)
  BY LeftExists
<1>2. i # j /\ (Left(k, i) = Data(j) \/ Left(k, i) = Parity(k, j))
  BY <1>1, LeftIs DEF LinkedTo
<1>3. /\ Data(j)[2] = j /\ Parity(k, j)[2] = j /\ Data(i)[2] = i /\ Parity(k, i)[2] = i
  BY BlockIs
<1> QED BY <1>2, <1>3

LEMMA LinksHold == Regular => PairsHold
<1> SUFFICES ASSUME Regular PROVE PairsHold
  OBVIOUS
<1>1. Value \in [Block -> Chunk]
  <2>1. \A b \in Block : Value[b] \in Chunk
    <3> SUFFICES ASSUME NEW b \in Block PROVE Value[b] \in Chunk
      OBVIOUS
    <3>1. CASE \E i \in 1..ChunkNum : b = Data(i)
      <4>1. 1 \in Strand
        BY PositionsAssumption DEF Strand
      <4> QED BY <3>1, <4>1, EquationHolds
    <3>2. CASE \E k \in Strand, i \in 1..ChunkNum : b = Parity(k, i)
      BY <3>2, EquationHolds
    <3> QED BY <3>1, <3>2, BlockIs
  <2>2. Value = [b \in Block |-> Value[b]]
    BY DEF Value
  <2> HIDE DEF Value
  <2> QED BY <2>1, <2>2
<1>2. ASSUME NEW b \in Block
      PROVE  /\ RecoverPairs[b] \in Seq(Block \X Block)
             /\ \A x \in Range(RecoverPairs[b]) : Value[b] = SymDiff(Value[x[1]], Value[x[2]])
  <2>1. ASSUME NEW i \in 1..ChunkNum, b = Data(i), NEW x \in Range(RecoverPairs[b])
        PROVE  Value[b] = SymDiff(Value[x[1]], Value[x[2]])
    <3>1. PICK k \in Strand : DataPair(x, k, i)
      BY <2>1, DataPairsAre
    <3>2. CASE x = <<Left(k, i), Parity(k, i)>>
      BY <2>1, <3>2, EquationHolds
    <3>3. CASE IsStart(i, k) /\ x = <<Data(RightData(k, i)), Parity(k, RightData(k, i))>>
      BY <2>1, <3>3, NextEquation, EquationHolds
    <3> QED BY <3>1, <3>2, <3>3 DEF DataPair
  <2>2. ASSUME NEW k \in Strand, NEW i \in 1..ChunkNum, b = Parity(k, i),
               NEW x \in Range(RecoverPairs[b])
        PROVE  Value[b] = SymDiff(Value[x[1]], Value[x[2]])
    <3>1. ParityPair(x, k, i)
      BY <2>2, ParityPairsAre
    <3>2. CASE x = <<Left(k, i), Data(i)>>
      BY <2>2, <3>2, EquationHolds
    <3>3. CASE ~IsStart(i, k) /\ x = <<Data(RightData(k, i)), Parity(k, RightData(k, i))>>
      BY <2>2, <3>3, NextEquation, EquationHolds
    <3> QED BY <3>1, <3>2, <3>3 DEF ParityPair
  <2>3. RecoverPairs[b] \in Seq(Block \X Block)
    BY BlockIs, DataPairsAre, ParityPairsAre
  <2> QED BY <2>1, <2>2, <2>3, BlockIs
<1>3. RecoverPairs \in [Block -> Seq(Block \X Block)]
  <2>1. RecoverPairs = [b \in Block |-> RecoverPairs[b]]
    BY DEF RecoverPairs
  <2> HIDE DEF RecoverPairs
  <2> QED BY <1>2, <2>1
<1>4. ASSUME NEW b \in Block, NEW j \in 1..Len(RecoverPairs[b])
      PROVE  Value[b] = SymDiff(Value[RecoverPairs[b][j][1]], Value[RecoverPairs[b][j][2]])
  <2> DEFINE s == RecoverPairs[b]
  <2>1. s \in Seq(Block \X Block)
    BY <1>2
  <2> HIDE DEF s
  <2>2. \A l \in 1..Len(s) : s[l] \in Range(s)
    BY <2>1 DEF Range
  <2> QED BY <1>2, <1>4, <2>2 DEF s
<1> QED BY <1>1, <1>3, <1>4 DEF PairsHold

LEMMA LinksCover == Regular => PairsCover
<1> SUFFICES ASSUME Regular PROVE PairsCover
  OBVIOUS
<1>1. \A e : e \in Equations <=> \E k \in Strand, i \in 1..ChunkNum : e = Equation(k, i)
  <2>1. ASSUME NEW e \in Equations
        PROVE  \E k \in Strand, i \in 1..ChunkNum : e = Equation(k, i)
    <3>1. PICK b \in Strand \X (1..ChunkNum) : e = Equation(b[1], b[2])
      BY DEF Equations
    <3>2. b[1] \in Strand /\ b[2] \in 1..ChunkNum
      OBVIOUS
    <3> QED BY <3>1, <3>2
  <2>2. ASSUME NEW k \in Strand, NEW i \in 1..ChunkNum
        PROVE  Equation(k, i) \in Equations
    <3>1. PICK b \in Strand \X (1..ChunkNum) : b = <<k, i>>
      OBVIOUS
    <3>2. b[1] = k /\ b[2] = i
      BY <3>1
    <3>3. Equation(b[1], b[2]) \in Equations
      BY DEF Equations
    <3> QED BY <3>2, <3>3
  <2> QED BY <2>1, <2>2
<1>2. ASSUME NEW b \in Block, NEW x \in Range(RecoverPairs[b])
      PROVE  \E e \in Equations : b \in e /\ {x[1], x[2]} = e \ {b}
  <2>1. ASSUME NEW i \in 1..ChunkNum, b = Data(i)
        PROVE  \E e \in Equations : b \in e /\ {x[1], x[2]} = e \ {b}
    <3>1. PICK k \in Strand : DataPair(x, k, i)
      BY <1>2, <2>1, DataPairsAre
    <3>2. CASE x = <<Left(k, i), Parity(k, i)>>
      <4>1. {x[1], x[2]} = {Data(i), Parity(k, i), Left(k, i)} \ {Data(i)}
        BY <3>2, LeftIsOther, BlockIs
      <4> QED BY <1>1, <2>1, <4>1, EquationIs
    <3>3. CASE IsStart(i, k) /\ x = <<Data(RightData(k, i)), Parity(k, RightData(k, i))>>
      <4>1. PICK r \in 1..ChunkNum : r = RightData(k, i)
        BY NextEquation
      <4>2. Left(k, r) = Data(i)
        BY <3>3, <4>1, NextEquation
      <4>3. {x[1], x[2]} = {Data(r), Parity(k, r), Left(k, r)} \ {Data(i)}
        BY <3>3, <4>1, <4>2, LeftIsOther, BlockIs
      <4> QED BY <1>1, <2>1, <4>2, <4>3, EquationIs
    <3> QED BY <3>1, <3>2, <3>3 DEF DataPair
  <2>2. ASSUME NEW k \in Strand, NEW i \in 1..ChunkNum, b = Parity(k, i)
        PROVE  \E e \in Equations : b \in e /\ {x[1], x[2]} = e \ {b}
    <3>1. ParityPair(x, k, i)
      BY <1>2, <2>2, ParityPairsAre
    <3>2. CASE x = <<Left(k, i), Data(i)>>
      <4>1. {x[1], x[2]} = {Data(i), Parity(k, i), Left(k, i)} \ {Parity(k, i)}
        BY <3>2, LeftIsOther, BlockIs
      <4> QED BY <1>1, <2>2, <4>1, EquationIs
    <3>3. CASE ~IsStart(i, k) /\ x = <<Data(RightData(k, i)), Parity(k, RightData(k, i))>>
      <4>1. PICK r \in 1..ChunkNum : r = RightData(k, i)
        BY NextEquation
      <4>2. Left(k, r) = Parity(k, i)
        BY <3>3, <4>1, NextEquation
      <4>3. {x[1], x[2]} = {Data(r), Parity(k, r), Left(k, r)} \ {Parity(k, i)}
        BY <3>3, <4>1, <4>2, LeftIsOther, BlockIs
      <4> QED BY <1>1, <2>2, <4>2, <4>3, EquationIs
    <3> QED BY <3>1, <3>2, <3>3 DEF ParityPair
  <2> QED BY <2>1, <2>2, BlockIs
<1>3. ASSUME NEW b \in Block, NEW e \in Equations, b \in e
      PROVE  \E x \in Range(RecoverPairs[b]) : {x[1], x[2]} = e \ {b}
  <2>1. PICK k \in Strand, i \in 1..ChunkNum : e = Equation(k, i)
    BY <1>1
  <2>2. e = {Data(i), Parity(k, i), Left(k, i)}
    BY <2>1, EquationIs
  <2>3. CASE b = Data(i)
    <3> DEFINE x == <<Left(k, i), Parity(k, i)>>
    <3>1. x \in Range(RecoverPairs[b])
      BY <2>3, DataPairsAre DEF DataPair
    <3>2. {x[1], x[2]} = e \ {b}
      BY <2>2, <2>3, LeftIsOther, BlockIs
    <3> QED BY <3>1, <3>2
  <2>4. CASE b = Parity(k, i)
    <3> DEFINE x == <<Left(k, i), Data(i)>>
    <3>1. x \in Range(RecoverPairs[b])
      BY <2>4, ParityPairsAre DEF ParityPair
    <3>2. {x[1], x[2]} = e \ {b}
      BY <2>2, <2>4, LeftIsOther, BlockIs
    <3> QED BY <3>1, <3>2
  <2>5. CASE b = Left(k, i)
    <3> DEFINE x == <<Data(i), Parity(k, i)>>
    <3>1. {x[1], x[2]} = e \ {b}
      BY <2>2, <2>5, LeftIsOther
    <3>2. PICK j \in 1..ChunkNum : LinkedTo(i, j, k)
      BY LeftExists
    <3>3. b = IF IsStart(j, k) THEN Data(j) ELSE Parity(k, j)
      BY <2>5, <3>2, LeftIs
    <3>4. i = RightData(k, j)
      BY <3>2 DEF LinkedTo
    <3>5. CASE IsStart(j, k)
      <4>1. x \in Range(RecoverPairs[b])
        BY <3>3, <3>4, <3>5, DataPairsAre DEF DataPair
      <4> QED BY <3>1, <4>1
    <3>6. CASE ~IsStart(j, k)
      <4>1. x \in Range(RecoverPairs[b])
        BY <3>3, <3>4, <3>6, ParityPairsAre DEF ParityPair
      <4> QED BY <3>1, <4>1
    <3> QED BY <3>5, <3>6
  <2> QED BY <1>3, <2>2, <2>3, <2>4, <2>5
<1> HIDE DEF RecoverPairs
<1>4. ASSUME NEW b \in Block
      PROVE  {{pair[1], pair[2]} : pair \in Range(RecoverPairs[b])} =
             {e \ {b} : e \in {eq \in Equations : b \in eq}}
  <2> DEFINE A == {{pair[1], pair[2]} : pair \in Range(RecoverPairs[b])}
             B == {e \ {b} : e \in {eq \in Equations : b \in eq}}
  <2>1. ASSUME NEW y \in A PROVE y \in B
    <3>1. PICK x \in Range(RecoverPairs[b]) : y = {x[1], x[2]}
      OBVIOUS
    <3>2. PICK e \in Equations : b \in e /\ y = e \ {b}
      BY <1>2, <3>1
    <3> QED BY <3>2
  <2>2. ASSUME NEW y \in B PROVE y \in A
    <3>1. PICK e \in Equations : b \in e /\ y = e \ {b}
      OBVIOUS
    <3>2. PICK x \in Range(RecoverPairs[b]) : {x[1], x[2]} = y
      BY <1>3, <3>1
    <3> QED BY <3>2
  <2> HIDE DEF A, B
  <2>3. A = B
    BY <2>1, <2>2
  <2> QED BY <2>3 DEF A, B
<1> QED BY <1>4 DEF PairsCover

\* The links of the lattice and the entangler agree, for every file of two columns of
\* blocks at least: whatever pair of a block a repair may try, its XOR is the block, and
\* the pairs are all that the equations of the code give.
THEOREM LinksAgree == Regular => PairsHold /\ PairsCover
BY LinksHold, LinksCover

-----------------------------------------------------------------------------
(* Stacks *)

LEMMA Push ==
  ASSUME NEW T, NEW s \in Seq(T), NEW x \in T
  PROVE  /\ <<x>> \o s \in Seq(T)
         /\ Len(<<x>> \o s) = Len(s) + 1
         /\ (<<x>> \o s)[1] = x
         /\ \A j \in 2..Len(s) + 1 : (<<x>> \o s)[j] = s[j - 1]
OBVIOUS

LEMMA Pop ==
  ASSUME NEW T, NEW s \in Seq(T), s # <<>>
  PROVE  /\ Head(s) \in T /\ Head(s) = s[1]
         /\ Tail(s) \in Seq(T)
         /\ Len(s) \in Nat \ {0}
         /\ Len(Tail(s)) = Len(s) - 1
         /\ \A j \in 1..Len(s) - 1 : Tail(s)[j] = s[j + 1]
OBVIOUS

LEMMA Replace ==
  ASSUME NEW T, NEW s \in Seq(T), s # <<>>, NEW x \in T
  PROVE  /\ <<x>> \o Tail(s) \in Seq(T)
         /\ Len(<<x>> \o Tail(s)) = Len(s)
         /\ <<x>> \o Tail(s) # <<>>
         /\ (<<x>> \o Tail(s))[1] = x
         /\ \A j \in 2..Len(s) : (<<x>> \o Tail(s))[j] = s[j]
<1>1. /\ Tail(s) \in Seq(T) /\ Len(Tail(s)) = Len(s) - 1 /\ Len(s) \in Nat \ {0}
      /\ \A j \in 1..Len(s) - 1 : Tail(s)[j] = s[j + 1]
  BY Pop
<1> DEFINE t == Tail(s)
<1> HIDE DEF t
<1>2. /\ <<x>> \o t \in Seq(T)
      /\ Len(<<x>> \o t) = Len(t) + 1
      /\ (<<x>> \o t)[1] = x
      /\ \A j \in 2..Len(t) + 1 : (<<x>> \o t)[j] = t[j - 1]
  BY <1>1, Push DEF t
<1>3. \A j \in 2..Len(s) : t[j - 1] = s[j]
  <2> TAKE j \in 2..Len(s)
  <2>1. j - 1 \in 1..Len(s) - 1 /\ (j - 1) + 1 = j
    BY <1>1
  <2> QED BY <1>1, <2>1 DEF t
<1>4. Len(t) + 1 = Len(s)
  BY <1>1 DEF t
<1>5. <<x>> \o t # <<>>
  BY <1>1, <1>2, <1>4, Len(<<>>) = 0
<1> QED BY <1>2, <1>3, <1>4, <1>5 DEF t

-----------------------------------------------------------------------------
(* Frames *)

\* The pairs a frame has left give its block; a left neighbour belongs to a pair.
Gives(f) ==
  /\ \A l \in 1..Len(f.pairs) :
       Value[f.block] = SymDiff(Value[f.pairs[l][1]], Value[f.pairs[l][2]])
  /\ f.haveLeft => f.pairs # <<>>

GivingFrames == {f \in Frames : Gives(f)}

LEMMA FrameGives ==
  ASSUME PairsHold, NEW b \in Block, NEW d \in Nat \ {0}
  PROVE  Frame(b, d) \in GivingFrames
BY DEF PairsHold, Frame, Frames, GivingFrames, Gives

LEMMA NextPairGives ==
  ASSUME NEW f \in GivingFrames, f.pairs # <<>>
  PROVE  /\ [f EXCEPT !.pairs = Tail(@), !.haveLeft = FALSE] \in GivingFrames
         /\ [f EXCEPT !.pairs = Tail(@), !.haveLeft = FALSE].block = f.block
         /\ [f EXCEPT !.pairs = Tail(@), !.haveLeft = FALSE].haveLeft = FALSE
<1> DEFINE g == [f EXCEPT !.pairs = Tail(@), !.haveLeft = FALSE]
<1>1. f \in Frames /\ Gives(f) /\ f.pairs \in Seq(Block \X Block)
  BY DEF GivingFrames, Frames
<1>2. /\ g.block = f.block /\ g.pairs = Tail(f.pairs) /\ g.haveLeft = FALSE
      /\ (Tail(f.pairs) \in Seq(Block \X Block) => g \in Frames)
  BY <1>1 DEF Frames
<1>3. /\ Tail(f.pairs) \in Seq(Block \X Block)
      /\ Len(f.pairs) \in Nat \ {0}
      /\ Len(Tail(f.pairs)) = Len(f.pairs) - 1
      /\ \A l \in 1..Len(f.pairs) - 1 : Tail(f.pairs)[l] = f.pairs[l + 1]
  BY <1>1, Pop
<1>4. \A l \in 1..Len(g.pairs) :
        Value[g.block] = SymDiff(Value[g.pairs[l][1]], Value[g.pairs[l][2]])
  <2> TAKE l \in 1..Len(g.pairs)
  <2>1. l + 1 \in 1..Len(f.pairs) /\ g.pairs[l] = f.pairs[l + 1]
    BY <1>2, <1>3
  <2> QED BY <1>1, <1>2, <2>1 DEF Gives
<1> HIDE DEF g
<1>5. Gives(g)
  BY <1>2, <1>4 DEF Gives
<1> QED BY <1>2, <1>3, <1>5 DEF GivingFrames, g

LEMMA LeftGives ==
  ASSUME NEW f \in GivingFrames, f.pairs # <<>>
  PROVE  /\ [f EXCEPT !.haveLeft = TRUE] \in GivingFrames
         /\ [f EXCEPT !.haveLeft = TRUE].block = f.block
         /\ [f EXCEPT !.haveLeft = TRUE].pairs = f.pairs
BY DEF GivingFrames, Frames, Gives

-----------------------------------------------------------------------------
(* The invariant *)

Typed ==
  /\ repaired \subseteq Block
  /\ status \in [Block -> {"NoData", "RepairPending", "DataAvailable"}]
  /\ chunk \in [Block -> Chunk]
  /\ request \in [block : Block, depth : Nat \ {0}] \cup {NoRequest}
  /\ stack \in Seq(GivingFrames)
  /\ asked \in 0..MaxRequests

\* Below the top of a stack every block is trying a pair.
TryingIn(s) == \A j \in 2..Len(s) : s[j].pairs # <<>>

\* The left neighbours that are there stay there.
LeftIn(s, st) ==
  \A j \in 1..Len(s) : s[j].haveLeft => st[s[j].pairs[1][1]] = "DataAvailable"

PendingIn(s, st) ==
  /\ \A b \in Block : st[b] = "RepairPending" <=> \E j \in 1..Len(s) : s[j].block = b
  /\ \A j, l \in 1..Len(s) : s[j].block = s[l].block => j = l

StackInv ==
  /\ TryingIn(stack)
  /\ LeftIn(stack, status)
  /\ PendingIn(stack, status)
  /\ ~Busy => stack = <<>>

\* The invariant of the lattice itself, whatever the getter can fetch; and of the network.
BlocksInv == Typed /\ StackInv /\ HoldsItsValue
NetInv == net \subseteq Block /\ changes \in 0..MaxChanges

IInv == BlocksInv /\ NetInv

-----------------------------------------------------------------------------
(* What a step does to the stack *)

LEMMA TargetType ==
  ASSUME Typed, Looking
  PROVE  /\ Target \in Block /\ TargetDepth \in Nat \ {0}
         /\ stack # <<>> => /\ stack[1] \in GivingFrames /\ Head(stack) = stack[1]
                            /\ stack[1].pairs # <<>>
                            /\ stack[1].pairs[1] \in Block \X Block
                            /\ Head(stack[1].pairs) = stack[1].pairs[1]
                            /\ 1 \in 1..Len(stack[1].pairs)
<1>1. CASE stack = <<>>
  <2>1. request \in [block : Block, depth : Nat \ {0}]
    BY DEF Typed, Looking, Busy
  <2> QED BY <1>1, <2>1 DEF Target, TargetDepth
<1>2. CASE stack # <<>>
  <2>1. stack[1] \in GivingFrames /\ Head(stack) = stack[1]
    BY <1>2, Pop DEF Typed
  <2>2. /\ stack[1].pairs \in Seq(Block \X Block) /\ stack[1].depth \in Nat \ {0}
        /\ stack[1].pairs # <<>>
    BY <1>2, <2>1 DEF GivingFrames, Frames, Looking
  <2>3. /\ stack[1].pairs[1] \in Block \X Block
        /\ Head(stack[1].pairs) = stack[1].pairs[1]
        /\ 1 \in 1..Len(stack[1].pairs)
    BY <2>2, Pop
  <2>4. Target \in Block /\ TargetDepth \in Nat \ {0}
    BY <1>2, <2>1, <2>2, <2>3 DEF Target, TargetDepth
  <2> QED BY <2>1, <2>2, <2>3, <2>4
<1> QED BY <1>1, <1>2

\* A failed pair leaves the blocks of the stack where they are.
LEMMA PairFailedStack ==
  ASSUME NEW s \in Seq(GivingFrames), s # <<>> => s[1].pairs # <<>>, NEW st,
         TryingIn(s), LeftIn(s, st)
  PROVE  /\ PairFailed(s) \in Seq(GivingFrames)
         /\ Len(PairFailed(s)) = Len(s)
         /\ s = <<>> => PairFailed(s) = <<>>
         /\ \A j \in 1..Len(s) : PairFailed(s)[j].block = s[j].block
         /\ TryingIn(PairFailed(s))
         /\ LeftIn(PairFailed(s), st)
<1>1. CASE s = <<>>
  BY <1>1 DEF PairFailed
<1>2. CASE s # <<>>
  <2> DEFINE f == s[1]
             g == [f EXCEPT !.pairs = Tail(@), !.haveLeft = FALSE]
             t == <<g>> \o Tail(s)
  <2>1. f \in GivingFrames /\ Head(s) = f /\ Len(s) \in Nat \ {0}
    BY <1>2, Pop
  <2>2. g \in GivingFrames /\ g.block = f.block /\ g.haveLeft = FALSE
    BY <1>2, <2>1, NextPairGives
  <2>3. PairFailed(s) = t
    BY <1>2, <2>1 DEF PairFailed
  <2> HIDE DEF g
  <2>4. /\ t \in Seq(GivingFrames) /\ Len(t) = Len(s) /\ t[1] = g
        /\ \A j \in 2..Len(s) : t[j] = s[j]
    BY <1>2, <2>2, Replace
  <2> HIDE DEF t
  <2>5. \A j \in 1..Len(s) : t[j].block = s[j].block
    <3> TAKE j \in 1..Len(s)
    <3> QED BY <2>1, <2>2, <2>4
  <2>6. TryingIn(t)
    BY <2>1, <2>4 DEF TryingIn
  <2>7. LeftIn(t, st)
    <3> SUFFICES ASSUME NEW j \in 1..Len(t), t[j].haveLeft
                 PROVE  st[t[j].pairs[1][1]] = "DataAvailable"
      BY DEF LeftIn
    <3>1. j \in 2..Len(s)
      BY <2>1, <2>2, <2>4
    <3> QED BY <2>4, <3>1 DEF LeftIn
  <2> QED BY <1>2, <2>3, <2>4, <2>5, <2>6, <2>7
<1> QED BY <1>1, <1>2

\* The frames below the top.
LEMMA TailStack ==
  ASSUME NEW s \in Seq(GivingFrames), s # <<>>, NEW st, NEW v, v # "RepairPending",
         st \in [Block -> {"NoData", "RepairPending", "DataAvailable"}],
         TryingIn(s), LeftIn(s, st), PendingIn(s, st)
  PROVE  LET b == s[1].block  new == [st EXCEPT ![b] = v] IN
         /\ Tail(s) \in Seq(GivingFrames)
         /\ b \in Block /\ st[b] = "RepairPending"
         /\ Tail(s) # <<>> => Tail(s)[1].pairs # <<>>
         /\ TryingIn(Tail(s)) /\ LeftIn(Tail(s), new) /\ PendingIn(Tail(s), new)
<1> DEFINE b == s[1].block
           new == [st EXCEPT ![b] = v]
           t == Tail(s)
<1>1. /\ t \in Seq(GivingFrames) /\ Len(s) \in Nat \ {0} /\ Len(t) = Len(s) - 1
      /\ \A j \in 1..Len(s) - 1 : t[j] = s[j + 1]
      /\ s[1] \in GivingFrames
  BY Pop
<1> HIDE DEF t
<1>2. \A j \in 1..Len(t) : t[j] = s[j + 1] /\ j + 1 \in 2..Len(s) /\ j + 1 \in 1..Len(s)
  BY <1>1
<1>3. 1 \in 1..Len(s) /\ b \in Block /\ st[b] = "RepairPending"
  <2>1. 1 \in 1..Len(s) /\ b \in Block
    BY <1>1 DEF GivingFrames, Frames
  <2> QED BY <2>1 DEF PendingIn
<1>4. t # <<>> => t[1].pairs # <<>>
  <2> SUFFICES ASSUME t # <<>> PROVE t[1].pairs # <<>>
    OBVIOUS
  <2>1. 1 \in 1..Len(t)
    BY <1>1, Pop
  <2> QED BY <1>2, <2>1 DEF TryingIn
<1>5. TryingIn(t)
  <2> SUFFICES ASSUME NEW j \in 2..Len(t) PROVE t[j].pairs # <<>>
    BY DEF TryingIn
  <2>1. j \in 1..Len(t)
    BY <1>1
  <2> QED BY <1>2, <2>1 DEF TryingIn
<1>6. LeftIn(t, new)
  <2> SUFFICES ASSUME NEW j \in 1..Len(t), t[j].haveLeft
               PROVE  new[t[j].pairs[1][1]] = "DataAvailable"
    BY DEF LeftIn
  <2>1. t[j] = s[j + 1] /\ j + 1 \in 1..Len(s) /\ t[j].pairs # <<>>
    BY <1>2 DEF TryingIn
  <2>2. st[t[j].pairs[1][1]] = "DataAvailable"
    BY <2>1 DEF LeftIn
  <2>3. t[j].pairs[1] \in Block \X Block
    <3>1. t[j] \in GivingFrames
      BY <1>1
    <3>2. t[j].pairs \in Seq(Block \X Block)
      BY <3>1 DEF GivingFrames, Frames
    <3> QED BY <2>1, <3>2, Pop
  <2>4. t[j].pairs[1][1] # b
    BY <1>3, <2>2
  <2> QED BY <2>2, <2>3, <2>4
<1>7. PendingIn(t, new)
  <2>1. ASSUME NEW c \in Block
        PROVE  new[c] = "RepairPending" <=> \E j \in 1..Len(t) : t[j].block = c
    <3>1. CASE c = b
      <4>1. new[c] = v
        BY <1>3, <3>1
      <4>2. ASSUME NEW j \in 1..Len(t), t[j].block = c PROVE FALSE
        <5>1. j + 1 = 1
          BY <1>2, <1>3, <3>1, <4>2 DEF PendingIn
        <5> QED BY <5>1
      <4> QED BY <4>1, <4>2
    <3>2. CASE c # b
      <4>1. new[c] = st[c]
        BY <3>2
      <4>2. ASSUME NEW j \in 1..Len(s), s[j].block = c
            PROVE  \E l \in 1..Len(t) : t[l].block = c
        <5>1. j # 1
          BY <3>2, <4>2
        <5>2. j - 1 \in 1..Len(t) /\ (j - 1) + 1 = j
          BY <1>1, <5>1
        <5>3. t[j - 1] = s[j]
          BY <1>2, <5>2
        <5> QED BY <4>2, <5>2, <5>3
      <4>3. ASSUME NEW j \in 1..Len(t), t[j].block = c
            PROVE  \E l \in 1..Len(s) : s[l].block = c
        BY <1>2, <4>3
      <4> QED BY <4>1, <4>2, <4>3 DEF PendingIn
    <3> QED BY <3>1, <3>2
  <2>2. ASSUME NEW j \in 1..Len(t), NEW l \in 1..Len(t), t[j].block = t[l].block
        PROVE  j = l
    <3>1. s[j + 1].block = s[l + 1].block
      BY <1>2, <2>2
    <3>2. j + 1 = l + 1
      BY <1>2, <3>1 DEF PendingIn
    <3> QED BY <3>2
  <2> QED BY <2>1, <2>2 DEF PendingIn
<1> QED BY <1>1, <1>3, <1>4, <1>5, <1>6, <1>7 DEF t

-----------------------------------------------------------------------------
(* Initially, and step by step *)

LEMMA InitInv == Init => IInv
<1> SUFFICES ASSUME Init PROVE IInv
  OBVIOUS
<1>1. Typed /\ NetInv
  BY LatticeAssumption DEF Init, Typed, NetInv, Block, Chunk, LatticeAssumption
<1>2. StackInv
  <2>1. stack = <<>> /\ Len(stack) = 0 /\ status = [b \in Block |-> "NoData"]
    BY DEF Init
  <2> QED BY <2>1 DEF StackInv, TryingIn, LeftIn, PendingIn
<1>3. HoldsItsValue
  BY DEF Init, HoldsItsValue, Available
<1> QED BY <1>1, <1>2, <1>3 DEF IInv, BlocksInv

\* A block in neither state of repair changes to "DataAvailable".
LEMMA DownloadInv == PairsHold /\ BlocksInv /\ Download => BlocksInv'
<1> SUFFICES ASSUME PairsHold, BlocksInv, Download PROVE BlocksInv'
  OBVIOUS
<1>1. Typed /\ StackInv /\ HoldsItsValue /\ Target \in Block
  BY TargetType DEF BlocksInv, Download
<1> DEFINE b == Target
<1> HIDE DEF b
<1>2. /\ b \in Block /\ status[b] = "NoData" /\ Value \in [Block -> Chunk]
      /\ status' = [status EXCEPT ![b] = "DataAvailable"]
      /\ chunk' = [chunk EXCEPT ![b] = Value[b]]
      /\ UNCHANGED <<repaired, request, stack, asked>>
  BY <1>1 DEF Download, PairsHold, b
<1>3. Typed'
  BY <1>1, <1>2 DEF Typed
<1>4. StackInv'
  <2>1. LeftIn(stack, status')
    BY <1>1, <1>2 DEF StackInv, LeftIn, Typed
  <2>2. PendingIn(stack, status')
    BY <1>1, <1>2 DEF StackInv, PendingIn, Typed
  <2> QED BY <1>1, <1>2, <2>1, <2>2 DEF StackInv, Busy
<1>5. HoldsItsValue'
  BY <1>1, <1>2 DEF HoldsItsValue, Available, Typed
<1> QED BY <1>3, <1>4, <1>5 DEF BlocksInv

LEMMA StartRepairInv == PairsHold /\ BlocksInv /\ StartRepair => BlocksInv'
<1> SUFFICES ASSUME PairsHold, BlocksInv, StartRepair PROVE BlocksInv'
  OBVIOUS
<1> DEFINE b == Target
           f == Frame(Target, TargetDepth - 1)
           s == <<f>> \o stack
<1>1. /\ Typed /\ StackInv /\ HoldsItsValue /\ Looking
      /\ b \in Block /\ TargetDepth - 1 \in Nat \ {0}
      /\ stack # <<>> => stack[1].pairs # <<>>
  BY TargetType DEF BlocksInv, StartRepair
<1>2. f \in GivingFrames /\ f.block = b /\ f.haveLeft = FALSE
  BY <1>1, FrameGives DEF Frame
<1>3. /\ status[b] = "NoData" /\ stack' = s
      /\ status' = [status EXCEPT ![b] = "RepairPending"]
      /\ UNCHANGED <<chunk, repaired, request, asked>>
  BY DEF StartRepair
<1> HIDE DEF b, f
<1>4. /\ s \in Seq(GivingFrames) /\ Len(s) = Len(stack) + 1 /\ s[1] = f
      /\ \A j \in 2..Len(stack) + 1 : s[j] = stack[j - 1]
      /\ Len(stack) \in Nat
  BY <1>1, <1>2, Push DEF Typed
<1> HIDE DEF s
<1>5. Typed'
  BY <1>1, <1>3, <1>4 DEF Typed
<1>6. \A j \in 1..Len(s) : j = 1 \/ (j - 1 \in 1..Len(stack) /\ s[j] = stack[j - 1])
  BY <1>4
<1>7. \A j \in 1..Len(stack) : /\ j + 1 \in 1..Len(s) /\ s[j + 1] = stack[j]
                               /\ stack[j].block # b
  <2> TAKE j \in 1..Len(stack)
  <2>1. j + 1 \in 2..Len(stack) + 1 /\ (j + 1) - 1 = j
    BY <1>4
  <2>2. stack[j].block # b
    BY <1>1, <1>3 DEF StackInv, PendingIn
  <2> QED BY <1>4, <2>1, <2>2
<1>8. TryingIn(s)
  <2> SUFFICES ASSUME NEW j \in 2..Len(s) PROVE s[j].pairs # <<>>
    BY DEF TryingIn
  <2>1. j - 1 \in 1..Len(stack) /\ s[j] = stack[j - 1] /\ stack # <<>>
    BY <1>4
  <2>2. CASE j = 2
    BY <1>1, <2>1, <2>2
  <2>3. CASE j # 2
    <3>1. j - 1 \in 2..Len(stack)
      BY <1>4, <2>3
    <3> QED BY <1>1, <2>1, <3>1 DEF StackInv, TryingIn
  <2> QED BY <2>2, <2>3
<1>9. LeftIn(s, status')
  <2> SUFFICES ASSUME NEW j \in 1..Len(s), s[j].haveLeft
               PROVE  status'[s[j].pairs[1][1]] = "DataAvailable"
    BY DEF LeftIn
  <2>1. j - 1 \in 1..Len(stack) /\ s[j] = stack[j - 1]
    BY <1>2, <1>4, <1>6
  <2>2. status[s[j].pairs[1][1]] = "DataAvailable"
    BY <1>1, <2>1 DEF StackInv, LeftIn
  <2>3. s[j].pairs[1][1] # b
    BY <1>3, <2>2
  <2>4. s[j].pairs[1][1] \in Block
    <3>1. s[j] \in GivingFrames
      BY <1>4
    <3>2. s[j].pairs \in Seq(Block \X Block) /\ s[j].pairs # <<>>
      BY <3>1 DEF GivingFrames, Frames, Gives
    <3> QED BY <3>2, Pop
  <2> QED BY <1>1, <1>3, <2>2, <2>3, <2>4 DEF Typed
<1>10. PendingIn(s, status')
  <2>1. ASSUME NEW c \in Block
        PROVE  status'[c] = "RepairPending" <=> \E j \in 1..Len(s) : s[j].block = c
    <3>1. CASE c = b
      <4>1. 1 \in 1..Len(s) /\ s[1].block = b
        BY <1>2, <1>4
      <4> QED BY <1>1, <1>3, <3>1, <4>1 DEF Typed
    <3>2. CASE c # b
      <4>1. status'[c] = status[c]
        BY <1>1, <1>3, <3>2 DEF Typed
      <4>2. ASSUME NEW j \in 1..Len(stack), stack[j].block = c
            PROVE  \E l \in 1..Len(s) : s[l].block = c
        BY <1>7, <4>2
      <4>3. ASSUME NEW j \in 1..Len(s), s[j].block = c
            PROVE  \E l \in 1..Len(stack) : stack[l].block = c
        BY <1>2, <1>4, <1>6, <3>2, <4>3
      <4> QED BY <1>1, <4>1, <4>2, <4>3 DEF StackInv, PendingIn
    <3> QED BY <3>1, <3>2
  <2>2. ASSUME NEW j \in 1..Len(s), NEW l \in 1..Len(s), s[j].block = s[l].block
        PROVE  j = l
    <3>1. CASE j = 1 \/ l = 1
      <4>1. \A m \in 1..Len(s) : m # 1 => s[m].block # b
        <5> SUFFICES ASSUME NEW m \in 1..Len(s), m # 1 PROVE s[m].block # b
          OBVIOUS
        <5>1. m - 1 \in 1..Len(stack) /\ s[m] = stack[m - 1]
          BY <1>6
        <5> QED BY <1>7, <5>1
      <4>2. s[1].block = b
        BY <1>2, <1>4
      <4> QED BY <2>2, <3>1, <4>1, <4>2
    <3>2. CASE j # 1 /\ l # 1
      <4>1. /\ j - 1 \in 1..Len(stack) /\ s[j] = stack[j - 1]
            /\ l - 1 \in 1..Len(stack) /\ s[l] = stack[l - 1]
        BY <1>6, <3>2
      <4>2. j - 1 = l - 1
        BY <1>1, <2>2, <4>1 DEF StackInv, PendingIn
      <4> QED BY <4>2
    <3> QED BY <3>1, <3>2
  <2> QED BY <2>1, <2>2 DEF PendingIn
<1>11. StackInv'
  BY <1>1, <1>3, <1>8, <1>9, <1>10 DEF StackInv, Looking, Busy
<1>12. HoldsItsValue'
  BY <1>1, <1>3 DEF HoldsItsValue, Available, Typed
<1> QED BY <1>5, <1>11, <1>12 DEF BlocksInv

\* A stack that is replaced block by block keeps its blocks in repair.
LEMMA SameBlocks ==
  ASSUME NEW s \in Seq(GivingFrames), NEW t \in Seq(GivingFrames), Len(t) = Len(s),
         \A j \in 1..Len(s) : t[j].block = s[j].block,
         NEW st, PendingIn(s, st)
  PROVE  PendingIn(t, st)
BY DEF PendingIn

LEMMA FailInv == BlocksInv /\ Fail => BlocksInv'
<1> SUFFICES ASSUME BlocksInv, Fail PROVE BlocksInv'
  OBVIOUS
<1>1. /\ Typed /\ StackInv /\ HoldsItsValue /\ stack \in Seq(GivingFrames)
      /\ TryingIn(stack) /\ LeftIn(stack, status) /\ PendingIn(stack, status)
      /\ stack # <<>> => stack[1].pairs # <<>>
  BY TargetType DEF BlocksInv, Fail, Typed, StackInv
<1> DEFINE s == PairFailed(stack)
<1>2. /\ s \in Seq(GivingFrames) /\ Len(s) = Len(stack)
      /\ stack = <<>> => s = <<>>
      /\ \A j \in 1..Len(stack) : s[j].block = stack[j].block
      /\ TryingIn(s) /\ LeftIn(s, status)
  BY <1>1, PairFailedStack
<1>3. stack' = s /\ UNCHANGED <<status, chunk, repaired, asked>>
  BY DEF Fail, blocks
<1>4. (request' = request /\ stack # <<>>) \/ (request' = NoRequest /\ stack = <<>>)
  BY DEF Fail, RequestFailed
<1> HIDE DEF s
<1>5. PendingIn(s, status)
  BY <1>1, <1>2, SameBlocks
<1>6. Typed'
  BY <1>1, <1>2, <1>3, <1>4 DEF Typed
<1>7. StackInv'
  BY <1>1, <1>2, <1>3, <1>4, <1>5 DEF StackInv, Busy, Fail, Looking
<1>8. HoldsItsValue'
  BY <1>1, <1>3 DEF HoldsItsValue, Available
<1> QED BY <1>6, <1>7, <1>8 DEF BlocksInv

LEMMA GiveUpInv == BlocksInv /\ GiveUp => BlocksInv'
<1> SUFFICES ASSUME BlocksInv, GiveUp PROVE BlocksInv'
  OBVIOUS
<1> DEFINE b == stack[1].block
           t == Tail(stack)
           s == PairFailed(t)
<1>1. /\ Typed /\ StackInv /\ HoldsItsValue /\ stack \in Seq(GivingFrames) /\ stack # <<>>
      /\ status \in [Block -> {"NoData", "RepairPending", "DataAvailable"}]
      /\ TryingIn(stack) /\ LeftIn(stack, status) /\ PendingIn(stack, status)
      /\ Head(stack) = stack[1]
  BY Pop DEF BlocksInv, GiveUp, Typed, StackInv
<1>2. /\ stack' = s /\ status' = [status EXCEPT ![b] = "NoData"]
      /\ UNCHANGED <<chunk, repaired, asked>>
      /\ (request' = request /\ t # <<>>) \/ (request' = NoRequest /\ t = <<>>)
  BY <1>1 DEF GiveUp, FinishRepair, RequestFailed
<1>3. /\ t \in Seq(GivingFrames) /\ b \in Block /\ status[b] = "RepairPending"
      /\ t # <<>> => t[1].pairs # <<>>
      /\ TryingIn(t) /\ LeftIn(t, status') /\ PendingIn(t, status')
  BY <1>1, <1>2, TailStack
<1> HIDE DEF t, b
<1>4. /\ s \in Seq(GivingFrames) /\ Len(s) = Len(t)
      /\ t = <<>> => s = <<>>
      /\ \A j \in 1..Len(t) : s[j].block = t[j].block
      /\ TryingIn(s) /\ LeftIn(s, status')
  BY <1>3, PairFailedStack
<1> HIDE DEF s
<1>5. PendingIn(s, status')
  BY <1>3, <1>4, SameBlocks
<1>6. Typed'
  BY <1>1, <1>2, <1>3, <1>4 DEF Typed
<1>7. StackInv'
  BY <1>1, <1>2, <1>4, <1>5 DEF StackInv, Busy, GiveUp
<1>8. HoldsItsValue'
  BY <1>1, <1>2, <1>3 DEF HoldsItsValue, Available
<1> QED BY <1>6, <1>7, <1>8 DEF BlocksInv

LEMMA HaveLeftInv == BlocksInv /\ HaveLeft => BlocksInv'
<1> SUFFICES ASSUME BlocksInv, HaveLeft PROVE BlocksInv'
  OBVIOUS
<1> DEFINE f == [stack[1] EXCEPT !.haveLeft = TRUE]
           s == <<f>> \o Tail(stack)
<1>1. /\ Typed /\ StackInv /\ HoldsItsValue /\ stack \in Seq(GivingFrames) /\ stack # <<>>
      /\ TryingIn(stack) /\ LeftIn(stack, status) /\ PendingIn(stack, status)
      /\ stack[1] \in GivingFrames /\ Head(stack) = stack[1] /\ stack[1].pairs # <<>>
      /\ Head(stack[1].pairs) = stack[1].pairs[1]
  BY TargetType DEF BlocksInv, HaveLeft, Typed, StackInv
<1>2. f \in GivingFrames /\ f.block = stack[1].block /\ f.pairs = stack[1].pairs
  BY <1>1, LeftGives
<1>3. stack' = s /\ UNCHANGED <<status, chunk, repaired, request, asked>>
  BY <1>1 DEF HaveLeft, blocks
<1>4. status[f.pairs[1][1]] = "DataAvailable"
  BY <1>1, <1>2 DEF HaveLeft, Target
<1> HIDE DEF f
<1>5. /\ s \in Seq(GivingFrames) /\ Len(s) = Len(stack) /\ s # <<>> /\ s[1] = f
      /\ \A j \in 2..Len(stack) : s[j] = stack[j]
      /\ Len(stack) \in Nat
  BY <1>1, <1>2, Replace
<1> HIDE DEF s
<1>6. \A j \in 1..Len(stack) : j = 1 \/ j \in 2..Len(stack)
  BY <1>5
<1>7. \A j \in 1..Len(stack) : s[j].block = stack[j].block
  BY <1>2, <1>5, <1>6
<1>8. PendingIn(s, status)
  BY <1>1, <1>5, <1>7, SameBlocks
<1>9. LeftIn(s, status)
  BY <1>1, <1>4, <1>5, <1>6 DEF LeftIn
<1>10. TryingIn(s)
  BY <1>1, <1>5 DEF TryingIn
<1>11. Typed'
  BY <1>1, <1>3, <1>5 DEF Typed
<1>12. StackInv'
  BY <1>1, <1>3, <1>8, <1>9, <1>10 DEF StackInv, Busy, HaveLeft, Looking
<1>13. HoldsItsValue'
  BY <1>1, <1>3 DEF HoldsItsValue, Available
<1> QED BY <1>11, <1>12, <1>13 DEF BlocksInv

LEMMA ChunksXor ==
  ASSUME NEW c \in Chunk, NEW d \in Chunk
  PROVE  SymDiff(c, d) \in Chunk
BY DEF SymDiff, Chunk

\* The left neighbour of the pair is still there, the right one was found there: what
\* they give is the value of the block.
LEMMA RecoverInv == BlocksInv /\ Recover => BlocksInv'
<1> SUFFICES ASSUME BlocksInv, Recover PROVE BlocksInv'
  OBVIOUS
<1> DEFINE b == stack[1].block
           l == stack[1].pairs[1][1]
           r == stack[1].pairs[1][2]
           t == Tail(stack)
<1>1. /\ Typed /\ StackInv /\ HoldsItsValue /\ stack \in Seq(GivingFrames) /\ stack # <<>>
      /\ status \in [Block -> {"NoData", "RepairPending", "DataAvailable"}]
      /\ TryingIn(stack) /\ LeftIn(stack, status) /\ PendingIn(stack, status)
      /\ stack[1] \in GivingFrames /\ Head(stack) = stack[1]
      /\ Head(stack[1].pairs) = stack[1].pairs[1] /\ 1 \in 1..Len(stack[1].pairs)
      /\ l \in Block /\ r \in Block /\ Len(stack) \in Nat \ {0}
  BY TargetType, Pop DEF BlocksInv, Recover, Typed, StackInv
<1>2. /\ stack' = t /\ status' = [status EXCEPT ![b] = "DataAvailable"]
      /\ chunk' = [chunk EXCEPT ![b] = SymDiff(chunk[l], chunk[r])]
      /\ repaired' = repaired \cup {b}
      /\ UNCHANGED <<request, asked>>
  BY <1>1 DEF Recover
<1>3. status[l] = "DataAvailable" /\ status[r] = "DataAvailable"
  <2>1. 1 \in 1..Len(stack)
    BY <1>1
  <2>2. status[l] = "DataAvailable"
    BY <1>1, <2>1 DEF LeftIn, Recover
  <2>3. status[r] = "DataAvailable"
    BY <1>1 DEF Recover, Target
  <2> QED BY <2>2, <2>3
<1>4. Value[b] = SymDiff(chunk[l], chunk[r])
  <2>1. Value[b] = SymDiff(Value[l], Value[r])
    BY <1>1 DEF GivingFrames, Gives
  <2> QED BY <1>1, <1>3, <2>1 DEF HoldsItsValue, Available
<1>5. /\ t \in Seq(GivingFrames) /\ b \in Block
      /\ TryingIn(t) /\ LeftIn(t, status') /\ PendingIn(t, status')
  BY <1>1, <1>2, TailStack
<1>6. SymDiff(chunk[l], chunk[r]) \in Chunk
  BY <1>1, ChunksXor DEF Typed
<1> HIDE DEF b, l, r, t
<1>7. Typed'
  BY <1>1, <1>2, <1>5, <1>6 DEF Typed
<1>8. StackInv'
  BY <1>1, <1>2, <1>5 DEF StackInv, Busy, Recover, Looking
<1>9. HoldsItsValue'
  <2>1. \A c \in Block : status'[c] = "DataAvailable" => chunk'[c] = Value[c]
    <3> SUFFICES ASSUME NEW c \in Block, status'[c] = "DataAvailable"
                 PROVE  chunk'[c] = Value[c]
      OBVIOUS
    <3>1. CASE c = b
      BY <1>1, <1>2, <1>4, <3>1 DEF Typed
    <3>2. CASE c # b
      BY <1>1, <1>2, <3>2 DEF Typed, HoldsItsValue, Available
    <3> QED BY <3>1, <3>2
  <2> QED BY <2>1 DEF HoldsItsValue, Available
<1> QED BY <1>7, <1>8, <1>9 DEF BlocksInv

LEMMA AnswerInv == BlocksInv /\ Answer => BlocksInv'
<1> SUFFICES ASSUME BlocksInv, Answer PROVE BlocksInv'
  OBVIOUS
<1>1. Typed /\ StackInv /\ HoldsItsValue
  BY DEF BlocksInv
<1>2. /\ stack = <<>> /\ request' = NoRequest
      /\ UNCHANGED <<status, chunk, repaired, stack, asked>>
  BY DEF Answer, blocks
<1>3. Typed'
  BY <1>1, <1>2 DEF Typed
<1>4. StackInv' /\ HoldsItsValue'
  BY <1>1, <1>2 DEF StackInv, HoldsItsValue, Available
<1> QED BY <1>3, <1>4 DEF BlocksInv

\* Whatever the getter can fetch, a step of the lattice keeps the invariant.
LEMMA StepInv == PairsHold /\ BlocksInv /\ Step => BlocksInv'
BY DownloadInv, StartRepairInv, FailInv, GiveUpInv, HaveLeftInv, RecoverInv, AnswerInv
   DEF Step

LEMMA AskInv ==
  ASSUME BlocksInv, NEW b \in Requests, NEW depth \in Depths, Ask(b, depth)
  PROVE  BlocksInv'
<1>1. Typed /\ StackInv /\ HoldsItsValue
  BY DEF BlocksInv
<1>2. /\ request' = [block |-> b, depth |-> depth] /\ asked' \in 0..MaxRequests
      /\ UNCHANGED <<status, chunk, repaired, stack>> /\ ~Busy
  BY <1>1, LatticeAssumption DEF Ask, blocks, Typed, LatticeAssumption
<1>3. request' \in [block : Block, depth : Nat \ {0}]
  BY <1>2, LatticeAssumption DEF LatticeAssumption
<1>4. Typed'
  BY <1>1, <1>2, <1>3 DEF Typed
<1>5. stack = <<>>
  BY <1>1, <1>2 DEF StackInv
<1>6. StackInv' /\ HoldsItsValue'
  BY <1>1, <1>2, <1>5 DEF StackInv, HoldsItsValue, Available
<1> QED BY <1>4, <1>6 DEF BlocksInv

LEMMA BlocksStay ==
  ASSUME BlocksInv, UNCHANGED <<blocks, request, stack, asked>>
  PROVE  BlocksInv'
<1>1. Typed /\ StackInv /\ HoldsItsValue
  BY DEF BlocksInv
<1>2. Typed' /\ StackInv' /\ HoldsItsValue'
  BY <1>1 DEF blocks, Typed, StackInv, HoldsItsValue, Available, Busy
<1> QED BY <1>2 DEF BlocksInv

LEMMA NetStays ==
  ASSUME NetInv, [Next]_vars
  PROVE  NetInv'
<1>1. ASSUME NEW b \in Flickers, NetworkChanges(b) PROVE NetInv'
  BY <1>1, LatticeAssumption DEF NetworkChanges, NetInv, LatticeAssumption
<1>2. CASE \A b \in Flickers : ~NetworkChanges(b)
  <2>1. UNCHANGED <<net, changes>>
    <3>1. ASSUME NEW b \in Requests, NEW depth \in Depths, Ask(b, depth), Observe
          PROVE  UNCHANGED <<net, changes>>
      BY <3>1 DEF Observe
    <3>2. CASE Serve
      BY <3>2 DEF Serve, world
    <3>3. CASE UNCHANGED vars
      BY <3>3 DEF vars
    <3> QED BY <1>2, <3>1, <3>2, <3>3 DEF Next
  <2> QED BY <2>1 DEF NetInv
<1> QED BY <1>1, <1>2

LEMMA NextInv == PairsHold /\ IInv /\ [Next]_vars => IInv'
<1> SUFFICES ASSUME PairsHold, BlocksInv, NetInv, [Next]_vars PROVE BlocksInv'
  BY NetStays DEF IInv
<1>1. ASSUME NEW b \in Requests, NEW depth \in Depths, Ask(b, depth) PROVE BlocksInv'
  BY <1>1, AskInv
<1>2. CASE Step
  BY <1>2, StepInv
<1>3. ASSUME NEW b \in Flickers, NetworkChanges(b) PROVE BlocksInv'
  BY <1>3, BlocksStay DEF NetworkChanges, blocks
<1>4. CASE UNCHANGED vars
  BY <1>4, BlocksStay DEF vars, blocks
<1> QED BY <1>1, <1>2, <1>3, <1>4 DEF Next, Serve

-----------------------------------------------------------------------------
(* Theorems *)

\* For every file of two columns of blocks at least, whatever is lost, comes back or is
\* asked for, with any depth: a block that is there holds what was entangled.
THEOREM ValueHeld == Regular => (Spec => []HoldsItsValue)
<1> SUFFICES ASSUME Regular PROVE Spec => []HoldsItsValue
  OBVIOUS
<1>1. IInv /\ [Next]_vars => IInv'
  BY NextInv, LinksAgree
<1>2. IInv => HoldsItsValue
  BY DEF IInv, BlocksInv
<1> QED BY InitInv, <1>1, <1>2, PTL DEF Spec

\* Exactly the blocks on the stack of the request are in repair, each once: no request
\* leaves a block pending that a later one would wait for.
THEOREM PendingIsOnStack == Regular => (Spec => []PendingOnStack)
<1> SUFFICES ASSUME Regular PROVE Spec => []PendingOnStack
  OBVIOUS
<1>1. IInv /\ [Next]_vars => IInv'
  BY NextInv, LinksAgree
<1>2. IInv => PendingOnStack
  <2> SUFFICES ASSUME IInv PROVE PendingOnStack
    OBVIOUS
  <2>1. Typed /\ PendingIn(stack, status) /\ (~Busy => stack = <<>>)
    BY DEF IInv, BlocksInv, StackInv
  <2>2. \A j \in 1..Len(stack) : stack[j].block \in Block
    BY <2>1 DEF Typed, GivingFrames, Frames
  <2> QED BY <2>1, <2>2 DEF PendingOnStack, PendingIn
<1> QED BY InitInv, <1>1, <1>2, PTL DEF Spec

\* The state of a lattice keeps its types, and a left neighbour belongs to a pair.
THEOREM TypeCorrect == Regular => (Spec => []TypeOK)
<1> SUFFICES ASSUME Regular PROVE Spec => []TypeOK
  OBVIOUS
<1>1. IInv /\ [Next]_vars => IInv'
  BY NextInv, LinksAgree
<1>2. IInv => TypeOK
  <2> SUFFICES ASSUME IInv PROVE TypeOK
    OBVIOUS
  <2>1. Typed /\ NetInv
    BY DEF IInv, BlocksInv
  <2>2. \A j \in 1..Len(stack) : stack[j] \in Frames /\ Gives(stack[j])
    BY <2>1 DEF Typed, GivingFrames
  <2>3. stack \in Seq(Frames)
    BY <2>1, <2>2 DEF Typed
  <2> QED BY <2>1, <2>2, <2>3 DEF Typed, NetInv, TypeOK, Gives
<1> QED BY InitInv, <1>1, <1>2, PTL DEF Spec

-----------------------------------------------------------------------------
(* Rounds: what can be had, and when *)

LEMMA LeastIn ==
  ASSUME NEW X \in SUBSET Nat, X # {}
  PROVE  \E m \in X : \A x \in X : m <= x
<1>1. PICK m \in X : \A y \in X : <<y, m>> \notin OpToRel(<, Nat)
  BY WFMin, NatLessThanWellFounded
<1>2. ASSUME NEW y \in X PROVE m <= y
  <2>1. m \in Nat /\ y \in Nat
    OBVIOUS
  <2>2. <<y, m>> \in OpToRel(<, Nat) <=> y < m
    <3> DEFINE yx == <<y, m>>
    <3>1. yx \in Nat \X Nat /\ yx[1] = y /\ yx[2] = m
      BY <2>1
    <3> HIDE DEF yx
    <3>2. yx \in OpToRel(<, Nat) <=> yx[1] < yx[2]
      BY <3>1, Zenon DEF OpToRel
    <3>3. yx[1] < yx[2] <=> y < m
      BY <3>1
    <3> QED BY <3>2, <3>3, Zenon DEF yx
  <2>3. ~(y < m)
    BY <1>1, <2>2, Zenon
  <2> QED BY <2>1, <2>3
<1> QED BY <1>2

\* The blocks that an equation gives, all others of it being in X.
Given(X) == {b \in Block : \E e \in Equations : b \in e /\ e \ {b} \subseteq X}

IsRounds(f, base, n) ==
  f = [r \in 1..n |-> IF r = 1 THEN base ELSE f[r - 1] \cup Given(f[r - 1])]

\* The recursion of Reach has a solution.
LEMMA RoundsExist ==
  ASSUME NEW base, NEW n \in Nat
  PROVE  \E f : IsRounds(f, base, n)
<1> DEFINE X == {m \in Nat : ~\E f : IsRounds(f, base, m)}
<1> SUFFICES X = {}
  OBVIOUS
<1> SUFFICES ASSUME X # {} PROVE FALSE
  OBVIOUS
<1>1. PICK m \in X : \A x \in X : m <= x
  BY LeastIn
<1>2. m \in Nat /\ ~\E f : IsRounds(f, base, m)
  OBVIOUS
<1>3. CASE m = 0
  <2> DEFINE f == [r \in 1..0 |-> base]
  <2>1. IsRounds(f, base, 0)
    BY DEF IsRounds
  <2> QED BY <1>2, <1>3, <2>1
<1>4. CASE m # 0
  <2>1. m - 1 \in Nat /\ m - 1 \notin X
    BY <1>1, <1>2, <1>4
  <2>2. PICK g : IsRounds(g, base, m - 1)
    BY <2>1
  <2> DEFINE f == [r \in 1..m |-> IF r = 1 THEN base ELSE g[r - 1] \cup Given(g[r - 1])]
  <2>3. ASSUME NEW r \in 1..m, r # 1 PROVE f[r - 1] = g[r - 1]
    <3>1. r - 1 \in 1..(m - 1) /\ r - 1 \in 1..m
      BY <1>2, <2>3
    <3>2. g[r - 1] = IF r - 1 = 1 THEN base ELSE g[(r - 1) - 1] \cup Given(g[(r - 1) - 1])
      BY <2>2, <3>1 DEF IsRounds
    <3> QED BY <3>1, <3>2
  <2>4. f = [r \in 1..m |-> IF r = 1 THEN base ELSE f[r - 1] \cup Given(f[r - 1])]
    <3> HIDE DEF f
    <3>1. f = [r \in 1..m |-> IF r = 1 THEN base ELSE g[r - 1] \cup Given(g[r - 1])]
      BY DEF f
    <3> QED BY <2>3, <3>1
  <2>5. IsRounds(f, base, m)
    BY <2>4 DEF IsRounds
  <2> QED BY <1>2, <2>5
<1> QED BY <1>3, <1>4

\* And no two that differ.
LEMMA RoundsAgree ==
  ASSUME NEW base, NEW n \in Nat, NEW m \in Nat, NEW f, NEW g,
         IsRounds(f, base, n), IsRounds(g, base, m), NEW r \in 1..n, r \in 1..m
  PROVE  f[r] = g[r]
<1> DEFINE X == {x \in Nat : x \in 1..n /\ x \in 1..m /\ f[x] # g[x]}
<1> SUFFICES X = {}
  OBVIOUS
<1> SUFFICES ASSUME X # {} PROVE FALSE
  OBVIOUS
<1>1. PICK x \in X : \A y \in X : x <= y
  BY LeastIn
<1>2. /\ f[x] = IF x = 1 THEN base ELSE f[x - 1] \cup Given(f[x - 1])
      /\ g[x] = IF x = 1 THEN base ELSE g[x - 1] \cup Given(g[x - 1])
  BY DEF IsRounds
<1>3. x # 1
  BY <1>2
<1>4. x - 1 \in 1..n /\ x - 1 \in 1..m /\ x - 1 \in Nat /\ ~(x <= x - 1)
  BY <1>3
<1>5. f[x - 1] = g[x - 1]
  BY <1>1, <1>4
<1> QED BY <1>2, <1>3, <1>5

LEMMA ReachIsRound ==
  ASSUME NEW base, NEW d \in Nat
  PROVE  \E f : IsRounds(f, base, d) /\ Reach(base, d) = f[d]
<1> DEFINE f == CHOOSE h : IsRounds(h, base, d)
<1>1. IsRounds(f, base, d)
  BY RoundsExist
<1>2. Reach(base, d) = f[d]
  BY DEF Reach, IsRounds, Given
<1> QED BY <1>1, <1>2

LEMMA ReachIs ==
  ASSUME NEW base, NEW d \in Nat \ {0}
  PROVE  Reach(base, 1) = base /\ Reach(base, d + 1) = Reach(base, d) \cup Given(Reach(base, d))
<1>1. PICK f : IsRounds(f, base, 1) /\ Reach(base, 1) = f[1]
  BY ReachIsRound
<1>2. Reach(base, 1) = base
  BY <1>1 DEF IsRounds
<1>3. PICK g : IsRounds(g, base, d) /\ Reach(base, d) = g[d]
  BY ReachIsRound
<1>4. PICK h : IsRounds(h, base, d + 1) /\ Reach(base, d + 1) = h[d + 1]
  BY ReachIsRound
<1>5. g[d] = h[d]
  <2>1. d \in 1..d /\ d \in 1..(d + 1)
    OBVIOUS
  <2> QED BY <1>3, <1>4, <2>1, RoundsAgree
<1>6. h[d + 1] = h[d] \cup Given(h[d])
  <2>1. d + 1 \in 1..(d + 1) /\ d + 1 # 1 /\ (d + 1) - 1 = d
    OBVIOUS
  <2>2. h[d + 1] = IF d + 1 = 1 THEN base ELSE h[(d + 1) - 1] \cup Given(h[(d + 1) - 1])
    BY <1>4, <2>1 DEF IsRounds
  <2> QED BY <2>1, <2>2
<1> QED BY <1>2, <1>3, <1>4, <1>5, <1>6

\* More rounds and more to start from give more.
LEMMA ReachGrows ==
  ASSUME NEW base, NEW d \in Nat \ {0}, NEW e \in Nat \ {0}, d <= e
  PROVE  Reach(base, d) \subseteq Reach(base, e)
<1> DEFINE X == {x \in Nat : x >= d /\ ~(Reach(base, d) \subseteq Reach(base, x))}
<1> SUFFICES X = {}
  OBVIOUS
<1> SUFFICES ASSUME X # {} PROVE FALSE
  OBVIOUS
<1>1. PICK x \in X : \A y \in X : x <= y
  BY LeastIn
<1>2. x # d /\ x - 1 \in Nat \ {0} /\ x - 1 >= d /\ (x - 1) + 1 = x /\ ~(x <= x - 1)
  OBVIOUS
<1>3. Reach(base, d) \subseteq Reach(base, x - 1)
  BY <1>1, <1>2
<1>4. Reach(base, x - 1) \subseteq Reach(base, x)
  BY <1>2, ReachIs
<1> QED BY <1>3, <1>4

LEMMA ReachMore ==
  ASSUME NEW base, NEW more, base \subseteq more, NEW d \in Nat \ {0}
  PROVE  Reach(base, d) \subseteq Reach(more, d)
<1> DEFINE X == {x \in Nat : x > 0 /\ ~(Reach(base, x) \subseteq Reach(more, x))}
<1> SUFFICES X = {}
  OBVIOUS
<1> SUFFICES ASSUME X # {} PROVE FALSE
  OBVIOUS
<1>1. PICK x \in X : \A y \in X : x <= y
  BY LeastIn
<1>2. x # 1
  BY ReachIs
<1>3. x - 1 \in Nat \ {0} /\ (x - 1) + 1 = x /\ ~(x <= x - 1)
  BY <1>2
<1>4. Reach(base, x - 1) \subseteq Reach(more, x - 1)
  BY <1>1, <1>3
<1>5. Given(Reach(base, x - 1)) \subseteq Given(Reach(more, x - 1))
  BY <1>4 DEF Given
<1> QED BY <1>3, <1>4, <1>5, ReachIs

\* A block that is had at some time is had in one round and not in the one before.
LEMMA FirstHad ==
  ASSUME NEW base, NEW r \in Nat \ {0}, NEW b \in Reach(base, r), b \notin base
  PROVE  \E q \in Nat \ {0} : q + 1 <= r /\ b \in Reach(base, q + 1) /\ b \notin Reach(base, q)
<1> DEFINE X == {x \in Nat : x > 0 /\ b \in Reach(base, x)}
<1>1. PICK x \in X : \A y \in X : x <= y
  <2>1. r \in X
    OBVIOUS
  <2> QED BY <2>1, LeastIn
<1>2. x # 1 /\ x <= r
  BY <1>1, ReachIs
<1>3. x - 1 \in Nat \ {0} /\ (x - 1) + 1 = x /\ ~(x <= x - 1)
  BY <1>2
<1>4. b \notin Reach(base, x - 1)
  BY <1>1, <1>3
<1> QED BY <1>2, <1>3, <1>4

-----------------------------------------------------------------------------
(* The search: what a repair has not tried yet *)

\* A pair is what an equation leaves of its block.
OfEquation(b, p) == \E e \in Equations : b \in e /\ e \ {b} = {p[1], p[2]}

PairsIn(s) ==
  \A j \in 1..Len(s) : \A l \in 1..Len(s[j].pairs) : OfEquation(s[j].block, s[j].pairs[l])

\* A frame is that of a neighbour in the first pair of the frame below it.
NestedIn(s) ==
  \A j \in 1..Len(s) : \A i \in 1..Len(s) : i = j + 1 =>
    /\ s[i].depth = s[j].depth + 1
    /\ s[j].block \in {s[i].pairs[1][1], s[i].pairs[1][2]}

RootedIn(s, q) ==
  s # <<>> => s[Len(s)].block = q.block /\ q.depth = s[Len(s)].depth + 1

LostIn(s, there) == \A j \in 1..Len(s) : s[j].block \notin there

Pending(s, j, had) == \A l \in 1..Len(s) : l >= j => s[l].block \notin had

\* A block that is had in the next round, while neither it nor a block it is in repair
\* for is had in this one, has a pair left to try of which both are had.
Tries(s, j, W) ==
  \A r \in 1..s[j].depth :
    s[j].block \in Reach(W, r + 1) /\ Pending(s, j, Reach(W, r)) =>
      \E l \in 1..Len(s[j].pairs) :
        s[j].pairs[l][1] \in Reach(W, r) /\ s[j].pairs[l][2] \in Reach(W, r)

TriesIn(s, there) == \A W \in SUBSET there : \A j \in 1..Len(s) : Tries(s, j, W)

\* The search of a stack for request q, when the blocks of `there' were there all along.
SearchIn(s, q, there) ==
  /\ PairsIn(s)
  /\ NestedIn(s)
  /\ RootedIn(s, q)
  /\ LostIn(s, there)
  /\ TriesIn(s, there)

\* The pairs of a block are those of its equations.
LEMMA PairsAre ==
  ASSUME PairsHold, PairsCover, NEW b \in Block
  PROVE  /\ RecoverPairs[b] \in Seq(Block \X Block)
         /\ \A l \in 1..Len(RecoverPairs[b]) : OfEquation(b, RecoverPairs[b][l])
         /\ \A X : b \in Given(X) =>
              \E l \in 1..Len(RecoverPairs[b]) :
                RecoverPairs[b][l][1] \in X /\ RecoverPairs[b][l][2] \in X
<1> DEFINE ps == RecoverPairs[b]
<1>1. ps \in Seq(Block \X Block)
  BY DEF PairsHold
<1>2. {{p[1], p[2]} : p \in Range(ps)} = {e \ {b} : e \in {eq \in Equations : b \in eq}}
  BY DEF PairsCover
<1> HIDE DEF ps
<1>3. Range(ps) = {ps[l] : l \in 1..Len(ps)}
  BY <1>1 DEF Range
<1>4. ASSUME NEW l \in 1..Len(ps) PROVE OfEquation(b, ps[l])
  <2>1. {ps[l][1], ps[l][2]} \in {{p[1], p[2]} : p \in Range(ps)}
    BY <1>3
  <2> QED BY <1>2, <2>1 DEF OfEquation
<1>5. ASSUME NEW X, b \in Given(X)
      PROVE  \E l \in 1..Len(ps) : ps[l][1] \in X /\ ps[l][2] \in X
  <2>1. PICK e \in Equations : b \in e /\ e \ {b} \subseteq X
    BY <1>5 DEF Given
  <2>2. e \ {b} \in {{p[1], p[2]} : p \in Range(ps)}
    BY <1>2, <2>1
  <2>3. PICK l \in 1..Len(ps) : e \ {b} = {ps[l][1], ps[l][2]}
    BY <1>3, <2>2
  <2> QED BY <2>1, <2>3
<1> QED BY <1>1, <1>4, <1>5 DEF ps

\* A frame tries the same pairs for the same blocks wherever its stack has it.
LEMMA TriesMoved ==
  ASSUME NEW s, NEW t, NEW j \in 1..Len(s), NEW i \in 1..Len(t),
         \A l \in 1..Len(s) : l >= j =>
           \E x \in 1..Len(t) : x >= i /\ t[x].block = s[l].block,
         t[i].depth = s[j].depth, t[i].pairs = s[j].pairs, t[i].block = s[j].block,
         NEW W, Tries(s, j, W)
  PROVE  Tries(t, i, W)
<1> SUFFICES ASSUME NEW r \in 1..s[j].depth, s[j].block \in Reach(W, r + 1),
                    Pending(t, i, Reach(W, r))
             PROVE  \E l \in 1..Len(s[j].pairs) :
                      /\ s[j].pairs[l][1] \in Reach(W, r)
                      /\ s[j].pairs[l][2] \in Reach(W, r)
  BY DEF Tries
<1> DEFINE had == Reach(W, r)
<1> HIDE DEF had
<1>1. Pending(s, j, had)
  <2> SUFFICES ASSUME NEW l \in 1..Len(s), l >= j PROVE s[l].block \notin had
    BY DEF Pending
  <2>1. PICK x \in 1..Len(t) : x >= i /\ t[x].block = s[l].block
    OBVIOUS
  <2> QED BY <2>1 DEF Pending, had
<1> QED BY <1>1 DEF Tries, had

\* The frame of a block a repair starts for has all its pairs left.
LEMMA SearchPush ==
  ASSUME PairsHold, PairsCover, NEW s \in Seq(GivingFrames), NEW q, NEW there,
         NEW b \in Block, NEW d \in Nat \ {0}, SearchIn(s, q, there), b \notin there,
         s = <<>> => b = q.block /\ q.depth = d + 1,
         s # <<>> => /\ b \in {s[1].pairs[1][1], s[1].pairs[1][2]}
                     /\ s[1].depth = d + 1
  PROVE  SearchIn(<<Frame(b, d)>> \o s, q, there)
<1> DEFINE f == Frame(b, d)
           t == <<f>> \o s
<1>1. f \in GivingFrames /\ f.block = b /\ f.depth = d /\ f.pairs = RecoverPairs[b]
  BY FrameGives DEF Frame
<1> HIDE DEF f
<1>2. /\ t \in Seq(GivingFrames) /\ Len(t) = Len(s) + 1 /\ t[1] = f
      /\ \A j \in 2..Len(s) + 1 : t[j] = s[j - 1]
      /\ Len(s) \in Nat
  BY <1>1, Push
<1> HIDE DEF t
<1>3. \A j \in 1..Len(t) : j = 1 \/ (j - 1 \in 1..Len(s) /\ t[j] = s[j - 1])
  BY <1>2
<1>4. \A j \in 1..Len(s) : t[j + 1] = s[j]
  <2> TAKE j \in 1..Len(s)
  <2>1. j + 1 \in 2..Len(s) + 1 /\ (j + 1) - 1 = j
    BY <1>2
  <2> QED BY <1>2, <2>1
<1>5. PairsIn(t)
  <2> SUFFICES ASSUME NEW j \in 1..Len(t), NEW l \in 1..Len(t[j].pairs)
               PROVE  OfEquation(t[j].block, t[j].pairs[l])
    BY DEF PairsIn
  <2>1. CASE j = 1
    BY <1>1, <1>2, <2>1, PairsAre
  <2>2. CASE j # 1
    BY <1>3, <2>2 DEF SearchIn, PairsIn
  <2> QED BY <2>1, <2>2
<1>6. NestedIn(t)
  <2> SUFFICES ASSUME NEW j \in 1..Len(t), NEW i \in 1..Len(t), i = j + 1
               PROVE  /\ t[i].depth = t[j].depth + 1
                      /\ t[j].block \in {t[i].pairs[1][1], t[i].pairs[1][2]}
    BY DEF NestedIn
  <2>1. i - 1 = j /\ i # 1 /\ j \in 1..Len(s) /\ t[i] = s[j]
    BY <1>2, <1>3
  <2>2. CASE j = 1
    <3>1. s # <<>>
      BY <2>1
    <3> QED BY <1>1, <1>2, <2>1, <2>2, <3>1
  <2>3. CASE j # 1
    <3>1. j - 1 \in 1..Len(s) /\ t[j] = s[j - 1] /\ j = (j - 1) + 1
      BY <1>3, <2>3
    <3> QED BY <2>1, <3>1 DEF SearchIn, NestedIn
  <2> QED BY <2>2, <2>3
<1>7. RootedIn(t, q)
  <2>1. CASE s = <<>>
    <3>1. Len(t) = 1
      BY <1>2, <2>1
    <3> QED BY <1>1, <1>2, <2>1, <3>1 DEF RootedIn
  <2>2. CASE s # <<>>
    <3>1. Len(s) \in 1..Len(s)
      BY <1>2, <2>2, Pop
    <3>2. t[Len(t)] = s[Len(s)]
      BY <1>2, <1>4, <3>1
    <3> QED BY <2>2, <3>2 DEF SearchIn, RootedIn
  <2> QED BY <2>1, <2>2
<1>8. LostIn(t, there)
  <2> SUFFICES ASSUME NEW j \in 1..Len(t) PROVE t[j].block \notin there
    BY DEF LostIn
  <2> QED BY <1>1, <1>2, <1>3 DEF SearchIn, LostIn
<1>9. TriesIn(t, there)
  <2> SUFFICES ASSUME NEW W \in SUBSET there, NEW j \in 1..Len(t) PROVE Tries(t, j, W)
    BY DEF TriesIn
  <2>1. CASE j = 1
    <3> SUFFICES ASSUME NEW r \in 1..d, b \in Reach(W, r + 1),
                        Pending(t, 1, Reach(W, r))
                 PROVE  \E l \in 1..Len(RecoverPairs[b]) :
                          /\ RecoverPairs[b][l][1] \in Reach(W, r)
                          /\ RecoverPairs[b][l][2] \in Reach(W, r)
      BY <1>1, <1>2, <2>1 DEF Tries
    <3>1. b \notin Reach(W, r)
      BY <1>1, <1>2 DEF Pending
    <3>2. b \in Given(Reach(W, r))
      BY <3>1, ReachIs
    <3> QED BY <3>2, PairsAre
  <2>2. CASE j # 1
    <3>1. j - 1 \in 1..Len(s) /\ t[j] = s[j - 1] /\ (j - 1) + 1 = j
      BY <1>3, <2>2
    <3>2. Tries(s, j - 1, W)
      BY <3>1 DEF SearchIn, TriesIn
    <3>3. ASSUME NEW l \in 1..Len(s), l >= j - 1
          PROVE  \E x \in 1..Len(t) : x >= j /\ t[x].block = s[l].block
      <4>1. l + 1 \in 1..Len(t) /\ l + 1 >= j /\ t[l + 1] = s[l]
        BY <1>2, <1>4, <3>3
      <4> QED BY <4>1
    <3> QED BY <3>1, <3>2, <3>3, TriesMoved
  <2> QED BY <2>1, <2>2
<1> QED BY <1>5, <1>6, <1>7, <1>8, <1>9 DEF SearchIn, t, f

\* A stack that changes at the top only, in what its block has tried.
LEMMA SearchReplace ==
  ASSUME NEW s, NEW t, NEW q, NEW there, SearchIn(s, q, there),
         Len(s) \in Nat \ {0}, Len(t) = Len(s), s # <<>>, t # <<>>,
         \A j \in 2..Len(s) : t[j] = s[j],
         t[1].block = s[1].block, t[1].depth = s[1].depth,
         \A l \in 1..Len(t[1].pairs) : OfEquation(t[1].block, t[1].pairs[l]),
         \A W \in SUBSET there : Tries(t, 1, W)
  PROVE  SearchIn(t, q, there)
<1>1. \A j \in 1..Len(t) : j = 1 \/ j \in 2..Len(s)
  OBVIOUS
<1>2. \A j \in 1..Len(t) : t[j].block = s[j].block /\ t[j].depth = s[j].depth
  <2> TAKE j \in 1..Len(t)
  <2> QED BY <1>1
<1>3. PairsIn(t)
  <2> SUFFICES ASSUME NEW j \in 1..Len(t), NEW l \in 1..Len(t[j].pairs)
               PROVE  OfEquation(t[j].block, t[j].pairs[l])
    BY DEF PairsIn
  <2>1. CASE j = 1
    BY <2>1
  <2>2. CASE j \in 2..Len(s)
    <3>1. t[j] = s[j] /\ j \in 1..Len(s)
      BY <2>2
    <3> QED BY <3>1 DEF SearchIn, PairsIn
  <2> QED BY <1>1, <2>1, <2>2
<1>4. NestedIn(t)
  <2> SUFFICES ASSUME NEW j \in 1..Len(t), NEW i \in 1..Len(t), i = j + 1
               PROVE  /\ t[i].depth = t[j].depth + 1
                      /\ t[j].block \in {t[i].pairs[1][1], t[i].pairs[1][2]}
    BY DEF NestedIn
  <2>1. t[i] = s[i] /\ i \in 1..Len(s) /\ j \in 1..Len(s)
    BY <1>1
  <2>2. /\ s[i].depth = s[j].depth + 1
        /\ s[j].block \in {s[i].pairs[1][1], s[i].pairs[1][2]}
    BY <2>1 DEF SearchIn, NestedIn
  <2> QED BY <1>2, <2>1, <2>2
<1>5. RootedIn(t, q)
  <2>1. Len(s) \in 1..Len(t)
    OBVIOUS
  <2> QED BY <1>2, <2>1 DEF SearchIn, RootedIn
<1>6. LostIn(t, there)
  <2> SUFFICES ASSUME NEW j \in 1..Len(t) PROVE t[j].block \notin there
    BY DEF LostIn
  <2> QED BY <1>2 DEF SearchIn, LostIn
<1>7. TriesIn(t, there)
  <2> SUFFICES ASSUME NEW W \in SUBSET there, NEW j \in 1..Len(t) PROVE Tries(t, j, W)
    BY DEF TriesIn
  <2>1. CASE j = 1
    BY <2>1
  <2>2. CASE j \in 2..Len(s)
    <3>1. t[j] = s[j] /\ j \in 1..Len(s)
      BY <2>2
    <3>2. Tries(s, j, W)
      BY <3>1 DEF SearchIn, TriesIn
    <3>3. \A l \in 1..Len(s) : l >= j =>
            \E x \in 1..Len(t) : x >= j /\ t[x].block = s[l].block
      BY <1>2
    <3> QED BY <3>1, <3>2, <3>3, TriesMoved
  <2> QED BY <1>1, <2>1, <2>2
<1> QED BY <1>3, <1>4, <1>5, <1>6, <1>7 DEF SearchIn

\* Its left neighbour is there: nothing is tried yet.
LEMMA SearchLeft ==
  ASSUME NEW s \in Seq(GivingFrames), s # <<>>, s[1].pairs # <<>>, NEW q, NEW there,
         SearchIn(s, q, there)
  PROVE  SearchIn(<<[s[1] EXCEPT !.haveLeft = TRUE]>> \o Tail(s), q, there)
<1> DEFINE f == [s[1] EXCEPT !.haveLeft = TRUE]
           t == <<f>> \o Tail(s)
<1>1. s[1] \in GivingFrames /\ Len(s) \in Nat \ {0} /\ 1 \in 1..Len(s)
  BY Pop
<1>2. f \in GivingFrames /\ f.block = s[1].block /\ f.pairs = s[1].pairs
      /\ f.depth = s[1].depth
  BY <1>1, LeftGives DEF GivingFrames, Frames
<1> HIDE DEF f
<1>3. Len(t) = Len(s) /\ t # <<>> /\ t[1] = f /\ \A j \in 2..Len(s) : t[j] = s[j]
  BY <1>1, <1>2, Replace
<1> HIDE DEF t
<1>4. \A l \in 1..Len(t[1].pairs) : OfEquation(t[1].block, t[1].pairs[l])
  BY <1>1, <1>2, <1>3 DEF SearchIn, PairsIn
<1>5. ASSUME NEW W \in SUBSET there PROVE Tries(t, 1, W)
  <2>1. Tries(s, 1, W)
    BY <1>1 DEF SearchIn, TriesIn
  <2>2. ASSUME NEW l \in 1..Len(s)
        PROVE  \E x \in 1..Len(t) : x >= 1 /\ t[x].block = s[l].block
    <3>1. l \in 1..Len(t) /\ l >= 1 /\ (l = 1 \/ l \in 2..Len(s))
      BY <1>3
    <3> QED BY <1>2, <1>3, <3>1
  <2> QED BY <1>1, <1>2, <1>3, <2>1, <2>2, TriesMoved
<1> QED BY <1>1, <1>2, <1>3, <1>4, <1>5, SearchReplace DEF t, f

\* A pair of which one neighbour cannot be had before a block it is in repair for is not
\* missed.
LEMMA SearchFails ==
  ASSUME NEW s \in Seq(GivingFrames), s # <<>>, s[1].pairs # <<>>, NEW q, NEW there,
         SearchIn(s, q, there),
         \A W \in SUBSET there : \A r \in 1..s[1].depth :
           Pending(s, 1, Reach(W, r)) =>
             \/ s[1].pairs[1][1] \notin Reach(W, r)
             \/ s[1].pairs[1][2] \notin Reach(W, r)
  PROVE  SearchIn(PairFailed(s), q, there)
<1> DEFINE f == [s[1] EXCEPT !.pairs = Tail(@), !.haveLeft = FALSE]
           t == <<f>> \o Tail(s)
           ps == s[1].pairs
<1>1. /\ s[1] \in GivingFrames /\ Head(s) = s[1] /\ Len(s) \in Nat \ {0} /\ 1 \in 1..Len(s)
      /\ ps \in Seq(Block \X Block)
  BY Pop DEF GivingFrames, Frames
<1>2. f \in GivingFrames /\ f.block = s[1].block /\ f.pairs = Tail(ps)
      /\ f.depth = s[1].depth
  BY <1>1, NextPairGives DEF GivingFrames, Frames
<1>3. PairFailed(s) = t
  BY <1>1 DEF PairFailed
<1> HIDE DEF f
<1>4. Len(t) = Len(s) /\ t # <<>> /\ t[1] = f /\ \A j \in 2..Len(s) : t[j] = s[j]
  BY <1>1, <1>2, Replace
<1> HIDE DEF t
<1>5. /\ Len(ps) \in Nat \ {0} /\ Len(Tail(ps)) = Len(ps) - 1
      /\ \A l \in 1..Len(ps) - 1 : Tail(ps)[l] = ps[l + 1]
  BY <1>1, Pop
<1>6. \A l \in 1..Len(t[1].pairs) : OfEquation(t[1].block, t[1].pairs[l])
  <2> TAKE l \in 1..Len(t[1].pairs)
  <2>0. t[1].pairs = Tail(ps) /\ l \in 1..Len(ps) - 1
    BY <1>2, <1>4, <1>5
  <2>1. t[1].pairs[l] = ps[l + 1] /\ l + 1 \in 1..Len(ps)
    BY <1>5, <2>0
  <2> QED BY <1>1, <1>2, <1>4, <2>1 DEF SearchIn, PairsIn
<1>7. ASSUME NEW W \in SUBSET there PROVE Tries(t, 1, W)
  <2> SUFFICES ASSUME NEW r \in 1..s[1].depth, s[1].block \in Reach(W, r + 1),
                      Pending(t, 1, Reach(W, r))
               PROVE  \E l \in 1..Len(Tail(ps)) :
                        /\ Tail(ps)[l][1] \in Reach(W, r)
                        /\ Tail(ps)[l][2] \in Reach(W, r)
    BY <1>2, <1>4 DEF Tries
  <2> DEFINE had == Reach(W, r)
  <2> HIDE DEF had
  <2>1. Pending(s, 1, had)
    <3> SUFFICES ASSUME NEW l \in 1..Len(s) PROVE s[l].block \notin had
      BY DEF Pending
    <3>1. l = 1 \/ l \in 2..Len(s)
      OBVIOUS
    <3>2. t[l].block = s[l].block /\ l \in 1..Len(t) /\ l >= 1
      BY <1>2, <1>4, <3>1
    <3>3. Pending(t, 1, had)
      BY DEF had
    <3> QED BY <3>2, <3>3 DEF Pending
  <2>2. Tries(s, 1, W)
    BY <1>1 DEF SearchIn, TriesIn
  <2>3. PICK l \in 1..Len(ps) : ps[l][1] \in had /\ ps[l][2] \in had
    BY <2>1, <2>2 DEF Tries, had
  <2>4. ps[1][1] \notin had \/ ps[1][2] \notin had
    BY <2>1 DEF had
  <2>5. l # 1
    BY <2>3, <2>4
  <2>6. l - 1 \in 1..Len(Tail(ps)) /\ l - 1 \in 1..Len(ps) - 1 /\ (l - 1) + 1 = l
    BY <1>5, <2>5
  <2>7. Tail(ps)[l - 1] = ps[l]
    BY <1>5, <2>6
  <2> QED BY <2>3, <2>6, <2>7 DEF had
<1> QED BY <1>1, <1>2, <1>3, <1>4, <1>6, <1>7, SearchReplace

\* The frames below the top search on as they did.
LEMMA SearchTail ==
  ASSUME NEW s \in Seq(GivingFrames), s # <<>>, NEW q, NEW there, SearchIn(s, q, there)
  PROVE  SearchIn(Tail(s), q, there)
<1> DEFINE t == Tail(s)
<1>1. /\ t \in Seq(GivingFrames) /\ Len(s) \in Nat \ {0} /\ Len(t) = Len(s) - 1
      /\ \A j \in 1..Len(s) - 1 : t[j] = s[j + 1]
  BY Pop
<1> HIDE DEF t
<1>2. \A j \in 1..Len(t) : t[j] = s[j + 1] /\ j + 1 \in 1..Len(s)
  BY <1>1
<1>3. PairsIn(t)
  BY <1>2 DEF SearchIn, PairsIn
<1>4. NestedIn(t)
  <2> SUFFICES ASSUME NEW j \in 1..Len(t), NEW i \in 1..Len(t), i = j + 1
               PROVE  /\ t[i].depth = t[j].depth + 1
                      /\ t[j].block \in {t[i].pairs[1][1], t[i].pairs[1][2]}
    BY DEF NestedIn
  <2>1. t[i] = s[i + 1] /\ t[j] = s[j + 1] /\ i + 1 = (j + 1) + 1
        /\ i + 1 \in 1..Len(s) /\ j + 1 \in 1..Len(s)
    BY <1>2
  <2> QED BY <2>1 DEF SearchIn, NestedIn
<1>5. RootedIn(t, q)
  <2> SUFFICES ASSUME t # <<>>
               PROVE  t[Len(t)].block = q.block /\ q.depth = t[Len(t)].depth + 1
    BY DEF RootedIn
  <2>1. Len(t) \in 1..Len(t) /\ Len(t) + 1 = Len(s)
    BY <1>1, Pop
  <2>2. t[Len(t)] = s[Len(s)]
    BY <1>2, <2>1
  <2> QED BY <2>2 DEF SearchIn, RootedIn
<1>6. LostIn(t, there)
  BY <1>2 DEF SearchIn, LostIn
<1>7. TriesIn(t, there)
  <2> SUFFICES ASSUME NEW W \in SUBSET there, NEW j \in 1..Len(t) PROVE Tries(t, j, W)
    BY DEF TriesIn
  <2>1. Tries(s, j + 1, W)
    BY <1>2 DEF SearchIn, TriesIn
  <2>2. ASSUME NEW l \in 1..Len(s), l >= j + 1
        PROVE  \E x \in 1..Len(t) : x >= j /\ t[x].block = s[l].block
    <3>1. l - 1 \in 1..Len(t) /\ (l - 1) + 1 = l /\ l - 1 >= j
      BY <1>1, <2>2
    <3> QED BY <1>2, <3>1
  <2>3. j + 1 \in 1..Len(s) /\ t[j] = s[j + 1]
    BY <1>2
  <2> QED BY <2>1, <2>2, <2>3, TriesMoved
<1> QED BY <1>3, <1>4, <1>5, <1>6, <1>7 DEF SearchIn, t

LEMMA SearchEmpty ==
  ASSUME NEW q, NEW there
  PROVE  SearchIn(<<>>, q, there)
BY DEF SearchIn, PairsIn, NestedIn, RootedIn, LostIn, TriesIn

LEMMA SearchLess ==
  ASSUME NEW s, NEW q, NEW there, NEW less, less \subseteq there, SearchIn(s, q, there)
  PROVE  SearchIn(s, q, less)
<1>1. LostIn(s, less)
  BY DEF SearchIn, LostIn
<1>2. TriesIn(s, less)
  BY DEF SearchIn, TriesIn
<1> QED BY <1>1, <1>2 DEF SearchIn

\* A block whose pairs have failed cannot be had with its depth, unless one that it is in
\* repair for can be had as soon.
LEMMA OutOfPairs ==
  ASSUME NEW s \in Seq(GivingFrames), s # <<>>, s[1].pairs = <<>>, NEW q, NEW there,
         SearchIn(s, q, there), NEW W \in SUBSET there, NEW r \in 1..(s[1].depth + 1),
         Pending(s, 2, Reach(W, r))
  PROVE  s[1].block \notin Reach(W, r)
<1> SUFFICES ASSUME s[1].block \in Reach(W, r) PROVE FALSE
  OBVIOUS
<1>1. s[1] \in GivingFrames /\ Len(s) \in Nat \ {0} /\ 1 \in 1..Len(s)
  BY Pop
<1>2. s[1].depth \in Nat \ {0} /\ r \in Nat \ {0}
  BY <1>1 DEF GivingFrames, Frames
<1>3. s[1].block \notin W
  BY <1>1 DEF SearchIn, LostIn
<1>4. PICK x \in Nat \ {0} : /\ x + 1 <= r /\ s[1].block \in Reach(W, x + 1)
                             /\ s[1].block \notin Reach(W, x)
  BY <1>2, <1>3, FirstHad
<1>5. x \in 1..s[1].depth /\ x <= r
  BY <1>2, <1>4
<1>6. Reach(W, x) \subseteq Reach(W, r)
  BY <1>2, <1>5, ReachGrows
<1>7. Pending(s, 1, Reach(W, x))
  <2> SUFFICES ASSUME NEW l \in 1..Len(s) PROVE s[l].block \notin Reach(W, x)
    BY DEF Pending
  <2>1. CASE l = 1
    BY <1>4, <2>1
  <2>2. CASE l >= 2
    BY <1>6, <2>2 DEF Pending
  <2> QED BY <1>1, <2>1, <2>2
<1>8. Tries(s, 1, W)
  BY <1>1 DEF SearchIn, TriesIn
<1>9. \E l \in 1..Len(s[1].pairs) : s[1].pairs[l][1] \in Reach(W, x)
  BY <1>4, <1>5, <1>7, <1>8 DEF Tries
<1> QED BY <1>9

-----------------------------------------------------------------------------
(* The invariant of a request, and of its answer *)

\* Every round of what can be had recovers one block at least.
FoundInv ==
  /\ repaired \subseteq Available
  /\ Busy => /\ net \subseteq ever
             /\ Available \subseteq Reach(ever, 1 + Cardinality(repaired))

SearchInv ==
  /\ SearchIn(stack, request, sure)
  /\ Busy => sure \subseteq net \cup Available

DepthInv == FoundInv /\ SearchInv /\ AnswersByDepth

LEMMA BlockFinite == IsFiniteSet(Block)
<1>1. ChunkNum \in Nat
  BY LatticeAssumption DEF LatticeAssumption
<1>2. IsFiniteSet(1..ChunkNum) /\ IsFiniteSet(1..Alpha)
  BY <1>1, FS_Interval, PositionsAssumption DEF PositionsAssumption
<1>3. IsFiniteSet(Strand) /\ IsFiniteSet({0})
  BY <1>2, FS_Singleton DEF Strand
<1>4. IsFiniteSet({0} \X (1..ChunkNum)) /\ IsFiniteSet(Strand \X (1..ChunkNum))
  BY <1>2, <1>3, FS_Product
<1> QED BY <1>4, FS_Union DEF Block

\* The block it is in repair for, when its neighbour cannot be had.
LEMMA FailSearch ==
  ASSUME BlocksInv, SearchInv, Fail, stack # <<>>
  PROVE  SearchIn(PairFailed(stack), request, sure)
<1> DEFINE p == stack[1].pairs[1]
<1>1. /\ stack \in Seq(GivingFrames) /\ stack[1] \in GivingFrames /\ Head(stack) = stack[1]
      /\ stack[1].pairs # <<>> /\ Head(stack[1].pairs) = p /\ Len(stack) \in Nat \ {0}
      /\ stack[1].depth \in Nat \ {0} /\ Target \in Block
      /\ PendingIn(stack, status)
  BY TargetType, Pop DEF BlocksInv, Fail, Typed, StackInv, GivingFrames, Frames
<1>2. (Target = p[1] \/ Target = p[2]) /\ TargetDepth = stack[1].depth
  BY <1>1 DEF Target, TargetDepth
<1>3. sure \subseteq net \cup Available /\ SearchIn(stack, request, sure)
  BY DEF SearchInv, Fail, Looking
<1> HIDE DEF p
<1>4. ASSUME NEW W \in SUBSET sure, NEW r \in 1..stack[1].depth,
             Pending(stack, 1, Reach(W, r))
      PROVE  Target \notin Reach(W, r)
  <2>1. CASE Visited(Target)
    <3>1. PICK j \in 1..Len(stack) : stack[j].block = Target
      BY <1>1, <2>1 DEF Visited, PendingIn
    <3> QED BY <1>4, <3>1 DEF Pending
  <2>2. CASE status[Target] = "NoData" /\ Target \notin net /\ TargetDepth = 1
    <3>1. r = 1 /\ Reach(W, 1) = W
      BY <1>1, <1>2, <2>2, ReachIs
    <3>2. Target \notin sure
      BY <1>3, <2>2 DEF Available
    <3> QED BY <3>1, <3>2
  <2> QED BY <2>1, <2>2 DEF Fail
<1>5. \A W \in SUBSET sure : \A r \in 1..stack[1].depth :
        Pending(stack, 1, Reach(W, r)) => p[1] \notin Reach(W, r) \/ p[2] \notin Reach(W, r)
  BY <1>2, <1>4
<1> QED BY <1>1, <1>3, <1>5, SearchFails DEF p

LEMMA GiveUpSearch ==
  ASSUME BlocksInv, SearchInv, GiveUp, Tail(stack) # <<>>
  PROVE  SearchIn(PairFailed(Tail(stack)), request, sure)
<1> DEFINE b == stack[1].block
           t == Tail(stack)
           p == t[1].pairs[1]
<1>1. /\ stack \in Seq(GivingFrames) /\ stack # <<>> /\ Head(stack) = stack[1]
      /\ stack[1].pairs = <<>> /\ TryingIn(stack) /\ SearchIn(stack, request, sure)
  BY Pop DEF BlocksInv, GiveUp, Typed, StackInv, SearchInv
<1>2. /\ t \in Seq(GivingFrames) /\ Len(stack) \in Nat \ {0} /\ Len(t) = Len(stack) - 1
      /\ \A j \in 1..Len(stack) - 1 : t[j] = stack[j + 1]
      /\ SearchIn(t, request, sure)
  BY <1>1, Pop, SearchTail
<1> HIDE DEF t
<1>3. Len(t) \in Nat \ {0} /\ t # <<>> /\ 1 \in 1..Len(stack) /\ 2 \in 1..Len(stack)
      /\ 2 \in 2..Len(stack) /\ t[1] = stack[2] /\ 2 = 1 + 1
  BY <1>2, Pop DEF t
<1>4. t[1].pairs # <<>> /\ t[1].depth = stack[1].depth + 1 /\ b \in {p[1], p[2]}
  BY <1>1, <1>3 DEF TryingIn, SearchIn, NestedIn
<1>5. \A W \in SUBSET sure : \A r \in 1..t[1].depth :
        Pending(t, 1, Reach(W, r)) => p[1] \notin Reach(W, r) \/ p[2] \notin Reach(W, r)
  <2> SUFFICES ASSUME NEW W \in SUBSET sure, NEW r \in 1..t[1].depth,
                      Pending(t, 1, Reach(W, r))
               PROVE  b \notin Reach(W, r)
    BY <1>4
  <2>1. Pending(stack, 2, Reach(W, r))
    <3> SUFFICES ASSUME NEW l \in 1..Len(stack), l >= 2
                 PROVE  stack[l].block \notin Reach(W, r)
      BY DEF Pending
    <3>1. l - 1 \in 1..Len(t) /\ t[l - 1] = stack[l] /\ l - 1 >= 1
      <4>1. l - 1 \in 1..Len(stack) - 1 /\ (l - 1) + 1 = l
        BY <1>2
      <4> QED BY <1>2, <4>1
    <3> QED BY <3>1 DEF Pending
  <2> QED BY <1>1, <1>4, <2>1, OutOfPairs
<1> QED BY <1>2, <1>3, <1>4, <1>5, SearchFails DEF t, p

LEMMA InitDepth == Init => DepthInv
<1> SUFFICES ASSUME Init PROVE DepthInv
  OBVIOUS
<1>1. /\ ~Busy /\ stack = <<>> /\ repaired = {} /\ answer = NoAnswer
  BY DEF Init, Busy
<1>2. FoundInv
  BY <1>1 DEF FoundInv
<1>3. SearchInv
  BY <1>1, SearchEmpty DEF SearchInv
<1> QED BY <1>1, <1>2, <1>3 DEF DepthInv, AnswersByDepth

\* What was repaired is there, and finite.
LEMMA RepairedCount ==
  ASSUME BlocksInv
  PROVE  IsFiniteSet(repaired) /\ 1 + Cardinality(repaired) \in Nat \ {0}
<1>1. IsFiniteSet(repaired)
  BY BlockFinite, FS_Subset DEF BlocksInv, Typed
<1>2. Cardinality(repaired) \in Nat
  BY <1>1, FS_CardinalityType
<1> QED BY <1>1, <1>2

LEMMA DownloadDepth ==
  ASSUME BlocksInv, DepthInv, Download, UNCHANGED world
  PROVE  DepthInv'
<1> DEFINE b == Target
<1>1. /\ Typed /\ b \in Block /\ Busy /\ b \in net
      /\ status' = [status EXCEPT ![b] = "DataAvailable"]
      /\ UNCHANGED <<repaired, request, stack, answer, net, sure, ever>>
  BY TargetType DEF BlocksInv, Download, Looking, world
<1> HIDE DEF b
<1>2. Busy' /\ request # NoRequest
  BY <1>1 DEF Busy
<1>3. Available' = Available \cup {b}
  BY <1>1 DEF Available, Typed
<1>4. b \in Reach(ever, 1 + Cardinality(repaired))
  <2> DEFINE n == 1 + Cardinality(repaired)
  <2>1. b \in ever /\ n \in Nat \ {0} /\ 1 <= n
    BY <1>1, RepairedCount DEF DepthInv, FoundInv
  <2> HIDE DEF n
  <2>2. Reach(ever, 1) \subseteq Reach(ever, n)
    BY <2>1, ReachGrows
  <2>3. Reach(ever, 1) = ever
    BY <2>1, ReachIs
  <2> QED BY <2>1, <2>2, <2>3 DEF n
<1>5. FoundInv'
  BY <1>1, <1>3, <1>4 DEF DepthInv, FoundInv
<1>6. SearchInv'
  BY <1>1, <1>3 DEF DepthInv, SearchInv
<1>7. AnswersByDepth'
  BY <1>2 DEF AnswersByDepth
<1> QED BY <1>5, <1>6, <1>7 DEF DepthInv

LEMMA StartRepairDepth ==
  ASSUME PairsHold, PairsCover, BlocksInv, DepthInv, StartRepair, UNCHANGED world
  PROVE  DepthInv'
<1> DEFINE b == Target
           d == TargetDepth - 1
<1>1. /\ Typed /\ b \in Block /\ d \in Nat \ {0} /\ TargetDepth = d + 1 /\ Busy
      /\ status[b] = "NoData" /\ b \notin net /\ stack \in Seq(GivingFrames)
      /\ status' = [status EXCEPT ![b] = "RepairPending"]
      /\ stack' = <<Frame(b, d)>> \o stack
      /\ UNCHANGED <<repaired, request, answer, net, sure, ever>>
  BY TargetType DEF BlocksInv, StartRepair, Looking, world, Typed
<1>2. stack = <<>> => b = request.block /\ request.depth = d + 1
  BY <1>1 DEF Target, TargetDepth
<1>3. stack # <<>> => /\ b \in {stack[1].pairs[1][1], stack[1].pairs[1][2]}
                      /\ stack[1].depth = d + 1
  BY <1>1, TargetType DEF BlocksInv, StartRepair, Target, TargetDepth
<1> HIDE DEF b, d
<1>4. Busy' /\ request # NoRequest
  BY <1>1 DEF Busy
<1>5. Available' = Available
  BY <1>1 DEF Available, Typed
<1>6. b \notin sure
  BY <1>1 DEF DepthInv, SearchInv, Available
<1>7. SearchIn(stack, request, sure)
  BY DEF DepthInv, SearchInv
<1>8. SearchIn(<<Frame(b, d)>> \o stack, request, sure)
  BY <1>1, <1>2, <1>3, <1>6, <1>7, SearchPush
<1>9. SearchInv'
  BY <1>1, <1>5, <1>8 DEF DepthInv, SearchInv
<1>10. FoundInv'
  BY <1>1, <1>5 DEF DepthInv, FoundInv
<1>11. AnswersByDepth'
  BY <1>4 DEF AnswersByDepth
<1> QED BY <1>9, <1>10, <1>11 DEF DepthInv

\* A request that failed.
LEMMA FailedAnswer ==
  ASSUME RequestFailed, UNCHANGED <<sure, ever, repaired>>,
         request.block \notin Reach(sure, request.depth)
  PROVE  AnswersByDepth'
<1>1. /\ answer'.ok = FALSE /\ answer'.block = request.block
      /\ answer'.depth = request.depth
  BY DEF RequestFailed, Answered
<1> QED BY <1>1 DEF AnswersByDepth

LEMMA FailDepth ==
  ASSUME PairsHold, PairsCover, BlocksInv, DepthInv, Fail, UNCHANGED world
  PROVE  DepthInv'
<1>1. /\ Typed /\ Busy /\ stack' = PairFailed(stack) /\ Available' = Available
      /\ PendingIn(stack, status) /\ FoundInv /\ SearchInv
      /\ UNCHANGED <<status, repaired, net, sure, ever>>
  BY DEF BlocksInv, Fail, Looking, world, blocks, Available, StackInv, DepthInv
<1>2. CASE stack = <<>>
  <2>1. RequestFailed /\ stack' = <<>>
    BY <1>1, <1>2 DEF Fail, PairFailed
  <2>2. ~Visited(Target)
    BY <1>1, <1>2, TargetType DEF Fail, Visited, PendingIn
  <2>3. /\ status[Target] = "NoData" /\ Target \notin net /\ TargetDepth = 1
        /\ Target = request.block /\ TargetDepth = request.depth
    BY <1>2, <2>2 DEF Fail, Target, TargetDepth
  <2>4. Target \notin sure /\ Reach(sure, 1) = sure
    BY <1>1, <2>3, ReachIs DEF SearchInv, Available
  <2>5. AnswersByDepth'
    BY <1>1, <2>1, <2>3, <2>4, FailedAnswer
  <2>6. ~Busy'
    BY <2>1 DEF RequestFailed, Busy
  <2>7. FoundInv' /\ SearchInv'
    BY <1>1, <2>1, <2>6, SearchEmpty DEF FoundInv, SearchInv
  <2> QED BY <2>5, <2>7 DEF DepthInv
<1>3. CASE stack # <<>>
  <2>1. request' = request /\ Busy'
    BY <1>1, <1>3 DEF Fail, Busy
  <2>2. SearchIn(PairFailed(stack), request, sure)
    BY <1>1, <1>3, FailSearch
  <2>3. FoundInv' /\ SearchInv'
    BY <1>1, <2>1, <2>2 DEF FoundInv, SearchInv
  <2>4. AnswersByDepth'
    BY <2>1 DEF AnswersByDepth
  <2> QED BY <2>3, <2>4 DEF DepthInv
<1> QED BY <1>2, <1>3

LEMMA GiveUpDepth ==
  ASSUME PairsHold, PairsCover, BlocksInv, DepthInv, GiveUp, UNCHANGED world
  PROVE  DepthInv'
<1> DEFINE b == stack[1].block
           t == Tail(stack)
<1>1. /\ Typed /\ Busy /\ stack # <<>> /\ stack \in Seq(GivingFrames)
      /\ Head(stack) = stack[1] /\ stack[1].pairs = <<>> /\ Len(stack) \in Nat \ {0}
      /\ stack[1].depth \in Nat \ {0} /\ Len(t) = Len(stack) - 1
      /\ TryingIn(stack) /\ LeftIn(stack, status) /\ PendingIn(stack, status)
      /\ FoundInv /\ SearchInv
  <2>1. /\ Typed /\ StackInv /\ Busy /\ stack # <<>> /\ Head(stack).pairs = <<>>
        /\ FoundInv /\ SearchInv
    BY DEF BlocksInv, GiveUp, DepthInv
  <2>2. /\ stack \in Seq(GivingFrames) /\ TryingIn(stack) /\ LeftIn(stack, status)
        /\ PendingIn(stack, status)
    BY <2>1 DEF StackInv, Typed
  <2>3. /\ Head(stack) \in GivingFrames /\ Head(stack) = stack[1]
        /\ Len(stack) \in Nat \ {0} /\ Len(t) = Len(stack) - 1
    BY <2>1, <2>2, Pop
  <2>4. stack[1].depth \in Nat \ {0}
    BY <2>3 DEF GivingFrames, Frames
  <2> QED BY <2>1, <2>2, <2>3, <2>4
<1>2. /\ stack' = PairFailed(t) /\ status' = [status EXCEPT ![b] = "NoData"]
      /\ UNCHANGED <<repaired, net, sure, ever>>
  BY <1>1 DEF GiveUp, FinishRepair, world
<1>3. b \in Block /\ status[b] = "RepairPending"
  BY <1>1, TailStack DEF Typed
<1> HIDE DEF b
<1>4. Available' = Available
  BY <1>1, <1>2, <1>3 DEF Available, Typed
<1>5. CASE t = <<>>
  <2>1. RequestFailed /\ stack' = <<>>
    BY <1>2, <1>5 DEF GiveUp, PairFailed
  <2>2. Len(stack) = 1
    <3> HIDE DEF t
    <3>1. Len(t) = 0
      BY <1>5
    <3> QED BY <1>1, <3>1
  <2>3. b = request.block /\ request.depth = stack[1].depth + 1
    BY <1>1, <2>2 DEF b, SearchInv, SearchIn, RootedIn
  <2>4. Pending(stack, 2, Reach(sure, request.depth))
    BY <2>2 DEF Pending
  <2>5. request.block \notin Reach(sure, request.depth)
    <3>1. request.depth \in 1..(stack[1].depth + 1) /\ sure \in SUBSET sure
      BY <1>1, <2>3
    <3>2. SearchIn(stack, request, sure)
      BY <1>1 DEF SearchInv
    <3> QED BY <1>1, <2>3, <2>4, <3>1, <3>2, OutOfPairs DEF b
  <2>6. AnswersByDepth'
    BY <1>2, <2>1, <2>5, FailedAnswer
  <2>7. ~Busy'
    BY <2>1 DEF RequestFailed, Busy
  <2>8. FoundInv' /\ SearchInv'
    BY <1>1, <1>2, <1>4, <2>1, <2>7, SearchEmpty DEF FoundInv, SearchInv
  <2> QED BY <2>6, <2>8 DEF DepthInv
<1>6. CASE t # <<>>
  <2>1. request' = request /\ Busy'
    BY <1>1, <1>6 DEF GiveUp, Busy
  <2>2. SearchIn(PairFailed(t), request, sure)
    BY <1>1, <1>6, GiveUpSearch
  <2>3. FoundInv' /\ SearchInv'
    BY <1>1, <1>2, <1>4, <2>1, <2>2 DEF FoundInv, SearchInv
  <2>4. AnswersByDepth'
    BY <2>1 DEF AnswersByDepth
  <2> QED BY <2>3, <2>4 DEF DepthInv
<1> QED BY <1>5, <1>6

LEMMA HaveLeftDepth ==
  ASSUME BlocksInv, DepthInv, HaveLeft, UNCHANGED world
  PROVE  DepthInv'
<1>1. /\ stack \in Seq(GivingFrames) /\ stack # <<>> /\ stack[1].pairs # <<>>
      /\ Head(stack) = stack[1] /\ Busy /\ Available' = Available
      /\ UNCHANGED <<repaired, request, net, sure, ever>>
  BY TargetType DEF BlocksInv, HaveLeft, Typed, Looking, world, blocks, Available
<1>2. stack' = <<[stack[1] EXCEPT !.haveLeft = TRUE]>> \o Tail(stack)
  BY <1>1 DEF HaveLeft
<1>3. SearchIn(<<[stack[1] EXCEPT !.haveLeft = TRUE]>> \o Tail(stack), request, sure)
  BY <1>1, SearchLeft DEF DepthInv, SearchInv
<1>4. Busy'
  BY <1>1 DEF Busy
<1>5. FoundInv' /\ SearchInv'
  BY <1>1, <1>2, <1>3 DEF DepthInv, FoundInv, SearchInv
<1>6. AnswersByDepth'
  BY <1>4 DEF AnswersByDepth
<1> QED BY <1>5, <1>6 DEF DepthInv

\* What is recovered takes the one round more that its being recovered counts for.
LEMMA RecoverDepth ==
  ASSUME BlocksInv, DepthInv, Recover, UNCHANGED world
  PROVE  DepthInv'
<1> DEFINE b == stack[1].block
           p == stack[1].pairs[1]
           n == 1 + Cardinality(repaired)
<1>1. /\ Typed /\ stack \in Seq(GivingFrames) /\ stack # <<>> /\ Busy
      /\ TryingIn(stack) /\ LeftIn(stack, status) /\ PendingIn(stack, status)
      /\ Head(stack) = stack[1] /\ 1 \in 1..Len(stack[1].pairs) /\ 1 \in 1..Len(stack)
      /\ p \in Block \X Block /\ Head(stack[1].pairs) = p
      /\ FoundInv /\ SearchInv
  BY TargetType, Pop DEF BlocksInv, StackInv, Recover, Typed, DepthInv, Looking
<1>2. /\ stack' = Tail(stack) /\ status' = [status EXCEPT ![b] = "DataAvailable"]
      /\ repaired' = repaired \cup {b}
      /\ UNCHANGED <<request, answer, net, sure, ever>>
  BY <1>1 DEF Recover, world
<1>3. b \in Block /\ status[b] = "RepairPending"
  BY <1>1, TailStack DEF Typed
<1>4. p[1] \in Available /\ p[2] \in Available
  <2>1. status[p[1]] = "DataAvailable"
    BY <1>1 DEF LeftIn, Recover
  <2>2. status[p[2]] = "DataAvailable"
    BY <1>1 DEF Recover, Target
  <2> QED BY <1>1, <2>1, <2>2 DEF Available
<1>5. OfEquation(b, p)
  BY <1>1 DEF SearchInv, SearchIn, PairsIn
<1> HIDE DEF b, p
<1>6. Available' = Available \cup {b}
  BY <1>1, <1>2, <1>3 DEF Available, Typed
<1>7. b \notin repaired
  BY <1>1, <1>3 DEF FoundInv, Available
<1>8. n \in Nat \ {0} /\ 1 + Cardinality(repaired') = n + 1
  <2>1. IsFiniteSet(repaired) /\ n \in Nat \ {0}
    BY RepairedCount
  <2>2. Cardinality(repaired') = Cardinality(repaired) + 1
    BY <1>2, <1>7, <2>1, FS_AddElement
  <2>3. Cardinality(repaired) \in Nat
    BY <2>1, FS_CardinalityType
  <2> QED BY <2>1, <2>2, <2>3
<1>9. Available \subseteq Reach(ever, n) /\ net \subseteq ever
  BY <1>1 DEF FoundInv
<1> HIDE DEF n
<1>10. b \in Given(Reach(ever, n))
  <2>1. PICK e \in Equations : b \in e /\ e \ {b} = {p[1], p[2]}
    BY <1>5 DEF OfEquation
  <2>2. e \ {b} \subseteq Reach(ever, n)
    BY <1>4, <1>9, <2>1
  <2> QED BY <1>3, <2>1, <2>2 DEF Given
<1>11. Available' \subseteq Reach(ever, n + 1)
  BY <1>6, <1>8, <1>9, <1>10, ReachIs
<1>12. Busy' /\ request # NoRequest
  BY <1>1, <1>2 DEF Busy
<1>13. FoundInv'
  BY <1>1, <1>2, <1>6, <1>8, <1>9, <1>11 DEF FoundInv
<1>14. SearchInv'
  <2>1. SearchIn(Tail(stack), request, sure)
    BY <1>1, SearchTail DEF SearchInv
  <2> QED BY <1>1, <1>2, <1>6, <2>1 DEF SearchInv
<1>15. AnswersByDepth'
  BY <1>12 DEF AnswersByDepth
<1> QED BY <1>13, <1>14, <1>15 DEF DepthInv

LEMMA AnswerDepth ==
  ASSUME BlocksInv, DepthInv, Answer, UNCHANGED world
  PROVE  DepthInv'
<1>1. /\ Typed /\ Busy /\ stack = <<>> /\ stack' = stack /\ request' = NoRequest
      /\ Target \in Block /\ Target = request.block /\ status[Target] = "DataAvailable"
      /\ answer' = Answered(TRUE) /\ Available' = Available
      /\ UNCHANGED <<repaired, net, sure, ever>> /\ FoundInv
  BY TargetType DEF BlocksInv, Answer, Looking, Target, blocks, world, Available, DepthInv
<1>2. ~Busy'
  BY <1>1 DEF Busy
<1>3. FoundInv' /\ SearchInv'
  BY <1>1, <1>2, SearchEmpty DEF FoundInv, SearchInv
<1>4. request.block \in Reach(ever, 1 + Cardinality(repaired))
  BY <1>1 DEF FoundInv, Available
<1>5. answer'.ok = TRUE /\ answer'.block = request.block
  BY <1>1 DEF Answered
<1>6. AnswersByDepth'
  BY <1>1, <1>4, <1>5 DEF AnswersByDepth
<1> QED BY <1>3, <1>6 DEF DepthInv

LEMMA AskDepth ==
  ASSUME BlocksInv, DepthInv, NEW b \in Requests, NEW depth \in Depths, Ask(b, depth),
         Observe
  PROVE  DepthInv'
<1>1. /\ stack = <<>> /\ stack' = stack /\ Available' = Available
      /\ sure' = net \cup Available /\ ever' = net \cup Available
      /\ UNCHANGED <<repaired, net>> /\ FoundInv
      /\ request' = [block |-> b, depth |-> depth] /\ depth # 0
  BY LatticeAssumption DEF BlocksInv, StackInv, Ask, Observe, blocks, Available, DepthInv,
                           LatticeAssumption
<1>2. Busy'
  BY <1>1 DEF Busy, NoRequest
<1>3. SearchInv'
  BY <1>1, SearchEmpty DEF SearchInv
<1>4. Available \subseteq Reach(ever', 1 + Cardinality(repaired))
  <2> DEFINE n == 1 + Cardinality(repaired)
             base == net \cup Available
  <2>1. n \in Nat \ {0} /\ 1 <= n
    BY RepairedCount
  <2> HIDE DEF n, base
  <2>2. Reach(base, 1) = base /\ Reach(base, 1) \subseteq Reach(base, n)
    BY <2>1, ReachIs, ReachGrows
  <2> QED BY <1>1, <2>2 DEF n, base
<1>5. FoundInv'
  BY <1>1, <1>4 DEF FoundInv
<1>6. AnswersByDepth'
  BY <1>2 DEF AnswersByDepth
<1> QED BY <1>3, <1>5, <1>6 DEF DepthInv

LEMMA ChangesDepth ==
  ASSUME BlocksInv, DepthInv, NEW b \in Flickers, NetworkChanges(b)
  PROVE  DepthInv'
<1>1. /\ UNCHANGED <<status, repaired, request, stack, answer>> /\ Available' = Available
      /\ FoundInv /\ SearchInv /\ AnswersByDepth /\ Busy' = Busy
  BY DEF NetworkChanges, blocks, Available, DepthInv, Busy
<1>2. CASE ~Busy
  <2>1. UNCHANGED <<sure, ever>>
    BY <1>2 DEF NetworkChanges
  <2>2. FoundInv' /\ SearchInv' /\ AnswersByDepth'
    BY <1>1, <1>2, <2>1 DEF FoundInv, SearchInv, AnswersByDepth
  <2> QED BY <2>2 DEF DepthInv
<1>3. CASE Busy
  <2>1. /\ sure' = sure \ ({b} \ Available) /\ ever' = ever \cup {b}
        /\ net' = IF b \in net THEN net \ {b} ELSE net \cup {b}
    BY <1>3 DEF NetworkChanges
  <2>2. SearchIn(stack, request, sure')
    <3>1. sure' \subseteq sure
      BY <2>1
    <3> QED BY <1>1, <3>1, SearchLess DEF SearchInv
  <2>3. sure' \subseteq net' \cup Available
    BY <1>1, <1>3, <2>1 DEF SearchInv
  <2>4. Available \subseteq Reach(ever', 1 + Cardinality(repaired)) /\ net' \subseteq ever'
    <3> DEFINE n == 1 + Cardinality(repaired)
    <3>1. n \in Nat \ {0} /\ ever \subseteq ever'
      BY <2>1, RepairedCount
    <3>2. Available \subseteq Reach(ever, n) /\ net \subseteq ever
      BY <1>1, <1>3 DEF FoundInv
    <3> HIDE DEF n
    <3>3. Reach(ever, n) \subseteq Reach(ever', n)
      BY <3>1, ReachMore
    <3> QED BY <2>1, <3>2, <3>3 DEF n
  <2>5. FoundInv' /\ SearchInv'
    BY <1>1, <2>2, <2>3, <2>4 DEF FoundInv, SearchInv
  <2>6. AnswersByDepth'
    BY <1>1, <1>3 DEF AnswersByDepth
  <2> QED BY <2>5, <2>6 DEF DepthInv
<1> QED BY <1>2, <1>3

LEMMA NextDepth == PairsHold /\ PairsCover /\ IInv /\ DepthInv /\ [Next]_vars => DepthInv'
<1> SUFFICES ASSUME PairsHold, PairsCover, BlocksInv, DepthInv, [Next]_vars
             PROVE  DepthInv'
  BY DEF IInv
<1>1. ASSUME NEW b \in Requests, NEW depth \in Depths, Ask(b, depth), Observe
      PROVE  DepthInv'
  BY <1>1, AskDepth
<1>2. CASE Serve
  <2>1. Step /\ UNCHANGED world
    BY <1>2 DEF Serve
  <2> QED BY <2>1, DownloadDepth, StartRepairDepth, FailDepth, GiveUpDepth,
             HaveLeftDepth, RecoverDepth, AnswerDepth DEF Step
<1>3. ASSUME NEW b \in Flickers, NetworkChanges(b) PROVE DepthInv'
  BY <1>3, ChangesDepth
<1>4. CASE UNCHANGED vars
  BY <1>4 DEF vars, DepthInv, FoundInv, SearchInv, AnswersByDepth, Available, Busy
<1> QED BY <1>1, <1>2, <1>3, <1>4 DEF Next

\* A request for a block succeeds if its depth is enough to have the block from what was
\* there all the time, whatever the order of the pairs, wherever the recursion meets a
\* block in repair again and whatever was recovered before; and none succeeds with a block
\* that could not be had from what was there at some time.
THEOREM AnswersInDepth == Regular => (Spec => []AnswersByDepth)
<1> SUFFICES ASSUME Regular PROVE Spec => []AnswersByDepth
  OBVIOUS
<1>1. IInv /\ [Next]_vars => IInv'
  BY NextInv, LinksAgree
<1>2. IInv /\ DepthInv /\ [Next]_vars => DepthInv'
  BY NextDepth, LinksAgree
<1>3. DepthInv => AnswersByDepth
  BY DEF DepthInv
<1> QED BY InitInv, InitDepth, <1>1, <1>2, <1>3, PTL DEF Spec
=============================================================================
