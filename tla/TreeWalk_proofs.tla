---------------------------- MODULE TreeWalk_proofs ----------------------------
(***************************************************************************)
(* What the walks over a file's tree bring back, whatever is missing,      *)
(* whatever comes and goes, and whatever IPFS refuses.  What the walks     *)
(* rely on of their trees (WalkTrees) comes from MerkleTree_proofs; the    *)
(* hypothesis is Regular: a square lattice, and two columns of blocks at   *)
(* least.                                                                  *)
(***************************************************************************)
EXTENDS TreeWalk, MerkleTree_proofs

LP == INSTANCE Lattice_proofs WITH
  net <- Gettable, changes <- 0, sure <- {}, ever <- {},
  Losses <- {}, Requests <- {<<0, i>> : i \in 1..ChunkNum}, Depths <- {1, 2, SwitchDepth},
  MaxRequests <- ChunkNum, Flickers <- {}, MaxChanges <- 0

-----------------------------------------------------------------------------
(* The lattice of the walk is the one the theorems are about *)

LEMMA SameForward ==
  \A i, k : L!ForwardNeighbor(i, k) = LP!ForwardNeighbor(i, k)
BY DEF L!ForwardNeighbor, LP!ForwardNeighbor, L!PositionCategory, LP!PositionCategory,
       L!GoMod, LP!GoMod

LEMMA SameStart == \A i, k : L!ChainStart(i, k) = LP!ChainStart(i, k)
BY DEF L!ChainStart, LP!ChainStart, L!ChainIndex, LP!ChainIndex, L!GoMod, LP!GoMod,
       L!GoDiv, LP!GoDiv

LEMMA SameSets ==
  /\ L!Strand = LP!Strand /\ L!Block = LP!Block /\ L!Chunk = LP!Chunk
  /\ \A i : L!Data(i) = LP!Data(i)
  /\ \A k, i : L!Parity(k, i) = LP!Parity(k, i)
  /\ \A b : L!IsParity(b) = LP!IsParity(b)
  /\ \A i, n : L!IsValidIndex(i, n) = LP!IsValidIndex(i, n)
BY DEF L!Strand, LP!Strand, L!Block, LP!Block, L!Chunk, LP!Chunk, L!Data, LP!Data,
       L!Parity, LP!Parity, L!IsParity, LP!IsParity, L!IsValidIndex, LP!IsValidIndex

LEMMA SameMax == \A X : L!Max(X) = LP!Max(X)
BY DEF L!Max, LP!Max

LEMMA SameSymDiff == \A a, b : L!SymDiff(a, b) = LP!SymDiff(a, b)
BY DEF L!SymDiff, LP!SymDiff

LEMMA SameFlatten == \A s : L!FlattenSeq(s) = LP!FlattenSeq(s)
BY DEF L!FlattenSeq, LP!FlattenSeq

LEMMA SameBefore == \A i, k, n : L!Before(i, k, n) = LP!Before(i, k, n)
BY SameForward DEF L!Before, LP!Before

LEMMA SamePrefix == \A k, n : L!Prefix(k, n) = LP!Prefix(k, n)
BY SameBefore DEF L!Prefix, LP!Prefix

LEMMA SameCodeword == \A k, n : L!Codeword(k, n) = LP!Codeword(k, n)
<1> TAKE k, n
<1> DEFINE upTo == LP!Prefix(k, n)
           last(i) == {j \in 1..n : i \in upTo[j] /\ LP!ForwardNeighbor(j, k) > n}
           lastL(i) == {j \in 1..n : i \in L!Prefix(k, n)[j] /\ L!ForwardNeighbor(j, k) > n}
           c == [i \in 1..n |->
                   IF LP!Before(i, k, n) = {} /\ i \notin last(i)
                     THEN LP!SymDiff({i}, UNION {upTo[j] : j \in last(i)})
                     ELSE upTo[i]]
           cL == [i \in 1..n |->
                   IF L!Before(i, k, n) = {} /\ i \notin lastL(i)
                     THEN L!SymDiff({i}, UNION {L!Prefix(k, n)[j] : j \in lastL(i)})
                     ELSE L!Prefix(k, n)[i]]
<1>1. \A i : last(i) = lastL(i)
  BY SameForward, SamePrefix
<1>2. L!Codeword(k, n) = cL /\ LP!Codeword(k, n) = c
  BY DEF L!Codeword, LP!Codeword
<1> HIDE DEF last, lastL
<1>3. ASSUME NEW i \in 1..n PROVE c[i] = cL[i]
  <2>1. UNION {upTo[j] : j \in last(i)} = UNION {L!Prefix(k, n)[j] : j \in lastL(i)}
    BY <1>1, SamePrefix
  <2> QED BY <1>1, <2>1, SameBefore, SamePrefix, SameSymDiff
<1> QED BY <1>2, <1>3

LEMMA SameValue == L!Value = LP!Value
BY SameCodeword, SameSets DEF L!Value, LP!Value

LEMMA SameRight == \A k, i : L!RightData(k, i) = LP!RightData(k, i)
BY SameForward, SameStart, SameSets DEF L!RightData, LP!RightData

LEMMA SameLeft == \A k, i : L!LeftParity(k, i) = LP!LeftParity(k, i)
<1> TAKE k, i
<1>1. {j \in 1..ChunkNum : L!RightData(k, j) = i} = {j \in 1..ChunkNum : LP!RightData(k, j) = i}
  BY SameRight
<1> QED BY <1>1, SameMax, SameSets DEF L!LeftParity, LP!LeftParity

LEMMA SameWrap == L!WrapModified = LP!WrapModified
BY SameRight, SameForward, SameSets DEF L!WrapModified, LP!WrapModified

LEMMA SameUnwrapped == \A p : L!Unwrapped(p) = LP!Unwrapped(p)
BY SameWrap, SameSets DEF L!Unwrapped, LP!Unwrapped

LEMMA SameParityPairs == \A k, i : L!ParityPairs(k, i) = LP!ParityPairs(k, i)
BY SameWrap, SameUnwrapped, SameRight, SameLeft, SameSets DEF L!ParityPairs, LP!ParityPairs

LEMMA SameDataPairs == \A i : L!DataPairs(i) = LP!DataPairs(i)
<1> TAKE i
<1> DEFINE pairs(k) ==
             <<<<LP!Unwrapped(LP!LeftParity(k, i)), LP!Parity(k, i)>>>> \o
             IF LP!Parity(k, i) \in LP!WrapModified
               THEN <<<<LP!Data(LP!RightData(k, i)), LP!Parity(k, LP!RightData(k, i))>>>>
               ELSE <<>>
           pairsL(k) ==
             <<<<L!Unwrapped(L!LeftParity(k, i)), L!Parity(k, i)>>>> \o
             IF L!Parity(k, i) \in L!WrapModified
               THEN <<<<L!Data(L!RightData(k, i)), L!Parity(k, L!RightData(k, i))>>>>
               ELSE <<>>
<1>1. \A k : pairs(k) = pairsL(k)
  BY SameWrap, SameUnwrapped, SameRight, SameLeft, SameSets
<1>2. /\ L!DataPairs(i) = L!FlattenSeq([k \in L!Strand |-> pairsL(k)])
      /\ LP!DataPairs(i) = LP!FlattenSeq([k \in LP!Strand |-> pairs(k)])
  BY DEF L!DataPairs, LP!DataPairs
<1> HIDE DEF pairs, pairsL
<1>3. [k \in L!Strand |-> pairsL(k)] = [k \in LP!Strand |-> pairs(k)]
  BY <1>1, SameSets
<1> QED BY <1>2, <1>3, SameFlatten

LEMMA SamePairs == L!RecoverPairs = LP!RecoverPairs
BY SameParityPairs, SameDataPairs, SameSets DEF L!RecoverPairs, LP!RecoverPairs

LEMMA SameState ==
  /\ L!NoRequest = LP!NoRequest
  /\ L!Busy = LP!Busy /\ L!Looking = LP!Looking
  /\ L!Target = LP!Target /\ L!TargetDepth = LP!TargetDepth
  /\ L!blocks = LP!blocks /\ L!Available = LP!Available
  /\ \A ok : L!Answered(ok) = LP!Answered(ok)
  /\ \A b, d : L!Frame(b, d) = LP!Frame(b, d)
  /\ \A s : L!PairFailed(s) = LP!PairFailed(s)
  /\ \A b : L!Visited(b) = LP!Visited(b)
<1>1. L!NoRequest = LP!NoRequest
  BY DEF L!NoRequest, LP!NoRequest
<1>2. L!Target = LP!Target /\ L!TargetDepth = LP!TargetDepth
  BY DEF L!Target, LP!Target, L!TargetDepth, LP!TargetDepth
<1>3. L!blocks = LP!blocks /\ L!Available = LP!Available
  BY SameSets DEF L!blocks, LP!blocks, L!Available, LP!Available
<1>4. \A ok : L!Answered(ok) = LP!Answered(ok)
  BY DEF L!Answered, LP!Answered
<1>5. \A b, d : L!Frame(b, d) = LP!Frame(b, d)
  BY SamePairs DEF L!Frame, LP!Frame
<1>6. \A s : L!PairFailed(s) = LP!PairFailed(s)
  BY DEF L!PairFailed, LP!PairFailed
<1>7. \A b : L!Visited(b) = LP!Visited(b)
  BY DEF L!Visited, LP!Visited
<1>8. L!Busy = LP!Busy /\ L!Looking = LP!Looking
  BY <1>1 DEF L!Busy, LP!Busy, L!Looking, LP!Looking
<1> QED BY <1>1, <1>2, <1>3, <1>4, <1>5, <1>6, <1>7, <1>8

LEMMA SameAsk == \A b, d : L!Ask(b, d) => LP!Ask(b, d)
BY SameState DEF L!Ask, LP!Ask, L!blocks, LP!blocks

LEMMA SameStep == L!Step => LP!Step
<1>1. L!Download => LP!Download
  BY SameState, SameValue DEF L!Download, LP!Download
<1>2. L!StartRepair => LP!StartRepair
  BY SameState DEF L!StartRepair, LP!StartRepair
<1>3. L!RequestFailed => LP!RequestFailed
  BY SameState DEF L!RequestFailed, LP!RequestFailed
<1>4. L!Fail => LP!Fail
  BY SameState, <1>3 DEF L!Fail, LP!Fail, L!blocks, LP!blocks
<1>5. L!GiveUp => LP!GiveUp
  BY SameState, <1>3 DEF L!GiveUp, LP!GiveUp, L!FinishRepair, LP!FinishRepair
<1>6. L!HaveLeft => LP!HaveLeft
  BY SameState DEF L!HaveLeft, LP!HaveLeft, L!blocks, LP!blocks
<1>7. L!Recover => LP!Recover
  BY SameState, SameSymDiff DEF L!Recover, LP!Recover
<1>8. L!Answer => LP!Answer
  BY SameState DEF L!Answer, LP!Answer, L!blocks, LP!blocks
<1> QED BY <1>1, <1>2, <1>4, <1>5, <1>6, <1>7, <1>8 DEF L!Step, LP!Step

-----------------------------------------------------------------------------
(* Least and greatest numbers *)

LEMMA GreatestIn ==
  ASSUME NEW n \in Nat, NEW X \in SUBSET (0..n), X # {}
  PROVE  Max(X) \in X /\ \A x \in X : Max(X) >= x
<1>1. X \in SUBSET Nat /\ \A x \in X : x <= n
  OBVIOUS
<1>2. Max(X) \in X /\ \A x \in X : x <= Max(X)
  BY <1>1, GreatestNumber
<1> QED BY <1>1, <1>2

-----------------------------------------------------------------------------
(* The file: its trees, its blocks and the pieces of its parities *)

Line(k, n) == trees[k].line[n]

\* The parent of m is the last node above it.
ParentOnLine(k, n, m) ==
  \E p \in Line(k, n) : p < m /\ m \in Kids(k, p) /\ \A x \in Line(k, n) : x < m => x <= p

TreeInv(k) ==
  /\ NodesOf(k) \subseteq Nat /\ 0 \in NodesOf(k)
  /\ \A n \in NodesOf(k) :
       /\ trees[k].tree.children[n] \in Seq(NodesOf(k) \ {0})
       /\ Line(k, n) \subseteq NodesOf(k) \cap (0..n) /\ {0, n} \subseteq Line(k, n)
       /\ \A m \in Line(k, n) \ {0} : ParentOnLine(k, n, m)
       /\ \A m \in NodesOf(k) : Kids(k, n) \cap Kids(k, m) # {} => n = m
       /\ \A i, j \in 1..Len(trees[k].tree.children[n]) : \A x \in NodesOf(k) :
            i < j /\ trees[k].tree.children[n][i] \in Line(k, x) =>
              x < trees[k].tree.children[n][j]

\* The leaves in their order.
Leaf == LeafSeq(trees[0].tree)

FileInv ==
  /\ \A k \in TreeNo : TreeInv(k)
  /\ NodesOf(0) = 0..(ChunkNum - 1)
  /\ idx \in [NodesOf(0) -> 1..ChunkNum]
  /\ \A i \in 1..ChunkNum : \E n \in NodesOf(0) : idx[n] = i
  /\ \A n, m \in NodesOf(0) : idx[n] = idx[m] => n = m
  /\ \A k \in Strand, i \in 1..ChunkNum : pieces[i] \subseteq NodesOf(k)
  /\ Leaf \in [1..LeafNum -> NodesOf(0)]
  /\ \A n \in NodesOf(0) : IsLeaf(n) <=> \E j \in 1..LeafNum : Leaf[j] = n
  /\ \A i, j \in 1..LeafNum : i < j => Leaf[i] < Leaf[j]
  /\ \A f \in Flickers : f[1] \in TreeNo /\ f[2] \in NodesOf(f[1])

LEMMA InitTree ==
  ASSUME NEW k \in TreeNo, NEW t, trees[k] = WithLines(t), IsTree(t), InPreorder(t)
  PROVE  TreeInv(k) /\ NodesOf(k) = Nodes(t)
<1> DEFINE line(n) == {n} \cup Above(t, n)
<1>1. trees[k].tree = t /\ \A n \in Nodes(t) : Line(k, n) = line(n)
  BY DEF WithLines, Line
<1>2. NodesOf(k) = Nodes(t) /\ \A n : Kids(k, n) = Range(t.children[n])
  BY <1>1 DEF NodesOf, Kids
<1>3. Nodes(t) \subseteq Nat /\ 0 \in Nodes(t) /\ \A n \in Nodes(t) : 0..n \subseteq Nodes(t)
  BY DEF IsTree, Nodes
<1>4. \A n \in Nodes(t) :
        /\ t.children[n] \in Seq(Nodes(t) \ {0})
        /\ \A m \in Nodes(t) : Range(t.children[n]) \cap Range(t.children[m]) # {} => n = m
  BY DEF IsTree
<1>5. \A n \in Nodes(t) :
        /\ 0 \in line(n) /\ line(n) \subseteq 0..n
        /\ \A m \in line(n) \ {0} : \E p \in line(n) :
             p < m /\ m \in Range(t.children[p]) /\ \A x \in line(n) : x < m => x <= p
  BY DEF InPreorder
<1>6. \A n, x \in Nodes(t) : \A i, j \in DOMAIN t.children[n] :
        i < j /\ t.children[n][i] \in line(x) => x < t.children[n][j]
  BY DEF InPreorder
<1>7. \A n \in Nodes(t) : n \in line(n)
  OBVIOUS
<1> HIDE DEF line
<1>8. ASSUME NEW n \in Nodes(t), NEW m \in Line(k, n) \ {0} PROVE ParentOnLine(k, n, m)
  BY <1>1, <1>2, <1>5, <1>8 DEF ParentOnLine
<1>9. \A n \in Nodes(t) : \A i, j \in 1..Len(t.children[n]) : \A x \in Nodes(t) :
        i < j /\ t.children[n][i] \in line(x) => x < t.children[n][j]
  <2> TAKE n \in Nodes(t)
  <2>1. DOMAIN t.children[n] = 1..Len(t.children[n])
    BY <1>4
  <2> QED BY <1>6, <2>1
<1>10. ASSUME NEW n \in NodesOf(k)
       PROVE  /\ trees[k].tree.children[n] \in Seq(NodesOf(k) \ {0})
              /\ Line(k, n) \subseteq NodesOf(k) \cap (0..n) /\ {0, n} \subseteq Line(k, n)
              /\ \A m \in NodesOf(k) : Kids(k, n) \cap Kids(k, m) # {} => n = m
  <2>0. trees[k].tree.children[n] \in Seq(NodesOf(k) \ {0})
    BY <1>1, <1>2, <1>4
  <2>2. ASSUME NEW m \in NodesOf(k), Kids(k, n) \cap Kids(k, m) # {} PROVE n = m
    <3>1. Range(t.children[n]) \cap Range(t.children[m]) # {}
      BY <1>2, <2>2
    <3> QED BY <1>2, <1>4, <3>1
  <2>1. /\ line(n) \subseteq 0..n /\ 0 \in line(n) /\ n \in line(n) /\ Line(k, n) = line(n)
        /\ 0..n \subseteq Nodes(t)
    BY <1>1, <1>2, <1>3, <1>5, <1>7
  <2> QED BY <1>2, <2>0, <2>1, <2>2
<1>11. ASSUME NEW n \in NodesOf(k)
       PROVE  \A i, j \in 1..Len(trees[k].tree.children[n]) : \A x \in NodesOf(k) :
                i < j /\ trees[k].tree.children[n][i] \in Line(k, x) =>
                  x < trees[k].tree.children[n][j]
  BY <1>1, <1>2, <1>9
<1> QED BY <1>2, <1>3, <1>8, <1>10, <1>11 DEF TreeInv

\* The trees of the file and of its strands, their order, and the pieces of the parities.
LEMMA TreesAreFit == WalkTrees
<1> DEFINE t == Tree(LeafNum, Fanout)
           s == ParityTree(t.size, Fanout)
<1>1. Buildable(LeafNum, Fanout)
  BY GetterAssumption DEF GetterAssumption, Buildable
<1>2. t.size \in Nat \ {0} /\ Fanout \in Nat \ {1}
  BY <1>1, GetterAssumption, ChildrenAre DEF GetterAssumption
<1>3. \E k : Buildable(ParityLeaves(t.size), k) /\ s = Tree(ParityLeaves(t.size), k)
  BY <1>2, ParityTreeIs
<1>4. IsTree(t) /\ InPreorder(t) /\ IsTree(s) /\ InPreorder(s)
  BY <1>1, <1>3, BuiltIsTree, BuiltInPreorder
<1>5. LatticeIdx(t) \in [Nodes(t) -> Nodes(t)] /\ Range(LatticeIdx(t)) = Nodes(t)
  BY <1>2, IndexShuffles
<1>6. \A i \in 1..t.size : ParityPieces(s, i) \subseteq Nodes(s)
  BY <1>2, PiecesAreNodes
<1>7. /\ LeafSeq(t) \in [1..LeafNum -> Leaves(t)] /\ Range(LeafSeq(t)) = Leaves(t)
      /\ \A i, j \in 1..LeafNum : i < j => LeafSeq(t)[i] < LeafSeq(t)[j]
  BY <1>1, LeavesInOrder
<1> HIDE DEF t, s
<1>8. \A tree \in {t, s} : IsTree(tree) /\ InPreorder(tree)
  BY <1>4
<1> QED BY <1>5, <1>6, <1>7, <1>8 DEF WalkTrees, TreesFit, t, s

LEMMA Numbers ==
  /\ Tree(LeafNum, Fanout).size = ChunkNum /\ ChunkNum \in Nat \ {0}
  /\ Nodes(Tree(LeafNum, Fanout)) = 0..(ChunkNum - 1)
  /\ LeafNum \in Nat
  /\ Strand \subseteq TreeNo /\ 0 \in TreeNo /\ 0 \notin Strand /\ Strand = 1..Alpha
<1>1. Tree(LeafNum, Fanout).size = ChunkNum
  BY TreeIs DEF ChunkNum
<1>2. IsTree(Tree(LeafNum, Fanout))
  BY TreesAreFit DEF WalkTrees, TreesFit
<1> QED BY <1>1, <1>2, GetterAssumption, PositionsAssumption
        DEF IsTree, Nodes, GetterAssumption, PositionsAssumption, Strand, TreeNo

LEMMA InitFile == FileInit => FileInv
<1> SUFFICES ASSUME FileInit PROVE FileInv
  OBVIOUS
<1> DEFINE t == Tree(LeafNum, Fanout)
           s == ParityTree(ChunkNum, Fanout)
<1>0. /\ t.size = ChunkNum /\ ChunkNum \in Nat \ {0} /\ Nodes(t) = 0..(ChunkNum - 1)
      /\ Strand \subseteq TreeNo /\ 0 \in TreeNo /\ 0 \notin Strand
  BY Numbers
<1>1. /\ IsTree(t) /\ InPreorder(t) /\ IsTree(s) /\ InPreorder(s)
      /\ LatticeIdx(t) \in [Nodes(t) -> Nodes(t)] /\ Range(LatticeIdx(t)) = Nodes(t)
      /\ \A i \in 1..ChunkNum : ParityPieces(s, i) \subseteq Nodes(s)
      /\ LeafSeq(t) \in [1..LeafNum -> Leaves(t)] /\ Range(LeafSeq(t)) = Leaves(t)
      /\ \A i, j \in 1..LeafNum : i < j => LeafSeq(t)[i] < LeafSeq(t)[j]
  BY <1>0, TreesAreFit DEF WalkTrees, TreesFit
<1>2. /\ trees = [k \in TreeNo |-> WithLines(IF k = 0 THEN t ELSE s)]
      /\ idx = [n \in Nodes(t) |-> LatticeIdx(t)[n] + 1]
      /\ pieces = [i \in 1..ChunkNum |-> ParityPieces(s, i)]
  BY DEF FileInit
<1>3. SameOrder(t)
  BY WalkAssumption DEF WalkAssumption
<1> HIDE DEF t, s
<1>4. trees[0] = WithLines(t) /\ \A k \in Strand : trees[k] = WithLines(s)
  BY <1>0, <1>2
<1>5. TreeInv(0) /\ NodesOf(0) = Nodes(t)
  BY <1>0, <1>1, <1>4, InitTree
<1>6. \A k \in Strand : TreeInv(k) /\ NodesOf(k) = Nodes(s)
  BY <1>0, <1>1, <1>4, InitTree
<1>7. \A k \in TreeNo : TreeInv(k)
  BY <1>5, <1>6 DEF TreeNo, Strand
<1>8. /\ idx \in [NodesOf(0) -> 1..ChunkNum]
      /\ \A i \in 1..ChunkNum : \E n \in NodesOf(0) : idx[n] = i
  <2>1. ASSUME NEW n \in Nodes(t) PROVE LatticeIdx(t)[n] + 1 \in 1..ChunkNum
    <3>1. LatticeIdx(t)[n] \in 0..(ChunkNum - 1)
      BY <1>0, <1>1
    <3> QED BY <1>0, <3>1
  <2>2. ASSUME NEW i \in 1..ChunkNum PROVE \E n \in Nodes(t) : LatticeIdx(t)[n] + 1 = i
    <3>1. i - 1 \in Range(LatticeIdx(t))
      BY <1>0, <1>1
    <3>2. PICK n \in Nodes(t) : LatticeIdx(t)[n] = i - 1
      BY <1>1, <3>1 DEF Range
    <3> QED BY <3>2
  <2> QED BY <1>2, <1>5, <2>1, <2>2
<1>9. ASSUME NEW n \in NodesOf(0), NEW m \in NodesOf(0), idx[n] = idx[m] PROVE n = m
  <2>1. LatticeIdx(t)[n] + 1 = LatticeIdx(t)[m] + 1
    BY <1>2, <1>5, <1>9
  <2>2. LatticeIdx(t)[n] \in 0..(ChunkNum - 1) /\ LatticeIdx(t)[m] \in 0..(ChunkNum - 1)
    BY <1>0, <1>1, <1>5
  <2>3. LatticeIdx(t)[n] = LatticeIdx(t)[m]
    BY <2>1, <2>2
  <2> QED BY <1>3, <1>5, <2>3 DEF SameOrder
<1>10. \A k \in Strand, i \in 1..ChunkNum : pieces[i] \subseteq NodesOf(k)
  BY <1>1, <1>2, <1>6
<1>11. Leaf = LeafSeq(t) /\ \A n \in Nodes(t) : IsLeaf(n) <=> n \in Leaves(t)
  <2>1. Leaf = LeafSeq(t)
    BY <1>4 DEF Leaf, WithLines
  <2>2. ASSUME NEW n \in Nodes(t) PROVE IsLeaf(n) <=> n \in Leaves(t)
    <3>1. t.children[n] \in Seq(Nodes(t) \ {0}) /\ Kids(0, n) = Range(t.children[n])
      BY <1>1, <1>4 DEF IsTree, Kids, WithLines
    <3>2. Range(t.children[n]) = {} <=> t.children[n] = <<>>
      <4>1. t.children[n] # <<>> => 1 \in DOMAIN t.children[n]
        BY <3>1
      <4>2. t.children[n] = <<>> => DOMAIN t.children[n] = {}
        OBVIOUS
      <4> QED BY <4>1, <4>2 DEF Range
    <3> QED BY <3>1, <3>2 DEF IsLeaf, Leaves, Inner
  <2> QED BY <2>1, <2>2
<1>12. /\ Leaf \in [1..LeafNum -> NodesOf(0)]
       /\ \A n \in NodesOf(0) : IsLeaf(n) <=> \E j \in 1..LeafNum : Leaf[j] = n
       /\ \A i, j \in 1..LeafNum : i < j => Leaf[i] < Leaf[j]
  <2>1. Leaves(t) \subseteq Nodes(t)
    BY DEF Leaves
  <2>2. \A n : n \in Leaves(t) <=> \E j \in 1..LeafNum : LeafSeq(t)[j] = n
    BY <1>1 DEF Range
  <2> QED BY <1>1, <1>5, <1>11, <2>1, <2>2
<1>13. \A f \in Flickers : f[1] \in TreeNo /\ f[2] \in NodesOf(f[1])
  BY <1>0, <1>5, <1>6, WalkAssumption DEF WalkAssumption, s, t
<1> QED BY <1>0, <1>5, <1>7, <1>8, <1>9, <1>10, <1>12, <1>13 DEF FileInv

LEMMA Shape ==
  ASSUME FileInv, NEW k \in TreeNo
  PROVE  /\ NodesOf(k) \subseteq Nat /\ 0 \in NodesOf(k)
         /\ \A n \in NodesOf(k) :
              /\ trees[k].tree.children[n] \in Seq(NodesOf(k) \ {0})
              /\ Kids(k, n) \subseteq NodesOf(k) \ {0}
              /\ Line(k, n) \subseteq NodesOf(k) /\ Line(k, n) \subseteq 0..n
              /\ 0 \in Line(k, n) /\ n \in Line(k, n)
              /\ \A m \in NodesOf(k) : \A c \in Kids(k, n) \cap Kids(k, m) : n = m
<1>1. TreeInv(k)
  BY DEF FileInv
<1>2. ASSUME NEW n \in NodesOf(k) PROVE Kids(k, n) \subseteq NodesOf(k) \ {0}
  BY <1>1 DEF TreeInv, Kids, Range
<1> QED BY <1>1, <1>2 DEF TreeInv

LEMMA ParentBefore ==
  ASSUME FileInv, NEW k \in TreeNo, NEW n \in NodesOf(k), NEW m \in Line(k, n), m # 0
  PROVE  \E p \in Line(k, n) : /\ p \in NodesOf(k) /\ p < m /\ m \in Kids(k, p)
                               /\ \A x \in Line(k, n) : x < m => x <= p
<1>1. TreeInv(k)
  BY DEF FileInv
<1>2. ParentOnLine(k, n, m) /\ Line(k, n) \subseteq NodesOf(k)
  BY <1>1 DEF TreeInv
<1> QED BY <1>2 DEF ParentOnLine

\* A child comes after its parent, and has it above itself and all that is below.
LEMMA KidAfter ==
  ASSUME FileInv, NEW k \in TreeNo, NEW m \in NodesOf(k), NEW c \in Kids(k, m)
  PROVE  /\ c \in NodesOf(k) /\ m < c
         /\ \A x \in NodesOf(k) : c \in Line(k, x) => m \in Line(k, x)
<1>1. c \in NodesOf(k) /\ c # 0
  BY Shape
<1>2. ASSUME NEW x \in NodesOf(k), c \in Line(k, x) PROVE m \in Line(k, x) /\ m < c
  <2>1. PICK p \in Line(k, x) : p < c /\ c \in Kids(k, p)
    BY <1>1, <1>2, ParentBefore
  <2>2. p = m
    <3>1. p \in NodesOf(k)
      BY <1>2, Shape
    <3> QED BY <2>1, <3>1, Shape
  <2> QED BY <2>1, <2>2
<1>3. c \in Line(k, c)
  BY <1>1, Shape
<1> QED BY <1>1, <1>2, <1>3

\* The way down to a node goes on from every node above it.
LEMMA KidOnLine ==
  ASSUME FileInv, NEW k \in TreeNo, NEW n \in NodesOf(k), NEW m \in Line(k, n), m # n
  PROVE  \E c \in Kids(k, m) : c \in Line(k, n)
<1> DEFINE X == {x \in Line(k, n) : x > m}
<1>0. Line(k, n) \subseteq 0..n /\ n \in Line(k, n) /\ n \in Nat
  BY Shape
<1>1. Line(k, n) \subseteq 0..n /\ n \in Line(k, n) /\ n \in Nat /\ m \in Nat /\ m < n
  BY <1>0
<1>2. X \in SUBSET Nat /\ n \in X
  BY <1>1
<1>3. PICK c \in X : \A x \in X : c <= x
  BY <1>2, LeastOf
<1>4. PICK p \in Line(k, n) : p < c /\ c \in Kids(k, p) /\ \A x \in Line(k, n) : x < c => x <= p
  BY <1>1, <1>3, ParentBefore
<1>5. p = m
  <2>1. m <= p
    BY <1>3, <1>4
  <2>2. ~(p > m)
    BY <1>1, <1>3, <1>4
  <2> QED BY <1>1, <1>4, <2>1, <2>2
<1> QED BY <1>3, <1>4, <1>5

LEMMA LeafIs ==
  ASSUME FileInv, NEW n \in NodesOf(0), NEW m \in Line(0, n), IsLeaf(m)
  PROVE  m = n
<1>1. 0 \in TreeNo
  BY PositionsAssumption DEF TreeNo, PositionsAssumption
<1> QED BY <1>1, KidOnLine DEF IsLeaf

-----------------------------------------------------------------------------
(* The getter *)

\* What a getter knows of a tree: it starts from the root, and where it has a node it knows
\* the children.
KnownInv(k) ==
  /\ 0 \in known[k] /\ known[k] \subseteq NodesOf(k)
  /\ got[k] \subseteq known[k]
  /\ \A n \in got[k] : Kids(k, n) \subseteq known[k]

GetterInv ==
  /\ known \in [TreeNo -> SUBSET Nat] /\ got \in [TreeNo -> SUBSET Nat]
  /\ available \in [Strand -> BOOLEAN]
  /\ \A k \in TreeNo : KnownInv(k)

\* The nodes of the network; what is missing of a strand was noticed.
StoredInv ==
  /\ stored \in [TreeNo -> SUBSET Nat] /\ \A k \in TreeNo : stored[k] \subseteq NodesOf(k)
  /\ missed \in [Strand -> SUBSET Nat]
  /\ \A k \in Strand : NodesOf(k) \ stored[k] \subseteq missed[k]

\* A node that the getter does not have is on the way to it; where the CID of a node on the
\* way is not known, its parent is on the way.
LEMMA WayDown ==
  ASSUME FileInv, GetterInv, NEW k \in TreeNo, NEW n \in NodesOf(k)
  PROVE  /\ Way(k, n) \subseteq Line(k, n)
         /\ n \notin got[k] => n \in Way(k, n)
         /\ \A m \in Way(k, n) : m \notin known[k] =>
              \E p \in Way(k, n) : p < m /\ m \in Kids(k, p)
<1>1. /\ Line(k, n) \subseteq 0..n /\ 0 \in Line(k, n) /\ n \in Line(k, n) /\ n \in Nat
      /\ 0 \in known[k]
  BY Shape DEF GetterInv, KnownInv
<1> DEFINE lowest == Max(known[k] \cap Line(k, n))
<1>2. lowest \in known[k] \cap Line(k, n)
  BY <1>1, GreatestIn
<1>3. Way(k, n) = IF n \in got[k] THEN {} ELSE {m \in Line(k, n) : m >= lowest}
  BY DEF Way, Line
<1> HIDE DEF lowest
<1>4. lowest \in 0..n
  BY <1>1, <1>2
<1>5. ASSUME NEW m \in Way(k, n), m \notin known[k]
      PROVE  \E p \in Way(k, n) : p < m /\ m \in Kids(k, p)
  <2>1. m \in Line(k, n) \ {0} /\ lowest < m
    BY <1>1, <1>2, <1>3, <1>4, <1>5
  <2>2. PICK p \in Line(k, n) :
          p < m /\ m \in Kids(k, p) /\ \A x \in Line(k, n) : x < m => x <= p
    BY <2>1, ParentBefore
  <2>3. lowest <= p
    BY <1>2, <2>1, <2>2
  <2>4. p \in Way(k, n)
    BY <1>3, <1>5, <2>2, <2>3
  <2> QED BY <2>2, <2>4
<1> QED BY <1>1, <1>3, <1>4, <1>5

\* What is fetched is a beginning of the way: its CIDs are known, or the links of the node
\* before give them.
LEMMA FetchedKnown ==
  ASSUME FileInv, GetterInv, NEW k \in TreeNo, NEW n \in NodesOf(k)
  PROVE  /\ Fetched(k, n) \subseteq NodesOf(k) /\ Fetched(k, n) \subseteq stored[k]
         /\ \A m \in Fetched(k, n) : m \in known[k] \/ \E p \in Fetched(k, n) : m \in Kids(k, p)
<1>1. Way(k, n) \subseteq NodesOf(k) /\ NodesOf(k) \subseteq Nat
  BY WayDown, Shape
<1>2. Fetched(k, n) \subseteq stored[k]
  BY <1>1 DEF Fetched
<1>3. ASSUME NEW m \in Fetched(k, n), m \notin known[k]
      PROVE  \E p \in Fetched(k, n) : m \in Kids(k, p)
  <2>1. m \in Way(k, n) /\ m \in Nat /\ \A x \in Way(k, n) : x <= m => x \in stored[k]
    BY <1>1, <1>3 DEF Fetched
  <2>2. PICK p \in Way(k, n) : p < m /\ m \in Kids(k, p)
    BY <1>3, <2>1, WayDown
  <2>3. \A x \in Way(k, n) : x <= p => x <= m
    BY <1>1, <2>1, <2>2
  <2>4. p \in Fetched(k, n)
    BY <2>1, <2>2, <2>3 DEF Fetched
  <2> QED BY <2>2, <2>4
<1> QED BY <1>1, <1>2, <1>3 DEF Fetched

\* A strand is written off over a missing node that is not a leaf.
LEMMA WrittenOffInner ==
  ASSUME FileInv, GetterInv, NEW k \in TreeNo, NEW n \in NodesOf(k), WrittenOff(k, n)
  PROVE  \E m \in NodesOf(k) \ stored[k] : Kids(k, m) # {}
<1>1. Way(k, n) \subseteq Line(k, n) /\ Line(k, n) \subseteq NodesOf(k) /\ NodesOf(k) \subseteq Nat
  BY WayDown, Shape
<1> DEFINE X == Way(k, n) \ stored[k]
<1>2. X \in SUBSET Nat /\ X # {} /\ Min(X) # n
  BY <1>1 DEF WrittenOff, CanFetch
<1>3. PICK m \in X : m # n
  BY <1>2, LeastOf
<1>4. Kids(k, m) # {}
  BY <1>1, <1>3, KidOnLine
<1> QED BY <1>1, <1>3, <1>4

\* A getter that has fetched nodes with their links.
LEMMA LearntKnown ==
  ASSUME FileInv, GetterInv, NEW k \in TreeNo, NEW ns, NEW n,
         ns \subseteq NodesOf(k),
         \A m \in ns : m \in known[k] \/ \E p \in ns : m \in Kids(k, p)
  PROVE  /\ 0 \in Learnt(k, ns, n) /\ Learnt(k, ns, n) \subseteq NodesOf(k)
         /\ got[k] \cup ns \subseteq Learnt(k, ns, n)
         /\ \A m \in got[k] \cup ns : Kids(k, m) \subseteq Learnt(k, ns, n)
<1>1. KnownInv(k)
  BY DEF GetterInv
<1>2. \A m \in ns : Kids(k, m) \subseteq NodesOf(k)
  BY Shape
<1> QED BY <1>1, <1>2 DEF KnownInv, Learnt

LEMMA LearntInv ==
  ASSUME FileInv, GetterInv, UNCHANGED file, NEW k \in TreeNo, NEW ns, NEW n,
         ns \subseteq NodesOf(k),
         \A m \in ns : m \in known[k] \/ \E p \in ns : m \in Kids(k, p),
         known' = [known EXCEPT ![k] = Learnt(k, ns, n)],
         got' = [got EXCEPT ![k] = @ \cup ns],
         available' \in [Strand -> BOOLEAN]
  PROVE  GetterInv'
<1> DEFINE learnt == Learnt(k, ns, n)
<1>1. /\ 0 \in learnt /\ learnt \subseteq NodesOf(k) /\ got[k] \cup ns \subseteq learnt
      /\ \A m \in got[k] \cup ns : Kids(k, m) \subseteq learnt
  BY LearntKnown
<1>2. NodesOf(k) \subseteq Nat
  BY Shape
<1> HIDE DEF learnt
<1>3. known' = [known EXCEPT ![k] = learnt]
  BY DEF learnt
<1>4. known' \in [TreeNo -> SUBSET Nat] /\ got' \in [TreeNo -> SUBSET Nat]
  BY <1>1, <1>2, <1>3 DEF GetterInv
<1>5. \A j : NodesOf(j)' = NodesOf(j) /\ \A m : Kids(j, m)' = Kids(j, m)
  BY DEF file, NodesOf, Kids
<1>6. ASSUME NEW j \in TreeNo PROVE KnownInv(j)'
  <2>1. CASE j = k
    <3>1. known'[j] = learnt /\ got'[j] = got[k] \cup ns
      BY <1>3, <2>1 DEF GetterInv
    <3> QED BY <1>1, <1>5, <2>1, <3>1 DEF KnownInv
  <2>2. CASE j # k
    <3>1. known'[j] = known[j] /\ got'[j] = got[j] /\ KnownInv(j)
      BY <1>3, <2>2 DEF GetterInv
    <3> QED BY <1>5, <3>1 DEF KnownInv
  <2> QED BY <2>1, <2>2
<1> QED BY <1>4, <1>6 DEF GetterInv

LEMMA GetDataDoes ==
  ASSUME FileInv, GetterInv, UNCHANGED file, NEW i \in 1..ChunkNum, GetData(i)
  PROVE  /\ GetterInv' /\ got'[0] \subseteq got[0] \cup stored[0]
         /\ UNCHANGED available
<1>0. 0 \in TreeNo
  BY PositionsAssumption DEF TreeNo, PositionsAssumption
<1>1. PICK n : n = CHOOSE m \in NodesOf(0) : idx[m] = i
  OBVIOUS
<1>2. n \in NodesOf(0)
  BY <1>1 DEF FileInv
<1> DEFINE ns == Fetched(0, n)
<1>3. /\ known' = [known EXCEPT ![0] = Learnt(0, ns, n)]
      /\ got' = [got EXCEPT ![0] = @ \cup ns]
      /\ UNCHANGED available
  BY <1>1 DEF GetData
<1>4. /\ ns \subseteq NodesOf(0) /\ ns \subseteq stored[0]
      /\ \A m \in ns : m \in known[0] \/ \E p \in ns : m \in Kids(0, p)
  BY <1>0, <1>2, FetchedKnown
<1> HIDE DEF ns
<1>5. GetterInv'
  BY <1>0, <1>3, <1>4, LearntInv DEF GetterInv
<1>6. got'[0] = got[0] \cup ns
  BY <1>0, <1>3 DEF GetterInv
<1> QED BY <1>3, <1>4, <1>5, <1>6

LEMMA GetParityDoes ==
  ASSUME FileInv, GetterInv, UNCHANGED file, NEW i \in 1..ChunkNum, NEW k \in Strand,
         GetParity(i, k)
  PROVE  /\ GetterInv' /\ got'[0] = got[0]
         /\ \A j \in Strand : available[j] /\ ~available'[j] =>
              \E m \in NodesOf(j) \ stored[j] : Kids(j, m) # {}
<1>0. k \in TreeNo /\ 0 \in TreeNo /\ k # 0 /\ TriedPieces(k, i) \subseteq NodesOf(k)
  BY PositionsAssumption DEF TreeNo, Strand, PositionsAssumption, FileInv, TriedPieces
<1>1. CASE available[k]
  <2> DEFINE ns == UNION {Fetched(k, n) : n \in TriedPieces(k, i)}
             there == \A n \in TriedPieces(k, i) : ~WrittenOff(k, n)
  <2>1. /\ known' = [known EXCEPT ![k] = Learnt(k, ns, Max(TriedPieces(k, i)))]
        /\ got' = [got EXCEPT ![k] = @ \cup ns]
        /\ available' = [available EXCEPT ![k] = there]
    BY <1>1 DEF GetParity
  <2>2. \A n \in TriedPieces(k, i) :
          /\ Fetched(k, n) \subseteq NodesOf(k)
          /\ \A m \in Fetched(k, n) : m \in known[k] \/ \E p \in Fetched(k, n) : m \in Kids(k, p)
    BY <1>0, FetchedKnown
  <2>3. ns \subseteq NodesOf(k)
    BY <2>2
  <2>4. ASSUME NEW m \in ns, m \notin known[k] PROVE \E p \in ns : m \in Kids(k, p)
    <3>1. PICK n \in TriedPieces(k, i) : m \in Fetched(k, n)
      OBVIOUS
    <3>2. PICK p \in Fetched(k, n) : m \in Kids(k, p)
      BY <2>2, <2>4, <3>1
    <3> QED BY <3>2
  <2>5. available' \in [Strand -> BOOLEAN]
    <3>1. there \in BOOLEAN
      OBVIOUS
    <3> HIDE DEF there
    <3> QED BY <2>1, <3>1 DEF GetterInv
  <2>6. GetterInv'
    <3> HIDE DEF ns, there
    <3> QED BY <1>0, <2>1, <2>3, <2>4, <2>5, LearntInv
  <2>7. got'[0] = got[0]
    BY <1>0, <2>1 DEF GetterInv
  <2>8. ASSUME NEW j \in Strand, available[j], ~available'[j]
        PROVE  \E m \in NodesOf(j) \ stored[j] : Kids(j, m) # {}
    <3>1. j = k /\ ~there
      <4> HIDE DEF there
      <4> QED BY <2>1, <2>8 DEF GetterInv
    <3>2. PICK n \in TriedPieces(k, i) : WrittenOff(k, n)
      BY <3>1
    <3> QED BY <1>0, <3>1, <3>2, WrittenOffInner
  <2> QED BY <2>6, <2>7, <2>8
<1>2. CASE ~available[k]
  <2>1. UNCHANGED getter
    BY <1>2 DEF GetParity
  <2>2. UNCHANGED <<trees, known, got, available>>
    BY <2>1 DEF getter, file
  <2>3. GetterInv'
    BY <2>2 DEF GetterInv, KnownInv, NodesOf, Kids
  <2> QED BY <2>2, <2>3
<1> QED BY <1>1, <1>2

\* Whatever block the lattice has it fetch.
LEMMA GetBlockDoes ==
  ASSUME FileInv, GetterInv, UNCHANGED file, NEW b \in L!Block, GetBlock(b)
  PROVE  /\ GetterInv' /\ got'[0] \subseteq got[0] \cup stored[0]
         /\ \A j \in Strand : available[j] /\ ~available'[j] =>
              \E m \in NodesOf(j) \ stored[j] : Kids(j, m) # {}
<1>1. b[2] \in 1..ChunkNum /\ (b[1] = 0 \/ b[1] \in Strand)
  BY DEF L!Block, L!Strand, Strand
<1>2. CASE b[1] = 0
  <2>1. GetData(b[2])
    BY <1>2 DEF GetBlock
  <2> QED BY <1>1, <2>1, GetDataDoes
<1>3. CASE b[1] # 0
  <2>1. b[1] \in Strand /\ GetParity(b[2], b[1])
    BY <1>1, <1>3 DEF GetBlock
  <2> QED BY <1>1, <2>1, GetParityDoes
<1> QED BY <1>2, <1>3

-----------------------------------------------------------------------------
(* The lattice *)

LEMMA Assumed ==
  ASSUME L!Regular
  PROVE  LP!PositionsAssumption /\ LP!LatticeAssumption /\ LP!PairsHold
<1>1. LP!PositionsAssumption
  BY PositionsAssumption DEF PositionsAssumption, LP!PositionsAssumption
<1>2. {<<0, i>> : i \in 1..ChunkNum} \subseteq LP!Block
  BY DEF LP!Block
<1>3. LP!LatticeAssumption
  <2>1. ChunkNum >= P
    BY Numbers, PositionsAssumption DEF L!Regular, PositionsAssumption
  <2> QED BY <1>2, <2>1, Numbers, WalkAssumption DEF WalkAssumption, LP!LatticeAssumption
<1>4. LP!Regular
  BY DEF L!Regular, LP!Regular
<1> QED BY <1>1, <1>3, <1>4, LP!LinksAgree

\* What the lattice's invariant says of its state.
LEMMA LatticeHas ==
  ASSUME L!Regular, LP!BlocksInv
  PROVE  /\ repaired \subseteq L!Block
         /\ status \in [L!Block -> {"NoData", "RepairPending", "DataAvailable"}]
         /\ \A b \in L!Block : status[b] = "DataAvailable" => chunk[b] = L!Value[b]
         /\ L!Looking => L!Target \in L!Block
         /\ stack # <<>> => Head(stack).block \in L!Block
         /\ chunk \in [L!Block -> L!Chunk]
<1>1. LP!Typed /\ LP!HoldsItsValue
  BY DEF LP!BlocksInv
<1>2. L!Block = LP!Block /\ L!Chunk = LP!Chunk /\ L!Value = LP!Value
  BY SameSets, SameValue
<1>3. L!Looking => L!Target \in L!Block
  BY <1>1, <1>2, Assumed, LP!TargetType, SameState
<1>4. ASSUME stack # <<>> PROVE Head(stack).block \in LP!Block
  <2>1. stack \in Seq(LP!GivingFrames)
    BY <1>1 DEF LP!Typed
  <2>2. Head(stack) \in LP!GivingFrames
    BY <1>4, <2>1
  <2> QED BY <2>2 DEF LP!GivingFrames, LP!Frames
<1> QED BY <1>1, <1>2, <1>3, <1>4 DEF LP!Typed, LP!HoldsItsValue, LP!Available

\* What a step of the lattice does to its blocks: what it did not recover was there, or
\* could be fetched.
LEMMA BlocksStep ==
  ASSUME L!Regular, LP!BlocksInv, L!Step
  PROVE  /\ L!Busy /\ repaired \subseteq repaired'
         /\ \A b \in L!Block : status'[b] = "DataAvailable" =>
              \/ status[b] = "DataAvailable"
              \/ b \in repaired'
              \/ b \in Gettable
<1>0. status \in [L!Block -> {"NoData", "RepairPending", "DataAvailable"}]
  BY LatticeHas
<1>1. CASE L!Download
  BY <1>0, <1>1, LatticeHas DEF L!Download, L!Looking
<1>2. CASE L!StartRepair
  BY <1>0, <1>2, LatticeHas DEF L!StartRepair, L!Looking
<1>3. CASE L!Fail
  BY <1>3 DEF L!Fail, L!Looking, L!blocks
<1>4. CASE L!GiveUp
  BY <1>0, <1>4, LatticeHas DEF L!GiveUp, L!FinishRepair
<1>5. CASE L!HaveLeft
  BY <1>5 DEF L!HaveLeft, L!Looking, L!blocks
<1>6. CASE L!Recover
  BY <1>0, <1>6, LatticeHas DEF L!Recover, L!Looking
<1>7. CASE L!Answer
  BY <1>7 DEF L!Answer, L!Looking, L!blocks
<1> QED BY <1>1, <1>2, <1>3, <1>4, <1>5, <1>6, <1>7 DEF L!Step

\* And to the request: it goes on, or is answered.
LEMMA RequestStep ==
  ASSUME L!Step
  PROVE  \/ request' = request
         \/ /\ request' = L!NoRequest
            /\ answer'.repaired = (request.block \in repaired) /\ repaired' = repaired
            /\ answer'.ok \in BOOLEAN
            /\ answer'.ok => /\ status'[request.block] = "DataAvailable"
                             /\ answer'.chunk = chunk[request.block] /\ chunk' = chunk
<1>1. CASE L!Download \/ L!StartRepair \/ L!HaveLeft \/ L!Recover
  BY <1>1 DEF L!Download, L!StartRepair, L!HaveLeft, L!Recover
<1>2. CASE L!Fail \/ L!GiveUp
  <2>1. UNCHANGED <<chunk, repaired>> /\ (L!RequestFailed \/ request' = request)
    BY <1>2 DEF L!Fail, L!GiveUp, L!blocks
  <2>2. CASE L!RequestFailed
    <3>1. request' = L!NoRequest /\ answer' = L!Answered(FALSE)
      BY <2>2 DEF L!RequestFailed
    <3>2. /\ L!Answered(FALSE).repaired = (request.block \in repaired)
          /\ L!Answered(FALSE).ok = FALSE
      BY DEF L!Answered
    <3> QED BY <2>1, <3>1, <3>2
  <2> QED BY <2>1, <2>2
<1>3. CASE L!Answer
  <2>1. request' = L!NoRequest /\ answer' = L!Answered(TRUE) /\ UNCHANGED <<status, chunk, repaired>>
    BY <1>3 DEF L!Answer, L!blocks
  <2>2. status[request.block] = "DataAvailable"
    BY <1>3 DEF L!Answer, L!Target
  <2> QED BY <2>1, <2>2 DEF L!Answered
<1> QED BY <1>1, <1>2, <1>3 DEF L!Step

-----------------------------------------------------------------------------
(* Sequences *)

LEMMA RangeOfConcat ==
  ASSUME NEW T, NEW s \in Seq(T), NEW t \in Seq(T)
  PROVE  s \o t \in Seq(T) /\ Range(s \o t) = Range(s) \cup Range(t)
<1>1. s \o t \in Seq(T)
  OBVIOUS
<1>2. ASSUME NEW x \in Range(s \o t) PROVE x \in Range(s) \cup Range(t)
  <2>1. PICK i \in 1..(Len(s) + Len(t)) : x = (s \o t)[i]
    BY <1>2 DEF Range
  <2>2. CASE i <= Len(s)
    BY <2>1, <2>2 DEF Range
  <2>3. CASE i > Len(s)
    <3>1. x = t[i - Len(s)] /\ i - Len(s) \in 1..Len(t)
      BY <2>1, <2>3
    <3> QED BY <3>1 DEF Range
  <2> QED BY <2>1, <2>2, <2>3
<1>3. ASSUME NEW x \in Range(s) PROVE x \in Range(s \o t)
  <2>1. PICK i \in 1..Len(s) : x = s[i]
    BY DEF Range
  <2>2. i \in 1..(Len(s) + Len(t)) /\ x = (s \o t)[i]
    BY <2>1
  <2> QED BY <2>2 DEF Range
<1>4. ASSUME NEW x \in Range(t) PROVE x \in Range(s \o t)
  <2>1. PICK i \in 1..Len(t) : x = t[i]
    BY DEF Range
  <2>2. Len(s) + i \in 1..(Len(s) + Len(t)) /\ x = (s \o t)[Len(s) + i]
    BY <2>1
  <2> QED BY <2>2 DEF Range
<1> QED BY <1>1, <1>2, <1>3, <1>4

LEMMA RangeOfTail ==
  ASSUME NEW T, NEW s \in Seq(T), s # <<>>
  PROVE  /\ Head(s) \in T /\ Tail(s) \in Seq(T)
         /\ Range(s) = {Head(s)} \cup Range(Tail(s))
<1>1. Head(s) \in T /\ Tail(s) \in Seq(T) /\ Len(s) \in Nat \ {0}
  OBVIOUS
<1>2. ASSUME NEW x \in Range(s) PROVE x \in {Head(s)} \cup Range(Tail(s))
  <2>1. PICK i \in 1..Len(s) : x = s[i]
    BY DEF Range
  <2>2. CASE i = 1
    BY <2>1, <2>2
  <2>3. CASE i # 1
    <3>1. i - 1 \in 1..Len(Tail(s)) /\ x = Tail(s)[i - 1]
      BY <1>1, <2>1, <2>3
    <3>2. DOMAIN Tail(s) = 1..Len(Tail(s))
      BY <1>1
    <3>3. Tail(s)[i - 1] \in Range(Tail(s))
      BY <3>1, <3>2 DEF Range
    <3> QED BY <3>1, <3>3
  <2> QED BY <2>2, <2>3
<1>3. Head(s) \in Range(s)
  BY <1>1 DEF Range
<1>4. ASSUME NEW x \in Range(Tail(s)) PROVE x \in Range(s)
  <2>1. PICK i \in 1..Len(Tail(s)) : x = Tail(s)[i]
    BY <1>1 DEF Range
  <2>2. i + 1 \in 1..Len(s) /\ x = s[i + 1]
    BY <1>1, <2>1
  <2> QED BY <2>2 DEF Range
<1> QED BY <1>1, <1>2, <1>3, <1>4

-----------------------------------------------------------------------------
(* The walk *)

ControlInv ==
  /\ job \in {"retrieve", "repair", "download", "count", "strand"}
  /\ pc \in {"prepare", "visit", "answer", "done", "failed"}
  /\ todo \in Seq(NodesOf(0)) /\ list \in Seq(NodesOf(0))
  /\ pc \in {"prepare", "done"} => todo = <<>>

\* The lattice is asked for the next node, and its answer is that node's.
AskedInv ==
  /\ pc # "answer" => ~L!Busy
  /\ pc = "answer" => todo # <<>>
  /\ L!Busy => request.block = Asked
  /\ pc = "answer" /\ ~L!Busy =>
       /\ answer.repaired = (Asked \in repaired)
       /\ answer.ok => status[Asked] = "DataAvailable" /\ answer.chunk = {idx[Node]}

\* What the getter has was stored, and so was what is in the lattice and was not recovered.
SeenInv ==
  /\ stored[0] \subseteq seen /\ got[0] \subseteq seen
  /\ \A n \in NodesOf(0) :
       status[L!Data(idx[n])] = "DataAvailable" => n \in seen \/ L!Data(idx[n]) \in repaired

LEMMA SameShape ==
  ASSUME UNCHANGED file
  PROVE  /\ \A k : NodesOf(k)' = NodesOf(k)
         /\ \A k, n : Kids(k, n)' = Kids(k, n) /\ Line(k, n)' = Line(k, n)
         /\ \A n : IsLeaf(n)' = IsLeaf(n)
         /\ Leaf' = Leaf /\ UNCHANGED <<trees, idx, pieces>>
BY DEF file, NodesOf, Kids, Line, IsLeaf, Leaf

LEMMA FileUnchanged == [Next]_vars => UNCHANGED file
<1>1. Walk => UNCHANGED file
  BY DEF Walk, Prepare, PrepareFails, Visit, Serve, ListLeaf, LeafThere, NodeLost, NodeThere,
     ReuploadFails, RepairLeaf, RepairListed, WalkDone, StrandGenerated
<1>2. ASSUME NEW k, NEW n, NetworkChanges(k, n) PROVE UNCHANGED file
  BY <1>2 DEF NetworkChanges
<1> QED BY <1>1, <1>2 DEF Next, vars

LEMMA FileStays == FileInv /\ UNCHANGED file => FileInv'
<1> SUFFICES ASSUME FileInv, UNCHANGED file PROVE FileInv'
  OBVIOUS
<1>1. \A k : TreeInv(k)' = TreeInv(k)
  BY DEF file, TreeInv, NodesOf, Kids, Line, ParentOnLine
<1> QED BY <1>1, SameShape DEF FileInv

LEMMA NodeIs ==
  ASSUME FileInv, ControlInv, todo # <<>>
  PROVE  /\ Node \in NodesOf(0) /\ Tail(todo) \in Seq(NodesOf(0))
         /\ Range(todo) = {Node} \cup Range(Tail(todo))
         /\ idx[Node] \in 1..ChunkNum /\ Asked = <<0, idx[Node]>> /\ Asked \in L!Block
         /\ L!Value[Asked] = {idx[Node]}
<1>1. /\ Node \in NodesOf(0) /\ Tail(todo) \in Seq(NodesOf(0))
      /\ Range(todo) = {Node} \cup Range(Tail(todo))
  BY RangeOfTail DEF ControlInv, Node
<1>2. idx[Node] \in 1..ChunkNum /\ Asked = <<0, idx[Node]>>
  BY <1>1 DEF FileInv, Asked, L!Data
<1>3. Asked \in L!Block /\ L!Value[Asked] = {idx[Node]}
  BY <1>2 DEF L!Block, L!Value, L!IsParity
<1> QED BY <1>1, <1>2, <1>3

\* What is put back are nodes of the file; over an answer that is right it is the node.
LEMMA BackIs ==
  ASSUME FileInv, ControlInv, AskedInv, pc = "answer", PutBack
  PROVE  \E back \in SUBSET NodesOf(0) :
           /\ stored' = [stored EXCEPT ![0] = @ \cup back] /\ seen' = seen \cup back
           /\ ~L!Busy /\ answer.ok => back = {Node}
<1> DEFINE back == {n \in NodesOf(0) : answer.chunk = {idx[n]}}
<1>1. stored' = [stored EXCEPT ![0] = @ \cup back] /\ seen' = seen \cup back
  BY DEF PutBack
<1>2. ASSUME ~L!Busy, answer.ok PROVE back = {Node}
  <2>1. answer.chunk = {idx[Node]} /\ Node \in NodesOf(0)
    BY <1>2, NodeIs DEF AskedInv
  <2>2. \A n \in NodesOf(0) : idx[n] = idx[Node] => n = Node
    BY <2>1 DEF FileInv
  <2> QED BY <2>1, <2>2
<1>3. back \in SUBSET NodesOf(0)
  OBVIOUS
<1> HIDE DEF back
<1> QED BY <1>1, <1>2, <1>3

LEMMA InitWalk ==
  ASSUME L!Regular, Init
  PROVE  /\ FileInv /\ GetterInv /\ StoredInv /\ WrittenOffForCause
         /\ LP!BlocksInv /\ ControlInv /\ AskedInv /\ SeenInv
<1>1. FileInv
  BY InitFile DEF Init
<1>2. 0 \in TreeNo /\ Strand \subseteq TreeNo
  BY Numbers
<1>3. \A k \in TreeNo : NodesOf(k) \subseteq Nat /\ 0 \in NodesOf(k)
  BY <1>1, Shape
<1>4. GetterInv
  BY <1>3 DEF Init, GetterInv, KnownInv
<1>5. PICK lost \in Losses :
        stored = [k \in TreeNo |-> {n \in NodesOf(k) : <<k, n>> \notin lost}]
  BY DEF Init
<1>6. StoredInv
  BY <1>2, <1>3, <1>5 DEF Init, StoredInv
<1>7. WrittenOffForCause
  BY DEF Init, WrittenOffForCause
<1>8. LP!BlocksInv
  <2>1. /\ status = [b \in LP!Block |-> "NoData"] /\ chunk = [b \in LP!Block |-> {}]
        /\ repaired = {} /\ request = LP!NoRequest /\ stack = <<>> /\ asked = 0
    BY SameSets, SameState DEF Init
  <2>2. LP!Typed
    BY <2>1, Numbers DEF LP!Typed, LP!Chunk
  <2>3. LP!StackInv
    BY <2>1 DEF LP!StackInv, LP!TryingIn, LP!LeftIn, LP!PendingIn
  <2>4. LP!HoldsItsValue
    BY <2>1 DEF LP!HoldsItsValue, LP!Available
  <2> QED BY <2>2, <2>3, <2>4 DEF LP!BlocksInv
<1>9. ControlInv
  BY WalkAssumption DEF Init, ControlInv, WalkAssumption
<1>10. AskedInv
  BY DEF Init, AskedInv, L!Busy
<1>11. SeenInv
  <2>1. ASSUME NEW n \in NodesOf(0) PROVE status[L!Data(idx[n])] = "NoData"
    <3>1. idx[n] \in 1..ChunkNum
      BY <1>1 DEF FileInv
    <3> QED BY <3>1 DEF Init, L!Data, L!Block
  <2> QED BY <1>2, <2>1 DEF Init, SeenInv
<1> QED BY <1>1, <1>4, <1>6, <1>7, <1>8, <1>9, <1>10, <1>11

LEMMA ServeGets ==
  ASSUME L!Regular, FileInv, GetterInv, LP!BlocksInv, Serve
  PROVE  /\ GetterInv' /\ got'[0] \subseteq got[0] \cup stored[0]
         /\ \A j \in Strand : available[j] /\ ~available'[j] =>
              \E m \in NodesOf(j) \ stored[j] : Kids(j, m) # {}
<1>1. UNCHANGED file
  BY DEF Serve
<1>2. CASE L!Looking /\ status[L!Target] = "NoData"
  <2>1. GetBlock(L!Target) /\ L!Target \in L!Block
    BY <1>2, LatticeHas DEF Serve
  <2> QED BY <1>1, <2>1, GetBlockDoes
<1>3. CASE ~(L!Looking /\ status[L!Target] = "NoData")
  <2>1. UNCHANGED <<known, got, available>>
    BY <1>3 DEF Serve, getter
  <2>2. GetterInv'
    BY <1>1, <2>1, SameShape DEF GetterInv, KnownInv
  <2> QED BY <2>1, <2>2
<1> QED BY <1>2, <1>3

\* The steps that do not change what the getter has.
LEMMA GetterSame ==
  ASSUME [Next]_vars, ~Prepare, ~Serve, ~Visit
  PROVE  UNCHANGED getter
<1>1. Walk => UNCHANGED getter
  BY DEF Walk, PrepareFails, ListLeaf, LeafThere, NodeLost, NodeThere,
     ReuploadFails, RepairLeaf, RepairListed, WalkDone, StrandGenerated
<1>2. ASSUME NEW k, NEW n, NetworkChanges(k, n) PROVE UNCHANGED getter
  BY <1>2 DEF NetworkChanges
<1> QED BY <1>1, <1>2 DEF Next, vars

LEMMA StepGetter ==
  ASSUME L!Regular, FileInv, GetterInv, LP!BlocksInv, ControlInv, AskedInv,
         [Next]_vars
  PROVE  GetterInv'
<1>0. UNCHANGED file /\ 0 \in TreeNo /\ 0 \notin Strand
  BY FileUnchanged, Numbers
<1>1. CASE Prepare
  <2>1. /\ known' = [k \in TreeNo |-> {0}] /\ got' = [k \in TreeNo |-> {}]
        /\ available' \in [Strand -> BOOLEAN]
    BY <1>1 DEF Prepare
  <2>2. \A k \in TreeNo : NodesOf(k) \subseteq Nat /\ 0 \in NodesOf(k)
    BY Shape
  <2>3. \A k \in TreeNo : KnownInv(k)'
    BY <1>0, <2>1, <2>2, SameShape DEF KnownInv
  <2> QED BY <2>1, <2>2, <2>3 DEF GetterInv
<1>2. CASE Serve
  BY <1>2, ServeGets
<1>3. CASE Visit
  <2>1. Node \in NodesOf(0)
    BY <1>3, NodeIs DEF Visit
  <2> DEFINE new == IF job = "repair" THEN {} ELSE {Node}
  <2>2. /\ known' = [known EXCEPT ![0] = @ \cup new]
        /\ UNCHANGED <<got, available>>
    BY <1>3 DEF Visit
  <2>3. new \subseteq NodesOf(0) /\ NodesOf(0) \subseteq Nat
    BY <1>0, <2>1, Shape
  <2> HIDE DEF new
  <2>4. ASSUME NEW k \in TreeNo PROVE KnownInv(k)'
    <3>1. KnownInv(k) /\ known'[k] = known[k] \cup (IF k = 0 THEN new ELSE {})
      BY <2>2 DEF GetterInv
    <3> QED BY <1>0, <2>2, <2>3, <3>1, SameShape DEF KnownInv
  <2>5. known' \in [TreeNo -> SUBSET Nat]
    BY <2>2, <2>3 DEF GetterInv
  <2> QED BY <2>2, <2>4, <2>5 DEF GetterInv
<1>4. CASE ~Prepare /\ ~Serve /\ ~Visit
  <2>1. UNCHANGED <<known, got, available>>
    BY <1>4, GetterSame DEF getter
  <2> QED BY <1>0, <2>1, SameShape DEF GetterInv, KnownInv
<1> QED BY <1>1, <1>2, <1>3, <1>4

\* What a step does to the network: recovered nodes are put back, a strand is added, or a
\* node comes or goes.
LEMMA StoredStep ==
  ASSUME [Next]_vars
  PROVE  \/ UNCHANGED <<stored, seen, missed>>
         \/ pc = "answer" /\ PutBack /\ UNCHANGED missed
         \/ /\ stored' = [stored EXCEPT ![RepairedStrand] = NodesOf(RepairedStrand)]
            /\ UNCHANGED <<seen, missed>>
         \/ \E f \in Flickers : NetworkChanges(f[1], f[2])
<1>1. CASE NodeThere
  BY <1>1 DEF NodeThere, Reupload, Answer
<1>2. CASE RepairLeaf \/ ReuploadFails
  BY <1>2 DEF RepairLeaf, ReuploadFails, Answer
<1>3. CASE StrandGenerated
  BY <1>3 DEF StrandGenerated, history
<1>4. CASE Walk /\ ~NodeThere /\ ~RepairLeaf /\ ~ReuploadFails /\ ~StrandGenerated
  BY <1>4 DEF Walk, Prepare, PrepareFails, Visit, Serve, ListLeaf, LeafThere, NodeLost,
     RepairListed, WalkDone, history
<1>5. CASE UNCHANGED vars
  BY <1>5 DEF vars, history
<1> QED BY <1>1, <1>2, <1>3, <1>4, <1>5 DEF Next

LEMMA StepStored ==
  ASSUME FileInv, StoredInv, ControlInv, AskedInv, [Next]_vars
  PROVE  StoredInv'
<1>0. /\ UNCHANGED file /\ 0 \in TreeNo /\ 0 \notin Strand /\ Strand \subseteq TreeNo
      /\ \A k \in TreeNo : NodesOf(k) \subseteq Nat
      /\ RepairedStrand \in Strand
  <2>1. \A k \in TreeNo : NodesOf(k) \subseteq Nat
    BY Shape
  <2>2. RepairedStrand \in Strand
    BY PositionsAssumption DEF RepairedStrand, Strand, PositionsAssumption
  <2> QED BY <2>1, <2>2, FileUnchanged, Numbers
<1>1. CASE UNCHANGED <<stored, seen, missed>>
  BY <1>0, <1>1, SameShape DEF StoredInv
<1>2. CASE pc = "answer" /\ PutBack /\ UNCHANGED missed
  <2>1. PICK back \in SUBSET NodesOf(0) : stored' = [stored EXCEPT ![0] = @ \cup back]
    BY <1>2, BackIs
  <2> QED BY <1>0, <1>2, <2>1, SameShape DEF StoredInv
<1>3. CASE /\ stored' = [stored EXCEPT ![RepairedStrand] = NodesOf(RepairedStrand)]
           /\ UNCHANGED <<seen, missed>>
  BY <1>0, <1>3, SameShape DEF StoredInv
<1>4. ASSUME NEW f \in Flickers, NetworkChanges(f[1], f[2]) PROVE StoredInv'
  <2>1. PICK k \in TreeNo, n \in NodesOf(f[1]) : k = f[1] /\ n = f[2]
    BY DEF FileInv
  <2>2. /\ stored' = [stored EXCEPT ![k] = IF n \in @ THEN @ \ {n} ELSE @ \cup {n}]
        /\ missed' = IF k = 0 THEN missed ELSE [missed EXCEPT ![k] = @ \cup {n}]
    BY <1>4, <2>1 DEF NetworkChanges
  <2>3. /\ stored' \in [TreeNo -> SUBSET Nat] /\ missed' \in [Strand -> SUBSET Nat]
        /\ \A j \in TreeNo : stored'[j] \subseteq NodesOf(j)
    <3> DEFINE new == IF n \in stored[k] THEN stored[k] \ {n} ELSE stored[k] \cup {n}
    <3>1. new \subseteq NodesOf(k) /\ NodesOf(k) \subseteq Nat
      BY <1>0, <2>1 DEF StoredInv
    <3>2. stored' = [stored EXCEPT ![k] = new]
      BY <2>2 DEF StoredInv
    <3>3. missed' \in [Strand -> SUBSET Nat]
      <4>1. missed \in [Strand -> SUBSET Nat]
        BY DEF StoredInv
      <4>2. n \in Nat
        BY <2>1, <3>1
      <4>3. CASE k = 0
        BY <2>2, <4>1, <4>3
      <4>4. CASE k # 0
        <5>1. missed' = [missed EXCEPT ![k] = missed[k] \cup {n}]
          BY <2>2, <4>4
        <5>2. \A j \in Strand : missed[j] \cup {n} \in SUBSET Nat
          BY <4>1, <4>2
        <5> HIDE DEF new
        <5> QED BY <4>1, <5>1, <5>2
      <4> QED BY <4>3, <4>4
    <3> HIDE DEF new
    <3> QED BY <3>1, <3>2, <3>3 DEF StoredInv
  <2>4. ASSUME NEW j \in Strand PROVE NodesOf(j) \ stored'[j] \subseteq missed'[j]
    BY <1>0, <2>1, <2>2 DEF StoredInv
  <2> QED BY <1>0, <2>3, <2>4, SameShape DEF StoredInv
<1> QED BY <1>1, <1>2, <1>3, <1>4, StoredStep

LEMMA MissedStays ==
  ASSUME FileInv, StoredInv, [Next]_vars, NEW k \in Strand
  PROVE  missed[k] \subseteq missed'[k]
<1>1. ASSUME NEW f \in Flickers, NetworkChanges(f[1], f[2]) PROVE missed[k] \subseteq missed'[k]
  BY <1>1 DEF NetworkChanges, StoredInv
<1> QED BY <1>1, StoredStep

LEMMA StepWritten ==
  ASSUME L!Regular, FileInv, GetterInv, StoredInv, LP!BlocksInv,
         WrittenOffForCause, [Next]_vars
  PROVE  WrittenOffForCause'
<1>0. UNCHANGED file
  BY FileUnchanged
<1> SUFFICES ASSUME NEW k \in Strand, ~available'[k], ~(job' = "strand" /\ k = RepairedStrand)
             PROVE  \E n \in missed'[k] : Kids(k, n) # {}
  BY <1>0, SameShape DEF WrittenOffForCause
<1>1. job = "strand" => job' = "strand"
  BY DEF Next, Walk, Prepare, PrepareFails, Visit, Serve, ListLeaf, LeafThere, NodeLost,
     NodeThere, ReuploadFails, RepairLeaf, RepairListed, WalkDone, StrandGenerated,
     NetworkChanges, vars
<1>2. ~available[k] => \E n \in missed'[k] : Kids(k, n) # {}
  BY <1>1, MissedStays DEF WrittenOffForCause
<1>3. CASE Prepare
  BY <1>3 DEF Prepare
<1>4. CASE Serve /\ available[k]
  <2>1. PICK m \in NodesOf(k) \ stored[k] : Kids(k, m) # {}
    BY <1>4, ServeGets
  <2>2. m \in missed[k]
    BY DEF StoredInv
  <2> QED BY <2>1, <2>2, MissedStays
<1>5. CASE ~Prepare /\ ~Serve
  <2>1. UNCHANGED available
    BY <1>5, GetterSame DEF getter, Visit
  <2> QED BY <1>2, <2>1
<1> QED BY <1>2, <1>3, <1>4, <1>5

LEMMA FreshBlocks ==
  ASSUME FreshLattice
  PROVE  LP!BlocksInv'
<1>1. /\ status' = [b \in LP!Block |-> "NoData"] /\ chunk' = [b \in LP!Block |-> {}]
      /\ repaired' = {} /\ request' = LP!NoRequest /\ stack' = <<>> /\ asked' = 0
  BY SameSets, SameState DEF FreshLattice
<1>2. LP!Typed'
  BY <1>1, Numbers DEF LP!Typed, LP!Chunk
<1>3. LP!StackInv'
  BY <1>1 DEF LP!StackInv, LP!TryingIn, LP!LeftIn, LP!PendingIn
<1>4. LP!HoldsItsValue'
  BY <1>1 DEF LP!HoldsItsValue, LP!Available
<1> QED BY <1>2, <1>3, <1>4 DEF LP!BlocksInv

\* The depths the walks ask with.
LEMMA VisitAsks ==
  ASSUME L!Regular, FileInv, ControlInv, Visit
  PROVE  \E b \in {<<0, i>> : i \in 1..ChunkNum}, d \in {1, 2, SwitchDepth} :
           b = Asked /\ L!Ask(b, d)
<1>1. PICK d \in {1, 2, SwitchDepth} : L!Ask(Asked, d)
  BY DEF Visit
<1>2. Asked \in {<<0, i>> : i \in 1..ChunkNum}
  BY NodeIs DEF Visit
<1> QED BY <1>1, <1>2

LEMMA StepBlocks ==
  ASSUME L!Regular, FileInv, LP!BlocksInv, ControlInv, [Next]_vars
  PROVE  LP!BlocksInv'
<1>0. LP!PositionsAssumption /\ LP!LatticeAssumption /\ LP!PairsHold
  BY Assumed
<1>1. CASE Prepare
  BY <1>1, FreshBlocks DEF Prepare
<1>2. CASE Visit
  <2>1. PICK b \in {<<0, i>> : i \in 1..ChunkNum}, d \in {1, 2, SwitchDepth} : LP!Ask(b, d)
    BY <1>2, VisitAsks, SameAsk
  <2> QED BY <1>0, <2>1, LP!AskInv
<1>3. CASE Serve
  <2>1. LP!Step
    BY <1>3, SameStep DEF Serve
  <2> QED BY <1>0, <2>1, LP!StepInv
<1>4. CASE ~Prepare /\ ~Visit /\ ~Serve
  <2>1. UNCHANGED lattice
    <3>1. Walk => UNCHANGED lattice
      BY <1>4 DEF Walk, PrepareFails, ListLeaf, LeafThere, NodeLost, NodeThere,
         ReuploadFails, RepairLeaf, RepairListed, WalkDone, StrandGenerated
    <3>2. ASSUME NEW k, NEW n, NetworkChanges(k, n) PROVE UNCHANGED lattice
      BY <3>2 DEF NetworkChanges
    <3> QED BY <3>1, <3>2 DEF Next, vars
  <2>2. UNCHANGED <<LP!blocks, request, stack, asked>>
    BY <2>1 DEF lattice, LP!blocks
  <2> QED BY <1>0, <2>2, LP!BlocksStay
<1> QED BY <1>1, <1>2, <1>3, <1>4

\* What a step does to the nodes to visit.
LEMMA StepControl ==
  ASSUME FileInv, ControlInv, AskedInv, [Next]_vars
  PROVE  ControlInv'
<1>0. UNCHANGED file /\ 0 \in TreeNo /\ 0 \in NodesOf(0)
  BY FileUnchanged, Numbers, Shape
<1> SUFFICES /\ job' \in {"retrieve", "repair", "download", "count", "strand"}
             /\ pc' \in {"prepare", "visit", "answer", "done", "failed"}
             /\ todo' \in Seq(NodesOf(0)) /\ list' \in Seq(NodesOf(0))
             /\ pc' \in {"prepare", "done"} => todo' = <<>>
  BY <1>0, SameShape DEF ControlInv
<1>1. CASE Prepare
  BY <1>0, <1>1 DEF Prepare, ControlInv, outcome
<1>2. CASE pc = "answer" /\ ~Serve /\ Walk
  <2>1. Node \in NodesOf(0) /\ Tail(todo) \in Seq(NodesOf(0))
    BY <1>2, NodeIs DEF AskedInv
  <2>2. trees[0].tree.children[Node] \in Seq(NodesOf(0))
    <3>1. trees[0].tree.children[Node] \in Seq(NodesOf(0) \ {0})
      BY <1>0, <2>1, Shape
    <3> QED BY <3>1
  <2>3. trees[0].tree.children[Node] \o Tail(todo) \in Seq(NodesOf(0))
    BY <2>1, <2>2
  <2>4. Append(list, Node) \in Seq(NodesOf(0))
    BY <2>1 DEF ControlInv
  <2>5. CASE ListLeaf
    BY <2>1, <2>4, <2>5 DEF ListLeaf, ControlInv, outcome
  <2>6. CASE LeafThere \/ NodeLost \/ RepairLeaf
    BY <2>1, <2>6 DEF LeafThere, NodeLost, RepairLeaf, ControlInv, outcome, FailOnError
  <2>7. CASE NodeThere
    BY <2>3, <2>7 DEF NodeThere, ControlInv
  <2>8. CASE ReuploadFails
    BY <2>8 DEF ReuploadFails, ControlInv, outcome
  <2> QED BY <1>2, <2>5, <2>6, <2>7, <2>8 DEF Walk, Prepare, PrepareFails, Visit, RepairListed,
             WalkDone, StrandGenerated
<1>3. CASE Serve \/ UNCHANGED vars
  BY <1>3 DEF Serve, vars, ControlInv, outcome
<1>4. CASE PrepareFails \/ Visit \/ RepairListed \/ WalkDone \/ StrandGenerated
  BY <1>4 DEF PrepareFails, Visit, RepairListed, WalkDone, StrandGenerated, ControlInv, outcome
<1>5. ASSUME NEW k, NEW n, NetworkChanges(k, n)
      PROVE  UNCHANGED <<job, pc, todo, list>>
  BY <1>5 DEF NetworkChanges, outcome
<1>6. CASE \E f \in Flickers : NetworkChanges(f[1], f[2])
  BY <1>5, <1>6 DEF ControlInv
<1>7. ListLeaf \/ LeafThere \/ NodeLost \/ NodeThere \/ ReuploadFails \/ RepairLeaf
        => pc = "answer"
  BY DEF ListLeaf, LeafThere, NodeLost, NodeThere, ReuploadFails, RepairLeaf, Answer
<1> QED BY <1>1, <1>2, <1>3, <1>4, <1>6, <1>7 DEF Next, Walk

LEMMA ServeAnswers ==
  ASSUME L!Regular, FileInv, LP!BlocksInv, ControlInv, AskedInv, Serve
  PROVE  AskedInv'
<1>1. /\ L!Busy /\ L!Step /\ UNCHANGED <<idx, pc, todo>>
  BY BlocksStep DEF Serve, file
<1>2. pc = "answer" /\ todo # <<>> /\ request.block = Asked
  BY <1>1 DEF AskedInv
<1>3. Asked' = Asked /\ Node' = Node
  BY <1>1 DEF Asked, Node, L!Data
<1>4. CASE request' = request
  BY <1>1, <1>2, <1>3, <1>4 DEF AskedInv, L!Busy
<1>5. CASE request' # request
  <2>1. /\ request' = L!NoRequest /\ repaired' = repaired
        /\ answer'.repaired = (Asked \in repaired)
        /\ answer'.ok => /\ status'[Asked] = "DataAvailable"
                         /\ answer'.chunk = chunk[Asked] /\ chunk' = chunk
    BY <1>1, <1>2, <1>5, RequestStep
  <2>2. ASSUME answer'.ok PROVE answer'.chunk = {idx[Node]}
    <3>1. LP!BlocksInv'
      BY StepBlocks DEF Next, Walk
    <3>2. LP!HoldsItsValue' /\ LP!Block = L!Block /\ LP!Value = L!Value
      BY <3>1, SameSets, SameValue DEF LP!BlocksInv
    <3>3. Asked \in L!Block /\ L!Value[Asked] = {idx[Node]}
      BY <1>2, NodeIs
    <3>4. chunk'[Asked] = L!Value[Asked]
      BY <2>1, <2>2, <3>2, <3>3 DEF LP!HoldsItsValue, LP!Available
    <3> QED BY <2>1, <2>2, <3>3, <3>4
  <2> QED BY <1>1, <1>2, <1>3, <2>1, <2>2 DEF AskedInv, L!Busy
<1> QED BY <1>4, <1>5

LEMMA StepAsked ==
  ASSUME L!Regular, FileInv, LP!BlocksInv, ControlInv, AskedInv, [Next]_vars
  PROVE  AskedInv'
<1>0. UNCHANGED idx
  BY FileUnchanged DEF file
<1>1. CASE Prepare
  BY <1>1 DEF Prepare, FreshLattice, AskedInv, L!Busy
<1>2. CASE Visit
  <2>1. Asked = <<0, idx[Node]>> /\ idx[Node] \in 1..ChunkNum /\ todo # <<>>
    BY <1>2, NodeIs DEF Visit
  <2>2. request'.block = Asked /\ pc' = "answer" /\ UNCHANGED todo
    BY <1>2 DEF Visit, L!Ask
  <2>3. L!Busy'
    BY <2>1, <2>2 DEF L!Busy, L!NoRequest
  <2>4. Asked' = Asked
    BY <1>0, <2>2 DEF Asked, Node, L!Data
  <2> QED BY <2>1, <2>2, <2>3, <2>4 DEF AskedInv
<1>3. CASE Serve
  BY <1>3, ServeAnswers
<1>4. CASE Walk /\ ~Prepare /\ ~Visit /\ ~Serve
  <2>1. ~L!Busy /\ UNCHANGED lattice
    BY <1>4 DEF Walk, PrepareFails, ListLeaf, LeafThere, NodeLost, NodeThere, ReuploadFails,
       RepairLeaf, RepairListed, WalkDone, StrandGenerated, Answer, AskedInv
  <2>2. pc' # "answer"
    BY <1>4 DEF Walk, PrepareFails, ListLeaf, LeafThere, NodeLost, NodeThere, ReuploadFails,
       RepairLeaf, RepairListed, WalkDone, StrandGenerated
  <2>3. ~L!Busy'
    BY <2>1 DEF lattice, L!Busy
  <2> QED BY <2>2, <2>3 DEF AskedInv
<1>5. CASE (\E f \in Flickers : NetworkChanges(f[1], f[2])) \/ UNCHANGED vars
  <2>1. UNCHANGED <<status, repaired, request, answer, pc, todo>>
    BY <1>5 DEF NetworkChanges, vars, lattice
  <2> QED BY <1>0, <2>1 DEF AskedInv, Asked, Node, L!Data, L!Busy
<1> QED BY <1>1, <1>2, <1>3, <1>4, <1>5 DEF Next

\* What the getter can fetch was stored.
LEMMA GettableSeen ==
  ASSUME FileInv, GetterInv, SeenInv, NEW n \in NodesOf(0),
         L!Data(idx[n]) \in Gettable
  PROVE  n \in seen
<1>0. 0 \in TreeNo
  BY Numbers
<1>1. PICK m \in NodesOf(0) : idx[m] = idx[n] /\ CanFetch(0, m)
  BY DEF Gettable, L!Data
<1>2. m = n
  BY <1>1 DEF FileInv
<1>3. n \in got[0] \/ n \in stored[0]
  BY <1>0, <1>1, <1>2, WayDown DEF CanFetch
<1> QED BY <1>3 DEF SeenInv

LEMMA StepSeen ==
  ASSUME L!Regular, FileInv, GetterInv, StoredInv, LP!BlocksInv, ControlInv,
         AskedInv, SeenInv, [Next]_vars
  PROVE  SeenInv' /\ seen \subseteq seen'
<1>0. /\ UNCHANGED <<idx, trees>> /\ NodesOf(0)' = NodesOf(0) /\ 0 \in TreeNo
      /\ \A n : L!Data(idx[n])' = L!Data(idx[n])
  BY FileUnchanged, Numbers DEF file, NodesOf, L!Data
<1>1. ASSUME NEW n \in NodesOf(0) PROVE L!Data(idx[n]) \in L!Block
  <2>1. idx[n] \in 1..ChunkNum
    BY DEF FileInv
  <2> QED BY <2>1 DEF L!Data, L!Block
<1>2. seen \subseteq seen' /\ (stored'[0] \subseteq seen')
  <2>1. ASSUME NEW f \in Flickers, NetworkChanges(f[1], f[2])
        PROVE  seen \subseteq seen' /\ (stored'[0] \subseteq seen')
    <3>1. f[1] \in TreeNo
      BY DEF FileInv
    <3>2. CASE f[1] = 0
      BY <1>0, <2>1, <3>1, <3>2 DEF NetworkChanges, StoredInv, SeenInv
    <3>3. CASE f[1] # 0
      BY <1>0, <2>1, <3>1, <3>3 DEF NetworkChanges, StoredInv, SeenInv
    <3> QED BY <3>2, <3>3
  <2>2. CASE PutBack
    BY <1>0, <2>2 DEF PutBack, StoredInv, SeenInv
  <2>3. CASE stored' = [stored EXCEPT ![RepairedStrand] = NodesOf(RepairedStrand)]
             /\ UNCHANGED <<seen, missed>>
    BY <1>0, <2>3 DEF RepairedStrand, StoredInv, SeenInv
  <2> QED BY <2>1, <2>2, <2>3, StoredStep DEF SeenInv
<1>3. got'[0] \subseteq seen
  <2>1. CASE Prepare
    BY <1>0, <2>1 DEF Prepare
  <2>2. CASE Serve
    BY <2>2, ServeGets DEF SeenInv
  <2>3. CASE ~Prepare /\ ~Serve
    <3>1. UNCHANGED got
      BY <2>3, GetterSame DEF Visit, getter
    <3> QED BY <3>1 DEF SeenInv
  <2> QED BY <2>1, <2>2, <2>3
<1>4. ASSUME NEW n \in NodesOf(0), status'[L!Data(idx[n])] = "DataAvailable"
      PROVE  n \in seen \/ L!Data(idx[n]) \in repaired'
  <2>1. CASE Prepare
    BY <1>1, <1>4, <2>1 DEF Prepare, FreshLattice
  <2>2. CASE Serve
    <3>1. \/ status[L!Data(idx[n])] = "DataAvailable"
          \/ L!Data(idx[n]) \in repaired'
          \/ L!Data(idx[n]) \in Gettable
      BY <1>1, <1>4, <2>2, BlocksStep DEF Serve
    <3>2. repaired \subseteq repaired'
      BY <2>2, BlocksStep DEF Serve
    <3> QED BY <3>1, <3>2, GettableSeen DEF SeenInv
  <2>3. CASE ~Prepare /\ ~Serve
    <3>1. UNCHANGED <<status, repaired>>
      <4>1. Walk => UNCHANGED <<status, repaired>>
        BY <2>3 DEF Walk, PrepareFails, Visit, ListLeaf, LeafThere, NodeLost, NodeThere,
           ReuploadFails, RepairLeaf, RepairListed, WalkDone, StrandGenerated, lattice,
           L!Ask, L!blocks
      <4>2. ASSUME NEW k, NEW m, NetworkChanges(k, m) PROVE UNCHANGED <<status, repaired>>
        BY <4>2 DEF NetworkChanges, lattice
      <4> QED BY <4>1, <4>2 DEF Next, vars, lattice
    <3> QED BY <1>4, <3>1 DEF SeenInv
  <2> QED BY <2>1, <2>2, <2>3
<1> QED BY <1>0, <1>2, <1>3, <1>4 DEF SeenInv

-----------------------------------------------------------------------------
(* The order of the visits *)

\* The nodes to visit are in preorder, each with all that is below it.
InSequence(s) ==
  \A i, j \in 1..Len(s) : i < j => \A x \in NodesOf(0) : s[i] \in Line(0, x) => x < s[j]

OrderInv == job # "repair" => InSequence(todo)

LEMMA TailInOrder ==
  ASSUME NEW s \in Seq(NodesOf(0)), s # <<>>, InSequence(s)
  PROVE  InSequence(Tail(s)) /\ \A j \in 1..Len(Tail(s)) : Tail(s)[j] = s[j + 1]
<1>1. /\ Len(Tail(s)) = Len(s) - 1 /\ Len(s) \in Nat
      /\ \A j \in 1..Len(Tail(s)) : Tail(s)[j] = s[j + 1] /\ j + 1 \in 1..Len(s)
  OBVIOUS
<1> DEFINE t == Tail(s)
<1> HIDE DEF t
<1>2. \A i, j \in 1..Len(t) : i < j => i + 1 < j + 1
  BY <1>1 DEF t
<1>3. InSequence(t)
  BY <1>1, <1>2 DEF InSequence, t
<1> QED BY <1>1, <1>3 DEF t

\* All that is below the head comes before the rest.
LEMMA HeadFirst ==
  ASSUME NEW s \in Seq(NodesOf(0)), s # <<>>, InSequence(s),
         NEW x \in NodesOf(0), Head(s) \in Line(0, x), NEW m \in Range(Tail(s))
  PROVE  x < m
<1>1. Head(s) = s[1] /\ 1 \in 1..Len(s) /\ Tail(s) \in Seq(NodesOf(0)) /\ Len(Tail(s)) = Len(s) - 1
  OBVIOUS
<1>2. PICK j \in 1..Len(Tail(s)) : m = Tail(s)[j]
  BY <1>1 DEF Range
<1>3. m = s[j + 1] /\ j + 1 \in 1..Len(s) /\ 1 < j + 1
  BY <1>1, <1>2
<1> QED BY <1>1, <1>3 DEF InSequence

LEMMA KidsInOrder ==
  ASSUME FileInv, 0 \in TreeNo, NEW s \in Seq(NodesOf(0)), s # <<>>, InSequence(s)
  PROVE  InSequence(trees[0].tree.children[Head(s)] \o Tail(s))
<1> DEFINE n == Head(s)
           c == trees[0].tree.children[n]
           t == Tail(s)
<1>1. n \in NodesOf(0) /\ t \in Seq(NodesOf(0))
  OBVIOUS
<1>2. c \in Seq(NodesOf(0) \ {0})
  BY <1>1, Shape
<1>3. \A i \in 1..Len(c) : c[i] \in Kids(0, n)
  BY <1>2 DEF Kids, Range
<1>4. \A i, j \in 1..Len(c) : \A x \in NodesOf(0) : i < j /\ c[i] \in Line(0, x) => x < c[j]
  BY <1>1 DEF FileInv, TreeInv
<1>5. InSequence(t)
  BY TailInOrder
<1>6. \A x \in NodesOf(0) : \A i \in 1..Len(c) : c[i] \in Line(0, x) => n \in Line(0, x)
  BY <1>1, <1>3, KidAfter
<1>7. \A x \in NodesOf(0) : \A j \in 1..Len(t) : n \in Line(0, x) => x < t[j]
  <2> TAKE x \in NodesOf(0)
  <2> TAKE j \in 1..Len(t)
  <2>1. t[j] \in Range(t)
    <3> HIDE DEF t
    <3> QED BY <1>1 DEF Range
  <2> QED BY <2>1, HeadFirst
<1> HIDE DEF c, t, n
<1>8. /\ Len(c \o t) = Len(c) + Len(t) /\ Len(c) \in Nat /\ Len(t) \in Nat
      /\ \A i \in 1..Len(c) : (c \o t)[i] = c[i]
      /\ \A i \in 1..Len(c \o t) : i > Len(c) => /\ (c \o t)[i] = t[i - Len(c)]
                                                 /\ i - Len(c) \in 1..Len(t)
  BY <1>1, <1>2
<1>9. ASSUME NEW i \in 1..Len(c \o t), NEW j \in 1..Len(c \o t), i < j,
             NEW x \in NodesOf(0), (c \o t)[i] \in Line(0, x)
      PROVE  x < (c \o t)[j]
  <2>1. CASE j <= Len(c)
    <3>1. i \in 1..Len(c) /\ j \in 1..Len(c)
      BY <1>8, <1>9, <2>1
    <3> QED BY <1>4, <1>8, <1>9, <3>1
  <2>2. CASE j > Len(c) /\ i <= Len(c)
    <3>1. i \in 1..Len(c)
      BY <1>8, <2>2
    <3> QED BY <1>6, <1>7, <1>8, <1>9, <2>2, <3>1
  <2>3. CASE i > Len(c)
    <3>1. j > Len(c) /\ i - Len(c) < j - Len(c)
      BY <1>8, <1>9, <2>3
    <3>2. /\ (c \o t)[i] = t[i - Len(c)] /\ i - Len(c) \in 1..Len(t)
          /\ (c \o t)[j] = t[j - Len(c)] /\ j - Len(c) \in 1..Len(t)
      BY <1>8, <2>3, <3>1
    <3> QED BY <1>5, <1>9, <3>1, <3>2 DEF InSequence
  <2> QED BY <1>8, <2>1, <2>2, <2>3
<1> QED BY <1>9 DEF InSequence, c, t, n

BaseInv ==
  /\ FileInv /\ GetterInv /\ StoredInv /\ WrittenOffForCause
  /\ LP!BlocksInv /\ ControlInv /\ AskedInv /\ SeenInv

LEMMA StepBase ==
  ASSUME L!Regular, BaseInv, [Next]_vars
  PROVE  BaseInv'
BY FileUnchanged, FileStays, StepGetter, StepStored, StepWritten, StepBlocks, StepControl,
   StepAsked, StepSeen DEF BaseInv

\* The steps of the walk itself that have an answer.
Answering == ListLeaf \/ LeafThere \/ NodeLost \/ NodeThere \/ ReuploadFails \/ RepairLeaf

\* The nodes a step leaves to visit.
LEMMA TodoStep ==
  ASSUME BaseInv, [Next]_vars
  PROVE  /\ \/ UNCHANGED todo
            \/ Prepare
            \/ pc = "answer" /\ todo # <<>> /\ Answering /\ todo' = Tail(todo)
            \/ /\ pc = "answer" /\ todo # <<>> /\ NodeThere
               /\ todo' = trees[0].tree.children[Node] \o Tail(todo)
         /\ todo # <<>> => /\ Node \in NodesOf(0) /\ todo \in Seq(NodesOf(0))
                           /\ Tail(todo) \in Seq(NodesOf(0))
                           /\ Range(todo) = {Node} \cup Range(Tail(todo))
<1>1. todo # <<>> => /\ Node \in NodesOf(0) /\ todo \in Seq(NodesOf(0))
                     /\ Tail(todo) \in Seq(NodesOf(0))
                     /\ Range(todo) = {Node} \cup Range(Tail(todo))
  BY NodeIs DEF BaseInv, ControlInv
<1>2. CASE Answering
  <2>1. pc = "answer"
    BY <1>2 DEF Answering, ListLeaf, LeafThere, NodeLost, NodeThere, ReuploadFails, RepairLeaf,
       Answer
  <2>2. todo # <<>>
    BY <2>1 DEF BaseInv, AskedInv
  <2>3. \/ UNCHANGED todo
        \/ todo' = Tail(todo)
        \/ NodeThere /\ todo' = trees[0].tree.children[Node] \o Tail(todo)
    BY <1>2 DEF Answering, ListLeaf, LeafThere, NodeLost, NodeThere, ReuploadFails, RepairLeaf
  <2> QED BY <1>1, <1>2, <2>1, <2>2, <2>3
<1>3. CASE ~Answering /\ ~Prepare
  <2>1. UNCHANGED todo
    BY <1>3 DEF Next, Walk, Answering, PrepareFails, Visit, Serve, RepairListed, WalkDone,
       StrandGenerated, NetworkChanges, vars
  <2> QED BY <1>1, <2>1
<1> QED BY <1>1, <1>2, <1>3

LEMMA StepOrder ==
  ASSUME BaseInv, OrderInv, [Next]_vars
  PROVE  OrderInv'
<1>0. UNCHANGED file /\ FileInv /\ 0 \in TreeNo
  BY FileUnchanged, Numbers DEF BaseInv
<1> SUFFICES ASSUME job' # "repair" PROVE InSequence(todo')
  BY <1>0, SameShape DEF OrderInv, InSequence
<1>1. CASE job = "repair"
  <2>1. UNCHANGED job
    BY <1>1 DEF Next, Walk, Prepare, PrepareFails, Visit, Serve, ListLeaf, LeafThere, NodeLost,
       NodeThere, ReuploadFails, RepairLeaf, RepairListed, WalkDone, StrandGenerated,
       NetworkChanges, vars
  <2> QED BY <1>1, <2>1
<1>2. CASE Prepare
  <2>1. todo' = <<0>>
    BY <1>2 DEF Prepare
  <2> QED BY <2>1 DEF InSequence
<1>3. CASE job # "repair" /\ ~Prepare
  <2>1. InSequence(todo)
    BY <1>3 DEF OrderInv
  <2>2. CASE UNCHANGED todo
    BY <2>1, <2>2
  <2>3. CASE todo # <<>> /\ todo' = Tail(todo)
    <3>1. InSequence(Tail(todo))
      BY <2>1, <2>3, TodoStep, TailInOrder
    <3> QED BY <2>3, <3>1
  <2>4. CASE todo # <<>> /\ todo' = trees[0].tree.children[Node] \o Tail(todo)
    <3>1. InSequence(trees[0].tree.children[Head(todo)] \o Tail(todo))
      BY <1>0, <2>1, <2>4, TodoStep, KidsInOrder
    <3> QED BY <2>4, <3>1 DEF Node
  <2> QED BY <1>3, <2>2, <2>3, <2>4, TodoStep
<1> QED BY <1>1, <1>2, <1>3

-----------------------------------------------------------------------------
(* What a walk has done *)

\* A count goes up with the nodes in preorder.
CountInv ==
  IF job = "count" /\ pc # "prepare"
    THEN count \in 0..ChunkNum /\ \A m \in Range(todo) : count <= m
    ELSE count = 0

\* The nodes to come are after the node a walk is at.
LEMMA NodeBefore ==
  ASSUME BaseInv, OrderInv, job # "repair", todo # <<>>
  PROVE  /\ \A x \in NodesOf(0) : Node \in Line(0, x) => \A m \in Range(Tail(todo)) : x < m
         /\ \A m \in Range(Tail(todo)) : Node < m
         /\ \A c \in Kids(0, Node) : Node < c
<1>1. FileInv /\ 0 \in TreeNo /\ todo \in Seq(NodesOf(0)) /\ InSequence(todo) /\ Node \in NodesOf(0)
  BY Numbers, NodeIs DEF BaseInv, ControlInv, OrderInv
<1>2. \A x \in NodesOf(0) : Node \in Line(0, x) => \A m \in Range(Tail(todo)) : x < m
  BY <1>1, HeadFirst DEF Node
<1>3. Node \in Line(0, Node)
  BY <1>1, Shape
<1> QED BY <1>1, <1>2, <1>3, KidAfter

LEMMA TodoKids ==
  ASSUME BaseInv, todo # <<>>
  PROVE  Range(trees[0].tree.children[Node] \o Tail(todo)) = Kids(0, Node) \cup Range(Tail(todo))
<1>1. FileInv /\ 0 \in TreeNo /\ Node \in NodesOf(0) /\ Tail(todo) \in Seq(NodesOf(0))
  BY Numbers, NodeIs DEF BaseInv
<1>2. trees[0].tree.children[Node] \in Seq(NodesOf(0) \ {0})
  BY <1>1, Shape
<1>3. trees[0].tree.children[Node] \in Seq(NodesOf(0))
  BY <1>2
<1>4. PICK c \in Seq(NodesOf(0)), t \in Seq(NodesOf(0)) :
        c = trees[0].tree.children[Node] /\ t = Tail(todo)
  BY <1>1, <1>3
<1>5. Range(c \o t) = Range(c) \cup Range(t)
  BY RangeOfConcat
<1> QED BY <1>4, <1>5 DEF Kids

LEMMA JobStays ==
  ASSUME [Next]_vars
  PROVE  \/ UNCHANGED job
         \/ RepairListed /\ job = "retrieve" /\ job' = "repair" /\ pc' = "prepare"
BY DEF Next, Walk, Prepare, PrepareFails, Visit, Serve, ListLeaf, LeafThere, NodeLost,
   NodeThere, ReuploadFails, RepairLeaf, RepairListed, WalkDone, StrandGenerated,
   NetworkChanges, vars

LEMMA StepCount ==
  ASSUME BaseInv, OrderInv, CountInv, [Next]_vars
  PROVE  CountInv'
<1>0. /\ ChunkNum \in Nat \ {0} /\ NodesOf(0) = 0..(ChunkNum - 1)
      /\ 0 \in TreeNo /\ FileInv /\ ControlInv
  BY Numbers DEF BaseInv, FileInv
<1>1. ~NodeThere \/ job # "count" => UNCHANGED count
  BY DEF Next, Walk, Prepare, PrepareFails, Visit, Serve, ListLeaf, LeafThere, NodeLost,
     NodeThere, ReuploadFails, RepairLeaf, RepairListed, WalkDone, StrandGenerated,
     NetworkChanges, vars, outcome
<1>2. CASE job # "count"
  <2>1. job' # "count" /\ count' = count
    BY <1>1, <1>2, JobStays
  <2> QED BY <1>2, <2>1 DEF CountInv
<1>3. CASE job = "count" /\ NodeThere
  <2>1. /\ pc = "answer" /\ todo # <<>> /\ pc' = "visit" /\ job' = "count"
        /\ count' = count + 1 /\ todo' = trees[0].tree.children[Node] \o Tail(todo)
    BY <1>3 DEF NodeThere, Answer, BaseInv, AskedInv
  <2>2. /\ Node \in 0..(ChunkNum - 1) /\ count \in Nat /\ count <= Node
        /\ Range(todo) = {Node} \cup Range(Tail(todo))
    BY <1>0, <1>3, <2>1, TodoStep DEF CountInv
  <2>3. \A m \in Kids(0, Node) \cup Range(Tail(todo)) : m \in NodesOf(0) /\ Node < m
    <3>1. Kids(0, Node) \subseteq NodesOf(0)
      BY <1>0, <2>2, Shape
    <3>2. Range(Tail(todo)) \subseteq NodesOf(0)
      <4>1. Range(todo) \subseteq NodesOf(0)
        BY <1>0 DEF ControlInv, Range
      <4> QED BY <2>2, <4>1
    <3> QED BY <1>3, <2>1, <3>1, <3>2, NodeBefore
  <2>4. \A m \in Range(todo') : count' <= m
    <3>1. \A m \in Kids(0, Node) \cup Range(Tail(todo)) : count + 1 <= m
      BY <1>0, <2>2, <2>3
    <3> QED BY <2>1, <3>1, TodoKids
  <2>5. count' \in 0..ChunkNum
    BY <1>0, <2>1, <2>2
  <2> QED BY <2>1, <2>4, <2>5 DEF CountInv
<1>4. CASE job = "count" /\ ~NodeThere
  <2>1. job' = "count" /\ count' = count
    BY <1>1, <1>4, JobStays DEF RepairListed
  <2>2. CASE Prepare
    <3>1. pc = "prepare" /\ pc' = "visit" /\ todo' = <<0>>
      BY <1>4, <2>2 DEF Prepare
    <3>2. Range(todo') = {0}
      BY <3>1 DEF Range
    <3> QED BY <1>0, <1>4, <2>1, <3>1, <3>2 DEF CountInv
  <2>3. CASE ~Prepare
    <3>1. Range(todo') \subseteq Range(todo)
      BY <1>4, <2>3, TodoStep
    <3>2. pc' = "prepare" => pc = "prepare"
      BY <1>4 DEF Next, Walk, Prepare, PrepareFails, Visit, Serve, ListLeaf, LeafThere, NodeLost,
         NodeThere, ReuploadFails, RepairLeaf, RepairListed, WalkDone, StrandGenerated,
         NetworkChanges, vars
    <3>3. pc = "prepare" => Range(todo) = {}
      BY <1>0 DEF ControlInv, Range
    <3>4. count \in 0..ChunkNum /\ \A m \in Range(todo) : count <= m
      BY <1>0, <1>4, <3>3 DEF CountInv
    <3>5. pc' = "prepare" => count = 0
      BY <1>4, <3>2 DEF CountInv
    <3> QED BY <2>1, <3>1, <3>4, <3>5 DEF CountInv
  <2> QED BY <2>2, <2>3
<1> QED BY <1>2, <1>3, <1>4

\* A node that is there and was not recovered was stored.
LEMMA FetchedSeen ==
  ASSUME BaseInv, pc = "answer", ~L!Busy, answer.ok, ~answer.repaired
  PROVE  Node \in seen
<1>1. Node \in NodesOf(0) /\ Asked = L!Data(idx[Node])
  BY NodeIs DEF BaseInv, AskedInv, Asked
<1>2. status[Asked] = "DataAvailable" /\ Asked \notin repaired
  BY DEF BaseInv, AskedInv
<1> QED BY <1>1, <1>2 DEF BaseInv, SeenInv

\* What a repair reports.
LEMMA StepRepaired ==
  ASSUME L!Regular, BaseInv, RepairedIsStored, [Next]_vars
  PROVE  RepairedIsStored'
<1>0. seen \subseteq seen'
  BY StepSeen DEF BaseInv
<1>1. CASE RepairListed
  BY <1>1 DEF RepairListed, RepairedIsStored
<1>2. CASE RepairLeaf
  <2>1. pc = "answer" /\ ~L!Busy /\ job = "repair" /\ UNCHANGED job
    BY <1>2 DEF RepairLeaf
  <2>2. /\ \A n \in DOMAIN result' : n # Node => n \in DOMAIN result /\ result'[n] = result[n]
        /\ Node \in DOMAIN result' /\ result'[Node] => Node \in seen'
    <3>1. CASE ~answer.repaired /\ result' = [result EXCEPT ![Node] = Repaired(TRUE)]
      <4>1. answer.ok => Node \in seen'
        BY <1>0, <2>1, <3>1, FetchedSeen
      <4> QED BY <3>1, <4>1 DEF Repaired
    <3>2. CASE PutBack /\ result' = [result EXCEPT ![Node] = Repaired(TRUE)]
      <4>1. answer.ok => Node \in seen'
        BY <2>1, <3>2, BackIs DEF BaseInv
      <4> QED BY <3>2, <4>1 DEF Repaired
    <3>3. CASE result' = [result EXCEPT ![Node] = Repaired(FALSE)]
      BY <3>3 DEF Repaired
    <3> QED BY <1>2, <3>1, <3>2, <3>3 DEF RepairLeaf
  <2>3. ASSUME NEW n \in DOMAIN result', result'[n] PROVE n \in seen'
    BY <1>0, <2>1, <2>2, <2>3 DEF RepairedIsStored
  <2> QED BY <2>3 DEF RepairedIsStored
<1>3. CASE ~RepairListed /\ ~RepairLeaf
  <2>1. UNCHANGED <<job, result>>
    BY <1>3 DEF Next, Walk, Prepare, PrepareFails, Visit, Serve, ListLeaf, LeafThere, NodeLost,
       NodeThere, ReuploadFails, WalkDone, StrandGenerated, NetworkChanges, vars, outcome
  <2> QED BY <1>0, <2>1 DEF RepairedIsStored
<1> QED BY <1>1, <1>2, <1>3

\* While a retrieval is at work, every node was stored, is listed, is a leaf that was
\* recovered by the way, or is still to come, below one of the nodes to visit.
Retrieving ==
  \/ job = "retrieve" /\ pc \in {"visit", "answer", "done"}
  \/ job = "repair" /\ pc = "prepare"

Coming(n) == \E m \in Range(todo) : m \in Line(0, n)

AccountInv ==
  Retrieving =>
    \A n \in NodesOf(0) :
      \/ n \in seen \cup Range(list)
      \/ IsLeaf(n) /\ L!Data(idx[n]) \in repaired
      \/ Coming(n)

\* The blocks a walk has recovered stay recovered.
LEMMA RepairedStay ==
  ASSUME L!Regular, BaseInv, [Next]_vars, ~Prepare
  PROVE  repaired \subseteq repaired'
<1>1. CASE Serve
  BY <1>1, BlocksStep DEF Serve, BaseInv
<1>2. CASE ~Serve
  <2>1. UNCHANGED repaired
    BY <1>2 DEF Next, Walk, PrepareFails, Visit, ListLeaf, LeafThere, NodeLost,
       NodeThere, ReuploadFails, RepairLeaf, RepairListed, WalkDone, StrandGenerated,
       NetworkChanges, vars, lattice, L!Ask, L!blocks
  <2> QED BY <2>1
<1> QED BY <1>1, <1>2

\* What comes below the node that was visited comes below one of its children, unless it is
\* the node itself.
LEMMA ComingBelow ==
  ASSUME BaseInv, todo # <<>>, NEW n \in NodesOf(0), Coming(n), n # Node
  PROVE  \E m \in Kids(0, Node) \cup Range(Tail(todo)) : m \in Line(0, n)
<1>1. PICK m \in Range(todo) : m \in Line(0, n)
  BY DEF Coming
<1>2. m = Node \/ m \in Range(Tail(todo))
  BY NodeIs DEF BaseInv
<1>3. CASE m = Node
  BY <1>1, <1>3, KidOnLine, Numbers DEF BaseInv
<1> QED BY <1>1, <1>2, <1>3

LEMMA StepAccount ==
  ASSUME L!Regular, BaseInv, AccountInv, [Next]_vars
  PROVE  AccountInv'
<1>0. /\ UNCHANGED <<file, idx>> /\ FileInv /\ 0 \in TreeNo /\ seen \subseteq seen'
      /\ list \in Seq(NodesOf(0))
  BY FileUnchanged, Numbers, StepSeen DEF BaseInv, file, ControlInv
<1> SUFFICES ASSUME Retrieving', NEW n \in NodesOf(0)
             PROVE  \/ n \in seen' \cup Range(list')
                    \/ IsLeaf(n) /\ L!Data(idx[n]) \in repaired'
                    \/ \E m \in Range(todo') : m \in Line(0, n)
  BY <1>0, SameShape DEF AccountInv, Coming, L!Data
<1>1. CASE Prepare
  <2>1. todo' = <<0>>
    BY <1>1 DEF Prepare, Retrieving
  <2>2. 0 \in Range(todo')
    BY <2>1 DEF Range
  <2> QED BY <1>0, <2>2, Shape
<1>2. CASE Answering
  <2>1. /\ job = "retrieve" /\ pc = "answer" /\ ~L!Busy /\ todo # <<>>
        /\ ListLeaf \/ LeafThere \/ NodeThere
    BY <1>2 DEF Retrieving, Answering, ListLeaf, LeafThere, NodeLost, NodeThere,
       ReuploadFails, RepairLeaf, Answer, FailOnError, BaseInv, AskedInv
  <2>2. \/ n \in seen \cup Range(list)
        \/ IsLeaf(n) /\ L!Data(idx[n]) \in repaired
        \/ Coming(n)
    BY <2>1 DEF AccountInv, Retrieving
  <2>3. repaired \subseteq repaired' /\ Range(list) \subseteq Range(list')
    <3>1. list' = list \/ list' = Append(list, Node)
      BY <2>1 DEF ListLeaf, LeafThere, NodeThere, outcome
    <3>2. Range(list) \subseteq Range(Append(list, Node))
      BY <1>0 DEF Range
    <3>3. ~Prepare
      BY <2>1 DEF Prepare
    <3> QED BY <3>1, <3>2, <3>3, RepairedStay
  <2>4. CASE ~Coming(n)
    BY <1>0, <2>2, <2>3, <2>4
  <2>5. CASE Coming(n) /\ n # Node
    <3>1. PICK m \in Kids(0, Node) \cup Range(Tail(todo)) : m \in Line(0, n)
      BY <2>1, <2>5, ComingBelow
    <3>2. CASE NodeThere
      <4>1. Range(todo') = Kids(0, Node) \cup Range(Tail(todo))
        BY <2>1, <3>2, TodoKids DEF NodeThere
      <4> QED BY <3>1, <4>1
    <3>3. CASE ListLeaf \/ LeafThere
      <4>1. todo' = Tail(todo) /\ Kids(0, Node) = {}
        BY <3>3 DEF ListLeaf, LeafThere, IsLeaf
      <4> QED BY <3>1, <4>1
    <3> QED BY <2>1, <3>2, <3>3
  <2>6. CASE n = Node
    <3>1. CASE ListLeaf
      <4>1. list' = Append(list, Node)
        BY <3>1 DEF ListLeaf
      <4>2. Node \in Range(Append(list, Node))
        BY <1>0 DEF Range
      <4> QED BY <2>6, <4>1, <4>2
    <3>2. CASE LeafThere
      <4>1. answer.ok /\ IsLeaf(Node)
        BY <3>2 DEF LeafThere, Answer
      <4>2. CASE answer.repaired
        <5>1. L!Data(idx[Node]) \in repaired
          BY <2>1, <4>2 DEF BaseInv, AskedInv, Asked
        <5> QED BY <2>3, <2>6, <4>1, <5>1
      <4>3. CASE ~answer.repaired
        BY <1>0, <2>1, <2>6, <4>1, <4>3, FetchedSeen
      <4> QED BY <4>2, <4>3
    <3>3. CASE NodeThere
      <4>1. answer.ok /\ (~answer.repaired \/ PutBack)
        BY <2>1, <3>3 DEF NodeThere, Answer, Reupload, Reuploads
      <4>2. CASE ~answer.repaired
        BY <1>0, <2>1, <2>6, <4>1, <4>2, FetchedSeen
      <4>3. CASE PutBack
        <5>1. Node \in seen'
          BY <2>1, <4>1, <4>3, BackIs DEF BaseInv
        <5> QED BY <2>6, <5>1
      <4> QED BY <4>1, <4>2, <4>3
    <3> QED BY <2>1, <3>1, <3>2, <3>3
  <2> QED BY <2>4, <2>5, <2>6
<1>3. CASE ~Prepare /\ ~Answering
  <2>1. Retrieving /\ UNCHANGED <<todo, list>>
    BY <1>3 DEF Retrieving, Next, Walk, Answering, PrepareFails, Visit, Serve, RepairListed,
       WalkDone, StrandGenerated, NetworkChanges, vars, outcome
  <2> QED BY <1>0, <1>3, <2>1, RepairedStay DEF AccountInv, Coming
<1> QED BY <1>1, <1>2, <1>3

LEMMA AccountHolds == BaseInv /\ AccountInv => RetrievalAccounts
<1> SUFFICES ASSUME BaseInv, AccountInv, RetrievalOver, NEW n \in NodesOf(0) \ (seen \cup Range(list))
             PROVE  IsLeaf(n) /\ L!Data(idx[n]) \in repaired
  BY DEF RetrievalAccounts
<1>1. Retrieving /\ todo = <<>>
  BY DEF RetrievalOver, Retrieving, BaseInv, ControlInv
<1>2. Range(todo) = {}
  BY <1>1 DEF Range
<1> QED BY <1>1, <1>2 DEF AccountInv, Coming

\* While a download is at work, it has delivered the leaves up to some leaf; those after it
\* are still to come, and nothing is to come that is before.
DeliveredTo(d) ==
  /\ delivered = [j \in 1..d |-> {idx[Leaf[j]]}]
  /\ \A j \in 1..d : \A m \in Range(todo) : Leaf[j] < m
  /\ \A j \in (d + 1)..LeafNum : Coming(Leaf[j])

DeliverInv ==
  job = "download" =>
    /\ pc = "prepare" => delivered = <<>>
    /\ pc \in {"visit", "answer", "done"} => \E d \in 0..LeafNum : DeliveredTo(d)

\* The leaf a download is at is the next one to be delivered.
LEMMA NextLeaf ==
  ASSUME BaseInv, OrderInv, job = "download", todo # <<>>,
         NEW d \in 0..LeafNum, DeliveredTo(d), IsLeaf(Node)
  PROVE  d + 1 \in 1..LeafNum /\ Leaf[d + 1] = Node
<1>0. /\ FileInv /\ LeafNum \in Nat /\ 0 \in TreeNo /\ Node \in NodesOf(0) /\ NodesOf(0) \subseteq Nat
      /\ Range(todo) = {Node} \cup Range(Tail(todo))
  BY Numbers, NodeIs, Shape DEF BaseInv
<1>1. PICK j \in 1..LeafNum : Leaf[j] = Node
  BY <1>0 DEF FileInv
<1>2. j > d
  <2>1. \A i \in 1..d : Leaf[i] < Node
    BY <1>0 DEF DeliveredTo
  <2>2. Node \in Nat /\ ~(Node < Node)
    BY <1>0
  <2>3. j \notin 1..d
    BY <1>1, <2>1, <2>2
  <2> QED BY <1>0, <2>3
<1>3. d + 1 \in 1..LeafNum /\ d + 1 \in (d + 1)..LeafNum /\ Leaf[d + 1] \in NodesOf(0)
  <2>1. d + 1 \in 1..LeafNum
    BY <1>0, <1>1, <1>2
  <2> QED BY <1>0, <2>1 DEF FileInv
<1>4. ASSUME j # d + 1 PROVE FALSE
  <2>1. Leaf[d + 1] < Node
    BY <1>0, <1>1, <1>2, <1>3, <1>4 DEF FileInv
  <2>2. PICK m \in Range(todo) : m \in Line(0, Leaf[d + 1])
    BY <1>3 DEF DeliveredTo, Coming
  <2>3. m \in 0..Leaf[d + 1]
    BY <1>0, <1>3, <2>2, Shape
  <2>4. m # Node
    BY <1>0, <1>3, <2>1, <2>3
  <2>5. Node < m
    BY <1>0, <2>2, <2>4, NodeBefore
  <2> QED BY <1>0, <1>3, <2>1, <2>3, <2>5
<1> QED BY <1>1, <1>3, <1>4

LEMMA StepDeliver ==
  ASSUME L!Regular, BaseInv, OrderInv, DeliverInv, [Next]_vars
  PROVE  DeliverInv'
<1>0. /\ UNCHANGED <<file, idx>> /\ Leaf' = Leaf /\ FileInv /\ 0 \in TreeNo /\ LeafNum \in Nat
      /\ NodesOf(0) \subseteq Nat
      /\ Leaf \in [1..LeafNum -> NodesOf(0)]
      /\ \A i, j \in 1..LeafNum : i < j => Leaf[i] < Leaf[j]
      /\ \A n : Coming(n)' <=> \E m \in Range(todo') : m \in Line(0, n)
  BY FileUnchanged, SameShape, Numbers, Shape DEF BaseInv, file, FileInv, Coming
<1> SUFFICES ASSUME job' = "download" PROVE DeliverInv'
  BY DEF DeliverInv
<1>1. job = "download"
  BY JobStays
<1>2. CASE Prepare
  <2>1. delivered' = <<>> /\ todo' = <<0>> /\ pc' = "visit"
    BY <1>1, <1>2 DEF Prepare, DeliverInv, outcome
  <2>2. 0 \in Range(todo')
    BY <2>1 DEF Range
  <2>3. \A j \in 1..LeafNum : Coming(Leaf[j])'
    BY <1>0, <2>2, Shape
  <2>4. delivered' = [j \in 1..0 |-> {idx'[Leaf'[j]]}]
    BY <2>1
  <2>5. DeliveredTo(0)'
    BY <1>0, <2>3, <2>4 DEF DeliveredTo
  <2>6. 0 \in 0..LeafNum
    BY <1>0
  <2> QED BY <2>1, <2>5, <2>6 DEF DeliverInv
<1>3. CASE NodeThere
  <2>1. /\ pc = "answer" /\ ~L!Busy /\ answer.ok /\ todo # <<>> /\ pc' = "visit"
        /\ delivered' = IF IsLeaf(Node) THEN Append(delivered, answer.chunk) ELSE delivered
    BY <1>1, <1>3 DEF NodeThere, Answer, BaseInv, AskedInv
  <2>2. /\ Range(todo') = Kids(0, Node) \cup Range(Tail(todo)) /\ Node \in NodesOf(0)
        /\ Range(todo) = {Node} \cup Range(Tail(todo)) /\ Range(todo) \subseteq NodesOf(0)
    <3>1. Range(todo') = Kids(0, Node) \cup Range(Tail(todo))
      BY <1>3, <2>1, TodoKids DEF NodeThere
    <3>2. Range(todo) \subseteq NodesOf(0)
      BY DEF BaseInv, ControlInv, Range
    <3> QED BY <2>1, <3>1, <3>2, NodeIs DEF BaseInv
  <2>3. \A m \in Range(todo') : Node < m /\ m \in Nat
    <3>1. Kids(0, Node) \subseteq NodesOf(0)
      BY <1>0, <2>2, Shape
    <3> QED BY <1>0, <1>1, <2>1, <2>2, <3>1, NodeBefore
  <2>4. PICK d \in 0..LeafNum : DeliveredTo(d)
    BY <1>1, <2>1 DEF DeliverInv
  <2>5. \A j \in 1..d : \A m \in Range(todo') : Leaf[j] < m
    <3>1. \A j \in 1..d : Leaf[j] < Node /\ Leaf[j] \in Nat
      BY <1>0, <2>2, <2>4 DEF DeliveredTo
    <3> QED BY <1>0, <2>2, <2>3, <3>1
  <2>6. \A j \in (d + 1)..LeafNum : Leaf[j] # Node => Coming(Leaf[j])'
    <3> SUFFICES ASSUME NEW j \in (d + 1)..LeafNum, Leaf[j] # Node
                 PROVE  \E m \in Range(todo') : m \in Line(0, Leaf[j])
      BY <1>0
    <3>1. Coming(Leaf[j]) /\ Leaf[j] \in NodesOf(0)
      BY <1>0, <2>4 DEF DeliveredTo
    <3> QED BY <2>1, <2>2, <3>1, ComingBelow
  <2>7. CASE IsLeaf(Node)
    <3>1. d + 1 \in 1..LeafNum /\ Leaf[d + 1] = Node
      BY <1>1, <2>1, <2>4, <2>7, NextLeaf
    <3>2. answer.chunk = {idx[Node]}
      BY <2>1 DEF BaseInv, AskedInv
    <3>3. delivered' = [j \in 1..(d + 1) |-> {idx'[Leaf'[j]]}]
      <4>1. delivered = [j \in 1..d |-> {idx[Leaf[j]]}] /\ delivered' = Append(delivered, {idx[Leaf[d + 1]]})
        BY <2>1, <2>4, <2>7, <3>1, <3>2 DEF DeliveredTo
      <4>2. delivered' = [j \in 1..(d + 1) |-> {idx[Leaf[j]]}]
        BY <4>1
      <4> QED BY <1>0, <4>2
    <3>4. \A j \in 1..(d + 1) : \A m \in Range(todo') : Leaf'[j] < m
      BY <1>0, <2>3, <2>5, <3>1
    <3>5. \A j \in (d + 2)..LeafNum : Coming(Leaf[j])'
      <4>1. \A j \in (d + 2)..LeafNum : Leaf[j] # Node /\ j \in (d + 1)..LeafNum
        BY <1>0, <3>1
      <4> QED BY <2>6, <4>1
    <3>6. DeliveredTo(d + 1)'
      BY <1>0, <3>3, <3>4, <3>5 DEF DeliveredTo
    <3>7. d + 1 \in 0..LeafNum
      BY <1>0, <3>1
    <3> QED BY <2>1, <3>6, <3>7 DEF DeliverInv
  <2>8. CASE ~IsLeaf(Node)
    <3>1. delivered' = [j \in 1..d |-> {idx'[Leaf'[j]]}]
      BY <1>0, <2>1, <2>4, <2>8 DEF DeliveredTo
    <3>2. \A j \in (d + 1)..LeafNum : Leaf[j] # Node
      BY <1>0, <2>8 DEF FileInv
    <3>3. DeliveredTo(d)'
      BY <1>0, <2>5, <2>6, <3>1, <3>2 DEF DeliveredTo
    <3> QED BY <2>1, <2>4, <3>3 DEF DeliverInv
  <2> QED BY <2>7, <2>8
<1>4. CASE ~Prepare /\ ~NodeThere
  <2>1. \/ pc' = "failed"
        \/ /\ UNCHANGED <<todo, delivered>>
           /\ pc \in {"visit", "answer", "done"} <=> pc' \in {"visit", "answer", "done"}
           /\ pc' = "prepare" => pc = "prepare"
    BY <1>1, <1>4 DEF Next, Walk, PrepareFails, Visit, Serve, ListLeaf, LeafThere, NodeLost,
       ReuploadFails, RepairLeaf, RepairListed, WalkDone, StrandGenerated, NetworkChanges,
       vars, outcome, Answer, FailOnError
  <2>2. CASE UNCHANGED <<todo, delivered>>
    <3>1. \A d \in 0..LeafNum : DeliveredTo(d) => DeliveredTo(d)'
      BY <1>0, <2>2 DEF DeliveredTo, Coming
    <3> QED BY <1>1, <2>1, <2>2, <3>1 DEF DeliverInv
  <2> QED BY <2>1, <2>2 DEF DeliverInv
<1> QED BY <1>2, <1>3, <1>4

LEMMA DeliverHolds == BaseInv /\ DeliverInv => DownloadDelivers
<1> SUFFICES ASSUME BaseInv, DeliverInv, job = "download", pc = "done"
             PROVE  delivered = [j \in 1..LeafNum |-> {idx[Leaf[j]]}]
  BY DEF DownloadDelivers, Leaf
<1>1. PICK d \in 0..LeafNum : DeliveredTo(d)
  BY DEF DeliverInv
<1>2. Range(todo) = {}
  BY DEF BaseInv, ControlInv, Range
<1>3. (d + 1)..LeafNum = {}
  BY <1>1, <1>2 DEF DeliveredTo, Coming
<1>4. d = LeafNum
  <2>1. LeafNum \in Nat
    BY Numbers
  <2>2. d < LeafNum => d + 1 \in (d + 1)..LeafNum
    BY <2>1
  <2> QED BY <1>3, <2>1, <2>2
<1> QED BY <1>1, <1>4 DEF DeliveredTo

-----------------------------------------------------------------------------
(* The theorems *)

WalkInv ==
  BaseInv /\ OrderInv /\ CountInv /\ AccountInv /\ DeliverInv /\ RepairedIsStored

LEMMA InitInv == L!Regular /\ Init => WalkInv
<1> SUFFICES ASSUME L!Regular, Init PROVE WalkInv
  OBVIOUS
<1>1. BaseInv
  BY InitWalk DEF BaseInv
<1>2. /\ job # "repair" /\ pc = "prepare" /\ todo = <<>> /\ delivered = <<>> /\ count = 0
  BY WalkAssumption DEF Init, WalkAssumption
<1>3. InSequence(todo)
  BY <1>2 DEF InSequence
<1> QED BY <1>1, <1>2, <1>3 DEF WalkInv, OrderInv, CountInv, AccountInv, Retrieving, DeliverInv,
           RepairedIsStored

LEMMA NextInv == L!Regular /\ WalkInv /\ [Next]_vars => WalkInv'
BY StepBase, StepOrder, StepCount, StepAccount, StepDeliver, StepRepaired DEF WalkInv

LEMMA Invariant == ASSUME L!Regular PROVE Spec => []WalkInv
<1>1. Init => WalkInv
  BY InitInv
<1>2. WalkInv /\ [Next]_vars => WalkInv'
  BY NextInv
<1> QED BY <1>1, <1>2, PTL DEF Spec

LEMMA TypesHold == WalkInv => TypeOK
<1> SUFFICES ASSUME WalkInv PROVE TypeOK
  OBVIOUS
<1>1. \A k \in TreeNo : KnownInv(k) /\ stored[k] \subseteq NodesOf(k)
  BY DEF WalkInv, BaseInv, GetterInv, StoredInv
<1>2. Range(todo) \subseteq NodesOf(0) /\ Range(list) \subseteq NodesOf(0)
  BY DEF WalkInv, BaseInv, ControlInv, Range
<1>3. count \in 0..ChunkNum
  BY Numbers DEF WalkInv, CountInv
<1> QED BY <1>1, <1>2, <1>3 DEF TypeOK, KnownInv, WalkInv, BaseInv, GetterInv

\* The types of a walk; and what a getter has, it has with the CIDs of the children: without
\* them the loop of GetData over a child would not end (ipfs-connector/blockgetter.go:125-175).
THEOREM TypeCorrect ==
  ASSUME L!Regular
  PROVE  Spec => []TypeOK
BY Invariant, TypesHold, PTL

\* A retrieval that went through passed over no node: what it has not listed was on IPFS, or
\* is a leaf its lattice recovered by the way (client/repair.go, RetrieveFailedLeaves).
THEOREM RetrievalsAccount ==
  ASSUME L!Regular
  PROVE  Spec => []RetrievalAccounts
<1>1. WalkInv => RetrievalAccounts
  BY AccountHolds DEF WalkInv
<1> QED BY <1>1, Invariant, PTL

\* A leaf reported repaired is or was on IPFS (client/repair.go, RepairFailedLeaves).
THEOREM ReportsAreStored ==
  ASSUME L!Regular
  PROVE  Spec => []RepairedIsStored
<1>1. WalkInv => RepairedIsStored
  BY DEF WalkInv
<1> QED BY <1>1, Invariant, PTL

\* A getter gives a strand up only over an inner node of its tree that was missing
\* (ipfs-connector/blockgetter.go, GetParityHelper).
THEOREM StrandsLostForCause ==
  ASSUME L!Regular
  PROVE  Spec => []WrittenOffForCause
<1>1. WalkInv => WrittenOffForCause
  BY DEF WalkInv, BaseInv
<1> QED BY <1>1, Invariant, PTL

\* A download that ends well delivers the leaves of the file, all of them, each with its own
\* data and in their order (client/download.go, downloadAndRecover).
THEOREM DownloadsDeliver ==
  ASSUME L!Regular
  PROVE  Spec => []DownloadDelivers
<1>1. WalkInv => DownloadDelivers
  BY DeliverHolds DEF WalkInv
<1> QED BY <1>1, Invariant, PTL
=============================================================================
