------------------------------ MODULE MerkleTree ------------------------------
(***************************************************************************)
(* The Merkle trees of a file and of its strands (ipfs-connector), and the *)
(* two orders in which their nodes become the blocks of the lattice: the   *)
(* upload's (GetFlattenedTree), and the one the repairs and downloads      *)
(* rebuild from the metadata (ConstructTree).                              *)
(*                                                                         *)
(* A node is its place in preorder, from 0 for the root; a tree is how     *)
(* many nodes it has and the children of each, in their order.             *)
(***************************************************************************)
EXTENDS Positions, Sequences, SequencesExt

\* The members of a finite set in the order Precedes.
InOrder(T, Precedes(_, _)) ==
  LET rank == [x \in T |-> Cardinality({y \in T : Precedes(y, x)})]
  IN  [r \in 1..Cardinality(T) |-> CHOOSE x \in T : rank[x] = r - 1]

Ascending(T) == InOrder(T, LAMBDA m, n : m < n)

\* How many leaves are below a node of a level, 0 being the leaves' own: `fanout'
\* neighbours get a parent.
Span(fanout) ==
  LET span[h \in Nat] == IF h = 0 THEN 1 ELSE fanout * span[h - 1] IN span

\* How many levels there are: nodes get parents until one is above all leaves.
Depth(leaves, fanout) ==
  CHOOSE d \in 1..leaves : /\ Span(fanout)[d - 1] >= leaves
                           /\ \A e \in 1..(d - 1) : Span(fanout)[e - 1] < leaves

\* A node is made as the i-th of level h, from 0: it is the pair of them until it has its
\* number.
FirstLeaf(fanout, x) == x[2] * Span(fanout)[x[1]]
Made(leaves, fanout) ==
  {x \in (0..(Depth(leaves, fanout) - 1)) \X (0..(leaves - 1)) : FirstLeaf(fanout, x) < leaves}
MadeParent(fanout, x) == <<x[1] + 1, x[2] \div fanout>>

\* assignPreOrderIndex: a node comes before those below it, and before what follows them.
ComesBefore(fanout, x, y) ==
  \/ FirstLeaf(fanout, x) < FirstLeaf(fanout, y)
  \/ (FirstLeaf(fanout, x) = FirstLeaf(fanout, y) /\ x[1] > y[1])

Size(leaves, fanout) == Cardinality(Made(leaves, fanout))

\* The tree of `leaves' chunks.
Tree(leaves, fanout) ==
  LET made == Made(leaves, fanout)
      number(x) == Cardinality({y \in made : ComesBefore(fanout, y, x)})
      links == {<<number(MadeParent(fanout, x)), number(x)>> :
                x \in {y \in made : y[1] + 1 < Depth(leaves, fanout)}}
      numbers == 0..(Cardinality(made) - 1)
  IN  [size |-> Cardinality(made),
       children |-> [n \in numbers |-> Ascending({m \in numbers : <<n, m>> \in links})]]

Nodes(t) == 0..(t.size - 1)
Inner(t) == {n \in Nodes(t) : t.children[n] # <<>>}
Leaves(t) == Nodes(t) \ Inner(t)

\* ParentMap, but for the root, which is its own parent there.
Parent(t, n) == CHOOSE m \in Inner(t) : n \in Range(t.children[m])

\* The nodes above a node, the root last in the walk up.
Above(t, n) ==
  LET up[m \in Nodes(t)] == IF m = 0 THEN {} ELSE {Parent(t, m)} \cup up[Parent(t, m)]
  IN  up[n]

\* What GetMerkleTree returns besides the tree.
MaxChildren(t) == Max({Len(t.children[n]) : n \in Nodes(t)})

\* What makes a tree of it: the root is nobody's child, and no node has two parents.
IsTree(t) ==
  /\ t.size \in Nat \ {0}
  /\ t.children \in [Nodes(t) -> Seq(Nodes(t) \ {0})]
  /\ \A n, m \in Nodes(t) : Range(t.children[n]) \cap Range(t.children[m]) # {} => n = m
  /\ MaxChildren(t) \in Nat /\ \A n \in Nodes(t) : Len(t.children[n]) <= MaxChildren(t)

\* What makes preorder of the numbers: a node comes after those above it, its parent the
\* last of them, and before the children of the same parent that follow.
InPreorder(t) ==
  LET line(n) == {n} \cup Above(t, n) IN
  /\ \A n \in Nodes(t) :
       /\ 0 \in line(n) /\ line(n) \subseteq 0..n
       /\ \A m \in line(n) \ {0} : \E p \in line(n) :
            p < m /\ m \in Range(t.children[p]) /\ \A x \in line(n) : x < m => x <= p
  /\ \A n, x \in Nodes(t) : \A i, j \in DOMAIN t.children[n] :
       i < j /\ t.children[n][i] \in line(x) => x < t.children[n][j]

-----------------------------------------------------------------------------
(* The order of the blocks *)

\* A node comes after those below it in postorder.
AfterBelow(t, m, n) == n \in Above(t, m) \/ (m < n /\ m \notin Above(t, n))

\* Inner nodes but the root, in preorder and in postorder.
PreOrder(t) == Ascending(Inner(t) \ {0})
PostOrder(t) == InOrder(Inner(t) \ {0}, LAMBDA m, n : AfterBelow(t, m, n))

\* The places an inner node may go to: a leaf's, a lattice window away from its children.
Targets(t, n, nodes) ==
  LET kids == t.children[n] IN
  {j \in (S * P)..(t.size - 1) :
     /\ (j - S * P) % S = 0
     /\ nodes[j] \in Leaves(t)
     /\ \/ nodes[j] <= kids[1] - S * P
        \/ nodes[j] >= kids[Len(kids)] + S * P}

Swap(f, i, j) == [f EXCEPT ![i] = f[j], ![j] = f[i]]

Identity(t) == [n \in Nodes(t) |-> n]

\* What becomes of f when inner node n is taken and the nodes are these: its place, or as
\* the mutant has it another, is swapped with the first of the targets.
Moved(t, n, nodes, place, f) ==
  LET targets == Targets(t, n, nodes)
  IN  IF targets = {} THEN f ELSE Swap(f, Min(targets), place)

\* Mutant: the upload moves the inner node itself.
FlattenedTreeItself(t) ==
  LET order == PostOrder(t)
      after[r \in 0..Len(order)] ==
        IF r = 0 THEN Identity(t)
        ELSE Moved(t, order[r], after[r - 1], order[r], after[r - 1])
  IN  after[Len(order)]

\* GetFlattenedTree(s, p, true): inner nodes are taken in postorder, and places are looked
\* for among the nodes as they are by then.  What is moved is the place before the node's.
FlattenedTree(t) ==
  LET order == PostOrder(t)
      after[r \in 0..Len(order)] ==
        IF r = 0 THEN Identity(t)
        ELSE Moved(t, order[r], after[r - 1], order[r] - 1, after[r - 1])
  IN  after[Len(order)]

\* ConstructTree: inner nodes are taken in preorder, places are looked for among the nodes
\* in preorder, and the LatticeIdx of two nodes are swapped.
LatticeIdx(t) ==
  LET order == PreOrder(t)
      after[r \in 0..Len(order)] ==
        IF r = 0 THEN Identity(t)
        ELSE Moved(t, order[r], Identity(t), order[r] - 1, after[r - 1])
  IN  after[Len(order)]

\* The repair finds every node at the index it was entangled at.
SameOrder(t) == \A n \in Nodes(t) : FlattenedTree(t)[LatticeIdx(t)[n]] = n

-----------------------------------------------------------------------------
(* The strands *)

\* The parities of a strand are merged to one file: each is as long as a leaf's block,
\* 262158 bytes, and the file is cut into chunks of 262144.
ParityLeaves(blocks) == (blocks * 262158 + 262143) \div 262144

\* Without a parity tree that was pinned the fan-out of the metadata is 0, and
\* CreateParityTree puts all leaves under the root.
ParityTree(blocks, fanout) ==
  LET leaves == ParityLeaves(blocks) IN Tree(leaves, IF fanout = 0 THEN leaves ELSE fanout)

\* The leaves of a parity tree in their order, and the ones that parity i (from 1) is cut
\* across (calculateNewBlocks).
LeafSeq(t) == Ascending(Leaves(t))
PiecesOf(i) == (((i - 1) * 262158) \div 262144) .. ((i * 262158 - 1) \div 262144)
ParityPieces(t, i) == {LeafSeq(t)[b + 1] : b \in PiecesOf(i)}
=============================================================================
