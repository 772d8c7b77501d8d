-------------------------------- MODULE Getter --------------------------------
(***************************************************************************)
(* The getter of a repair or download (ipfs-connector/blockgetter.go): it  *)
(* has the empty trees of the file and of its strands, learns the CIDs of  *)
(* their nodes from the root down as it fetches them, and gives the blocks *)
(* of the lattice from the nodes.  Tree 0 is the file's, tree k strand k's.*)
(***************************************************************************)
EXTENDS MerkleTree

CONSTANTS LeafNum, Fanout   \* the file

ASSUME GetterAssumption ==
  /\ LeafNum \in Nat \ {0, 1}
  /\ Fanout \in Nat \ {0, 1}

\* The blocks of the lattice: the nodes of the file's tree.
ChunkNum == Size(LeafNum, Fanout)
TreeNo == 0..Alpha

\* A tree, and of each node the nodes above it and itself.
WithLines(t) == [tree |-> t, line |-> [n \in Nodes(t) |-> {n} \cup Above(t, n)]]

VARIABLES
  trees,      \* the trees
  idx,        \* [node of the file]: the block it is, its LatticeIdx + 1
  pieces,     \* [block]: the nodes of a strand's tree that its parity is cut across
  stored,     \* [tree]: the nodes that can be fetched from IPFS
  known,      \* [tree]: the nodes whose CID the getter has
  got,        \* [tree]: the nodes whose Data it has
  available   \* [strand]: ParityAvailable

file == <<trees, idx, pieces>>
getter == <<known, got, available>>

FileInit ==
  LET t == Tree(LeafNum, Fanout)
      s == ParityTree(ChunkNum, Fanout)
  IN  /\ trees = [k \in TreeNo |-> WithLines(IF k = 0 THEN t ELSE s)]
      /\ idx = [n \in Nodes(t) |-> LatticeIdx(t)[n] + 1]
      /\ pieces = [i \in 1..ChunkNum |-> ParityPieces(s, i)]

NodesOf(k) == Nodes(trees[k].tree)
Kids(k, n) == Range(trees[k].tree.children[n])

\* What GetData and GetParityHelper fetch for a node: nothing if they have it, otherwise
\* the nodes down to it from the lowest one above whose CID is known.
Way(k, n) ==
  IF n \in got[k] THEN {}
  ELSE {m \in trees[k].line[n] : m >= Max(known[k] \cap trees[k].line[n])}

CanFetch(k, n) == Way(k, n) \subseteq stored[k]

\* What is fetched of it: up to the first that cannot be.
Fetched(k, n) == {m \in Way(k, n) : \A x \in Way(k, n) : x <= m => x \in stored[k]}

\* Mutant: the links of the node that was asked for are left out.
LearntAbove(k, ns, n) == known[k] \cup UNION {Kids(k, m) : m \in ns \ {n}}

\* The CIDs known once the nodes ns were fetched for n.
Learnt(k, ns, n) == known[k] \cup UNION {Kids(k, m) : m \in ns}

\* GetData of block i.
GetData(i) ==
  LET n == CHOOSE m \in NodesOf(0) : idx[m] = i
      ns == Fetched(0, n)
  IN  /\ known' = [known EXCEPT ![0] = Learnt(0, ns, n)]
      /\ got' = [got EXCEPT ![0] = @ \cup ns]
      /\ UNCHANGED available

\* Mutant: a leaf that is not there makes the strand unavailable, too.
WrittenOffAny(k, n) == ~CanFetch(k, n)

\* A node above n that cannot be fetched makes the strand unavailable.
WrittenOff(k, n) == ~CanFetch(k, n) /\ Min(Way(k, n) \ stored[k]) # n

\* The pieces that are fetched one after the other: up to the first that cannot be.
TriedPieces(k, i) == {n \in pieces[i] : \A m \in pieces[i] : m < n => CanFetch(k, m)}

\* GetParity of block i on strand k.
GetParity(i, k) ==
  IF available[k]
    THEN LET ns == UNION {Fetched(k, n) : n \in TriedPieces(k, i)} IN
         /\ known' = [known EXCEPT ![k] = Learnt(k, ns, Max(TriedPieces(k, i)))]
         /\ got' = [got EXCEPT ![k] = @ \cup ns]
         /\ available' = [available EXCEPT ![k] = \A n \in TriedPieces(k, i) : ~WrittenOff(k, n)]
    ELSE UNCHANGED getter

\* The blocks for which they would succeed.
Gettable ==
  {b \in TreeNo \X (1..ChunkNum) :
     IF b[1] = 0 THEN \E n \in NodesOf(0) : idx[n] = b[2] /\ CanFetch(0, n)
     ELSE available[b[1]] /\ \A n \in pieces[b[2]] : CanFetch(b[1], n)}

\* The lattice has the getter fetch a block.
GetBlock(b) == IF b[1] = 0 THEN GetData(b[2]) ELSE GetParity(b[2], b[1])
=============================================================================
