------------------------------ MODULE MCTreeWalk ------------------------------
EXTENDS TreeWalk

\* With S = P = 2, four leaves of seven nodes, and eight leaves of fifteen nodes in every
\* strand: of the file an inner node, its second leaf and the first of the other; of a
\* strand its root, a node next to the leaves, or a leaf.
FileParts == SUBSET {<<0, 1>>, <<0, 3>>, <<0, 5>>}
StrandParts(k) == {{}, {<<k, 0>>}, {<<k, 2>>}, {<<k, 4>>}}
SomeLost ==
  {f \cup a \cup b \cup c : f \in FileParts, a \in StrandParts(1), b \in StrandParts(2),
                            c \in {{}, {<<3, 0>>}}}
Some == {<<0, 3>>, <<2, 9>>}

\* What the walks rely on of the trees, and the theorems of the lattice; the former for the
\* trees of other files, too.
ASSUME TreesChecked == WalkTrees /\ L!Regular
ASSUME OtherTreesChecked == \A leaves \in 2..9, fanout \in 2..4 : TreesFit(leaves, fanout)
=============================================================================
