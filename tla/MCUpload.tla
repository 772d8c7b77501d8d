------------------------------- MODULE MCUpload -------------------------------
EXTENDS Upload

\* With S = P = 2: a file of one block, two whose trees have no inner node but the root or
\* two of them, and one whose inner nodes are moved.
FewInner ==
  {[leaves |-> 1, fanout |-> 2], [leaves |-> 3, fanout |-> 3],
   [leaves |-> 4, fanout |-> 2], [leaves |-> 6, fanout |-> 3]}

\* The smallest with more inner nodes.
MoreInner == {[leaves |-> 5, fanout |-> 2]}

\* The trees of the files are trees and can be built again, the second for files of other
\* sizes too.
ASSUME TreesChecked == FilesAreTrees /\ TreesRebuild
ASSUME RebuildChecked ==
  \A l \in 1..12, k \in 2..4 : Rebuilds([leaves |-> l, fanout |-> k])
=============================================================================
