------------------------------- MODULE TreeWalk -------------------------------
(***************************************************************************)
(* The client's walks over the tree of a file (client/repair.go,           *)
(* client/download.go): each prepares a getter and a lattice of its own,   *)
(* asks the lattice for the nodes one after the other and puts those back  *)
(* that had to be recovered.                                               *)
(*                                                                         *)
(*   "retrieve"  RetrieveFailedLeaves: inner nodes are repaired, leaves    *)
(*               that are missing are listed                               *)
(*   "repair"    RepairFailedLeaves: the leaves listed are repaired        *)
(*   "download"  Download, with recovery                                   *)
(*   "count"     DownloadCount: what fails is passed over                  *)
(*   "strand"    RepairStrand: a download whose blocks a strand is         *)
(*               generated from anew                                       *)
(***************************************************************************)
EXTENDS Getter

CONSTANTS
  Jobs,           \* the walks there may be; a retrieval is followed by a repair
  SwitchDepth,    \* the depth the lattice is asked with
  Losses,         \* the sets of nodes, <<tree, node>>, that may be missing at first
  Flickers,       \* the nodes that may come and go
  MaxChanges,     \* bound: times one does
  MaxFaults       \* bound: blocks IPFS does not take, metadata it does not give

VARIABLES
  status, chunk, repaired, request, stack, answer, asked,   \* of the lattice
  job,        \* the walk
  pc,         \* "prepare", "visit", "answer"; "done", "failed"
  todo,       \* the nodes to visit, the next one first
  list,       \* leafIndices: the leaves a retrieval has not found
  result,     \* [leaf listed]: whether it was repaired
  delivered,  \* the data of a download
  count,      \* the nodes a count has seen
  changes,    \* changes of the network so far
  faults,     \* faults so far
  seen,       \* auxiliary: the nodes of the file that were stored at some time
  missed      \* auxiliary: [strand], the nodes of it that were missing at some time

lattice == <<status, chunk, repaired, request, stack, answer, asked>>
outcome == <<list, result, delivered, count>>
history == <<seen, missed>>
vars == <<file, stored, getter, lattice, job, pc, todo, outcome, changes, faults, history>>

L == INSTANCE Lattice WITH
  net <- Gettable, changes <- 0, sure <- {}, ever <- {},
  Losses <- {}, Requests <- {<<0, i>> : i \in 1..ChunkNum}, Depths <- {1, 2, SwitchDepth},
  MaxRequests <- ChunkNum, Flickers <- {}, MaxChanges <- 0

ASSUME WalkAssumption ==
  /\ Jobs \subseteq {"retrieve", "download", "count", "strand"}
  /\ SwitchDepth \in Nat \ {0, 1}   \* with 1 a download does without a lattice
  /\ SameOrder(Tree(LeafNum, Fanout))
  /\ \A f \in Flickers :
       \/ f[1] = 0 /\ f[2] \in Nodes(Tree(LeafNum, Fanout))
       \/ f[1] \in Strand /\ f[2] \in Nodes(ParityTree(ChunkNum, Fanout))
  /\ MaxChanges \in Nat /\ MaxFaults \in Nat

\* What the walks rely on of the trees of a file, of its lattice's order and of its parities'
\* pieces: it is so for all of them (TreesAreFit).
TreesFit(leaves, fanout) ==
  LET t == Tree(leaves, fanout)
      s == ParityTree(t.size, fanout)
  IN  /\ \A tree \in {t, s} : IsTree(tree) /\ InPreorder(tree)
      /\ LatticeIdx(t) \in [Nodes(t) -> Nodes(t)] /\ Range(LatticeIdx(t)) = Nodes(t)
      /\ \A i \in 1..t.size : ParityPieces(s, i) \subseteq Nodes(s)
      /\ LeafSeq(t) \in [1..leaves -> Leaves(t)] /\ Range(LeafSeq(t)) = Leaves(t)
      /\ \A i, j \in 1..leaves : i < j => LeafSeq(t)[i] < LeafSeq(t)[j]

WalkTrees == TreesFit(LeafNum, Fanout)

Downloads == {"download", "count", "strand"}   \* downloadAndRecover

IsLeaf(n) == Kids(0, n) = {}

\* RepairStrand knows the strand to be generated only by number.
RepairedStrand == 1

FreshLattice ==
  /\ status' = [b \in L!Block |-> "NoData"]
  /\ chunk' = [b \in L!Block |-> {}]
  /\ repaired' = {}
  /\ request' = L!NoRequest /\ stack' = <<>> /\ answer' = L!NoAnswer /\ asked' = 0

Init ==
  /\ FileInit
  /\ \E lost \in Losses :
       stored = [k \in TreeNo |-> {n \in NodesOf(k) : <<k, n>> \notin lost}]
  /\ known = [k \in TreeNo |-> {0}] /\ got = [k \in TreeNo |-> {}]
  /\ available = [k \in Strand |-> TRUE]
  /\ status = [b \in L!Block |-> "NoData"] /\ chunk = [b \in L!Block |-> {}] /\ repaired = {}
  /\ request = L!NoRequest /\ stack = <<>> /\ answer = L!NoAnswer /\ asked = 0
  /\ job \in Jobs /\ pc = "prepare" /\ todo = <<>>
  /\ list = <<>> /\ result = <<>> /\ delivered = <<>> /\ count = 0
  /\ changes = 0 /\ faults = 0
  /\ seen = stored[0] /\ missed = [k \in Strand |-> NodesOf(k) \ stored[k]]

Fault == faults < MaxFaults /\ faults' = faults + 1
NoFault == UNCHANGED faults

\* The next node to visit, and the block it is.
Node == Head(todo)
Asked == L!Data(idx[Node])

-----------------------------------------------------------------------------

\* PrepareRepair, and its likes in metaDownload and RepairStrand: the metadata are
\* fetched; the getter and the lattice are new.
Prepare ==
  /\ pc = "prepare"
  /\ NoFault
  /\ pc' = "visit"
  /\ todo' = IF job = "repair" THEN list ELSE <<0>>
  /\ known' = [k \in TreeNo |-> {0}] /\ got' = [k \in TreeNo |-> {}]
  /\ available' = [k \in Strand |-> ~(job = "strand" /\ k = RepairedStrand)]
  /\ FreshLattice
  /\ UNCHANGED <<file, stored, job, outcome, changes, history>>

PrepareFails ==
  /\ pc = "prepare"
  /\ Fault
  /\ pc' = "failed"
  /\ UNCHANGED <<file, stored, getter, lattice, job, todo, outcome, changes, history>>

\* A walk from the root down has the node's CID from the links of its parent, since now; a
\* repair has only its number. A retrieval only looks for a leaf; everything else may be
\* recovered.
Visit ==
  /\ pc = "visit"
  /\ todo # <<>>
  /\ known' = [known EXCEPT ![0] = IF job = "repair" THEN @ ELSE @ \cup {Node}]
  /\ L!Ask(Asked, IF job = "retrieve" /\ IsLeaf(Node) THEN 1
                  ELSE IF job = "strand" THEN 2 ELSE SwitchDepth)
  /\ pc' = "answer"
  /\ UNCHANGED <<file, stored, got, available, job, todo, outcome, changes, faults, history>>

\* The lattice works on the request; the getter learns from what it is asked for.
Serve ==
  /\ L!Step
  /\ IF L!Looking /\ status[L!Target] = "NoData" THEN GetBlock(L!Target) ELSE UNCHANGED getter
  /\ UNCHANGED <<file, stored, job, pc, todo, outcome, changes, faults, history>>

\* The node is one that the walk has to have: any node of a download, an inner one of a
\* retrieval.
Needed == job \in Downloads \/ (job = "retrieve" /\ ~IsLeaf(Node))

Answer(ok) == pc = "answer" /\ ~L!Busy /\ answer.ok = ok

\* A leaf that is not there: it is listed.
ListLeaf ==
  /\ Answer(FALSE)
  /\ job = "retrieve" /\ IsLeaf(Node)
  /\ list' = Append(list, Node)
  /\ pc' = "visit" /\ todo' = Tail(todo)
  /\ UNCHANGED <<file, stored, getter, lattice, job, result, delivered, count, changes,
                 faults, history>>

\* One that is, from the network or from the lattice: there is nothing to do.
LeafThere ==
  /\ Answer(TRUE)
  /\ job = "retrieve" /\ IsLeaf(Node)
  /\ pc' = "visit" /\ todo' = Tail(todo)
  /\ UNCHANGED <<file, stored, getter, lattice, job, outcome, changes, faults, history>>

\* Mutant: every walk goes on without the node.
FailOnErrorNever == FALSE

\* Whether a walk ends in an error over a node it cannot have.  A count goes on and drops
\* the error, unless the node is the last one.
FailOnError == job # "count" \/ Tail(todo) = <<>>

\* A node the walk needs, or an inner one a retrieval cannot repair.
NodeLost ==
  /\ Answer(FALSE)
  /\ Needed
  /\ pc' = IF FailOnError THEN "failed" ELSE "visit"
  /\ todo' = Tail(todo)
  /\ UNCHANGED <<file, stored, getter, lattice, job, outcome, changes, faults, history>>

\* Mutant: a recovered node stays in the lattice.
PutBackNever == UNCHANGED <<stored, seen>>

\* AddRawData: what was recovered is on IPFS again, as the node that it is.
PutBack ==
  LET back == {n \in NodesOf(0) : answer.chunk = {idx[n]}} IN
  /\ stored' = [stored EXCEPT ![0] = @ \cup back]
  /\ seen' = seen \cup back

\* dataReupload of a node that was recovered, with a look at the CID.
Reuploads == answer.repaired /\ job # "count"
Reupload ==
  \/ /\ ~Reuploads
     /\ NoFault /\ UNCHANGED <<stored, seen>>
  \/ /\ Reuploads /\ answer.chunk = {idx[Node]}
     /\ NoFault /\ PutBack

\* A node is there: its children come next.
NodeThere ==
  /\ Answer(TRUE)
  /\ Needed
  /\ Reupload
  /\ pc' = "visit" /\ todo' = trees[0].tree.children[Node] \o Tail(todo)
  /\ delivered' = IF job = "download" /\ IsLeaf(Node) THEN Append(delivered, answer.chunk)
                  ELSE delivered
  /\ count' = IF job = "count" THEN count + 1 ELSE count
  /\ UNCHANGED <<file, getter, lattice, job, list, result, changes, missed>>

\* IPFS refuses it, or has taken something else than the node.
ReuploadFails ==
  /\ Answer(TRUE)
  /\ Needed
  /\ Reuploads
  /\ IF answer.chunk = {idx[Node]} THEN Fault /\ UNCHANGED <<stored, seen>>
     ELSE NoFault /\ PutBack
  /\ pc' = "failed"
  /\ UNCHANGED <<file, getter, lattice, job, todo, outcome, changes, missed>>

\* What a repair reports of a leaf.
Repaired(uploaded) == answer.ok /\ uploaded

\* RepairFailedLeaves' way with a leaf; if it was recovered, dataReuploadNoCheck, which is
\* content with whatever was.
RepairLeaf ==
  /\ pc = "answer" /\ ~L!Busy
  /\ job = "repair"
  /\ \/ ~answer.repaired /\ NoFault /\ UNCHANGED <<stored, seen>>
        /\ result' = [result EXCEPT ![Node] = Repaired(TRUE)]
     \/ answer.repaired /\ NoFault /\ PutBack
        /\ result' = [result EXCEPT ![Node] = Repaired(TRUE)]
     \/ answer.repaired /\ Fault /\ UNCHANGED <<stored, seen>>
        /\ result' = [result EXCEPT ![Node] = Repaired(FALSE)]
  /\ pc' = "visit" /\ todo' = Tail(todo)
  /\ UNCHANGED <<file, getter, lattice, job, list, delivered, count, changes, missed>>

\* A retrieval hands its list to a repair.
RepairListed ==
  /\ pc = "visit" /\ todo = <<>>
  /\ job = "retrieve" /\ list # <<>>
  /\ job' = "repair" /\ pc' = "prepare"
  /\ result' = [n \in Range(list) |-> FALSE]
  /\ UNCHANGED <<file, stored, getter, lattice, todo, list, delivered, count, changes, faults,
                 history>>

WalkDone ==
  /\ pc = "visit" /\ todo = <<>>
  /\ job \in {"download", "count", "repair"} \/ (job = "retrieve" /\ list = <<>>)
  /\ pc' = "done"
  /\ UNCHANGED <<file, stored, getter, lattice, job, todo, outcome, changes, faults, history>>

\* RepairStrand entangles the blocks, which its lattice has by now, and adds the strand.
StrandGenerated ==
  /\ pc = "visit" /\ todo = <<>>
  /\ job = "strand"
  /\ \/ /\ NoFault /\ pc' = "done"
        /\ stored' = [stored EXCEPT ![RepairedStrand] = NodesOf(RepairedStrand)]
     \/ /\ Fault /\ pc' = "failed"
        /\ UNCHANGED stored
  /\ UNCHANGED <<file, getter, lattice, job, todo, outcome, changes, history>>

Ended == pc \in {"done", "failed"}

\* A node of the network goes, or comes back.
NetworkChanges(k, n) ==
  /\ ~Ended
  /\ changes < MaxChanges /\ changes' = changes + 1
  /\ stored' = [stored EXCEPT ![k] = IF n \in @ THEN @ \ {n} ELSE @ \cup {n}]
  /\ seen' = IF k = 0 THEN seen \cup {n} ELSE seen
  /\ missed' = IF k = 0 THEN missed ELSE [missed EXCEPT ![k] = @ \cup {n}]
  /\ UNCHANGED <<file, getter, lattice, job, pc, todo, outcome, faults>>

Walk ==
  \/ Prepare \/ PrepareFails \/ Visit \/ Serve
  \/ ListLeaf \/ LeafThere \/ NodeLost \/ NodeThere \/ ReuploadFails \/ RepairLeaf
  \/ RepairListed \/ WalkDone \/ StrandGenerated

Next == Walk \/ \E f \in Flickers : NetworkChanges(f[1], f[2])

Spec == Init /\ [][Next]_vars /\ WF_vars(Walk)

-----------------------------------------------------------------------------
(* Properties *)

\* Types; and the CIDs known are closed: a node is fetched with the CIDs of its children,
\* or GetData would ask for it for ever while it looks for those of a child.
TypeOK ==
  /\ \A k \in TreeNo :
       /\ stored[k] \subseteq NodesOf(k)
       /\ got[k] \subseteq known[k] /\ known[k] \subseteq NodesOf(k)
       /\ \A n \in got[k] : Kids(k, n) \subseteq known[k]
  /\ available \in [Strand -> BOOLEAN]
  /\ Range(todo) \subseteq NodesOf(0) /\ Range(list) \subseteq NodesOf(0)
  /\ count \in 0..ChunkNum

RetrievalOver ==
  \/ job = "repair" /\ pc = "prepare"
  \/ job = "retrieve" /\ pc = "done"

\* After a retrieval that went through every inner node was there or is back, and each
\* leaf is listed, was there, or is in the retrieval's lattice, recovered by the way.
RetrievalAccounts ==
  RetrievalOver =>
    \A n \in NodesOf(0) \ (seen \cup Range(list)) : IsLeaf(n) /\ L!Data(idx[n]) \in repaired

\* Every leaf that was missing all the time is listed (client/repair.go:188-193).
LeavesAccounted ==
  RetrievalOver => \A n \in NodesOf(0) : IsLeaf(n) => n \in seen \cup Range(list)

\* A leaf that a repair reports repaired is on IPFS or was, when the repair had it.
RepairedIsStored == job = "repair" => \A n \in DOMAIN result : result[n] => n \in seen

\* A strand is given up only over a node above its leaves: no such node, no loss.
WrittenOffForCause ==
  \A k \in Strand :
    ~available[k] => \/ \E n \in missed[k] : Kids(k, n) # {}
                     \/ job = "strand" /\ k = RepairedStrand

\* A download that ends well has delivered the leaves of the file, all of them and in
\* their order.
DownloadDelivers ==
  job = "download" /\ pc = "done" =>
    delivered = [j \in 1..LeafNum |-> {idx[LeafSeq(trees[0].tree)[j]]}]

\* Every walk ends.
WalksEnd == <>Ended
=============================================================================
