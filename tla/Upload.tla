-------------------------------- MODULE Upload --------------------------------
(***************************************************************************)
(* The upload of a file (client/upload.go): the file goes to IPFS, its     *)
(* Merkle tree comes back and is flattened to the blocks, one goroutine    *)
(* feeds them to the entangler, another runs it, and each parity is stored *)
(* by a goroutine of its own.  The parities of a strand are merged to a    *)
(* file, whose tree is pinned node by node; then come the metadata, their  *)
(* pin, and the request for monitoring.                                    *)
(***************************************************************************)
EXTENDS MerkleTree

CONSTANTS
  Files,       \* the files: records of how many leaves and children of a node there are
  MaxStoring,  \* bound: goroutines that store a parity at a time
  MaxFaults    \* bound: calls to IPFS and the cluster that fail

ASSUME UploadAssumption ==
  /\ Files \subseteq [leaves : Nat \ {0}, fanout : Nat \ {0, 1}]
  /\ MaxStoring \in Nat \ {0}
  /\ MaxFaults \in Nat

BlocksOf(file) == Size(file.leaves, file.fanout)

\* What an upload relies on of the trees: it is so for all files (FilesHaveTrees).
FilesAreTrees ==
  \A f \in Files : BlocksOf(f) \in Nat \ {0} /\ IsTree(ParityTree(BlocksOf(f), f.fanout))

\* How many leaves a tree has and the most children of a node are enough to build it again;
\* it is so for all files (FilesRebuild).
Rebuilds(f) ==
  LET t == Tree(f.leaves, f.fanout)
      st == ParityTree(BlocksOf(f), f.fanout)
      l == Cardinality(Leaves(t))
      k == MaxChildren(t)
  IN  /\ t.size = Size(l, k) /\ Depth(f.leaves, f.fanout) = Depth(l, k) /\ Tree(l, k) = t
      /\ ParityTree(t.size, MaxChildren(st)) = st

TreesRebuild == \A f \in Files : Rebuilds(f)

VARIABLES
  file,          \* what is uploaded, with its tree, and the shape of its strands' trees
  pc,            \* what Upload is at
  faults,        \* calls that failed
  sent,          \* the blocks sent over dataChan
  dataClosed,    \* dataChan is closed
  chunkNum, strands, index, cached, toWrap, chain, emitted, phase,  \* of the entangler
  parityChan,    \* the parities sent and not yet received
  storing,       \* the goroutines that have a parity to store
  parityBlocks,  \* [strand][block]: the parity stored, {} for none
  strand,        \* the strand to be merged and pinned
  merged,        \* [strand]: the parities its file was merged from
  stack,         \* the nodes of the strand's tree to be pinned, the next one first
  asked,         \* [strand]: the nodes whose pin the cluster was asked for, and answered
  widest,        \* currentMaxChildren, of the strands
  metadata,      \* what was uploaded of it
  metaPin        \* the pin of the metadata

tangler == <<chunkNum, strands, index, cached, toWrap, chain, emitted, phase>>
pipe == <<sent, dataClosed, parityChan, storing, parityBlocks>>
pins == <<strand, merged, stack, asked, widest>>
vars == <<file, pc, faults, tangler, pipe, pins, metadata, metaPin>>

E == INSTANCE Entangler WITH
  ChunkNums <- {BlocksOf(f) : f \in Files}, StrandSets <- {Strand}

Ended == {"done", "error", "exited"}
NoMetadata == [L |-> 0, K |-> 0, D |-> 0, N |-> 0, parityK |-> 0]

tree == file.tree
strandTree == file.strandTree

Init ==
  /\ \E f \in Files :
       file = [leaves |-> f.leaves, fanout |-> f.fanout, tree |-> Tree(f.leaves, f.fanout),
               strandTree |-> ParityTree(BlocksOf(f), f.fanout)]
  /\ pc = "add"
  /\ faults = 0
  /\ sent = 0 /\ dataClosed = FALSE
  /\ E!Init /\ chunkNum = BlocksOf(file)
  /\ parityChan = <<>> /\ storing = {}
  /\ parityBlocks = [k \in Strand |-> [i \in 1..BlocksOf(file) |-> {}]]
  /\ strand = 1
  /\ merged = [k \in Strand |-> <<>>]
  /\ stack = <<>>
  /\ asked = [k \in Strand |-> {}]
  /\ widest = 0
  /\ metadata = NoMetadata
  /\ metaPin = "none"

Fault == faults < MaxFaults /\ faults' = faults + 1
NoFault == UNCHANGED faults

\* A call that Upload makes: it goes on, or ends as it does when that call fails.
Call(at, next, failed) ==
  /\ pc = at
  /\ \/ NoFault /\ pc' = next
     \/ Fault /\ pc' = failed

\* AddFile; the program ends when it fails.
AddFile ==
  /\ Call("add", "tree", "exited")
  /\ UNCHANGED <<file, tangler, pipe, pins, metadata, metaPin>>

GetMerkleTree ==
  /\ Call("tree", "load", "error")
  /\ UNCHANGED <<file, tangler, pipe, pins, metadata, metaPin>>

\* The data of every node is read, and kept in it: from here on node.Data() cannot fail.
LoadData ==
  /\ Call("load", "entangle", "exited")
  /\ UNCHANGED <<file, tangler, pipe, pins, metadata, metaPin>>

-----------------------------------------------------------------------------
(* generateEntanglementAndUpload *)

Send ==
  /\ pc = "entangle"
  /\ sent < chunkNum
  /\ sent' = sent + 1
  /\ UNCHANGED <<file, pc, faults, tangler, dataClosed, parityChan, storing, parityBlocks,
                 pins, metadata, metaPin>>

\* Mutant: the channel is left open.
CloseDataNever == FALSE /\ UNCHANGED vars

CloseData ==
  /\ pc = "entangle"
  /\ sent = chunkNum
  /\ ~dataClosed
  /\ dataClosed' = TRUE
  /\ UNCHANGED <<file, pc, faults, tangler, sent, parityChan, storing, parityBlocks,
                 pins, metadata, metaPin>>

\* What a step of the entangler sends, in the order of the strands.
NewParities ==
  LET on(k) == {b \in emitted' \ emitted : b.strand = k}
      one(k) == IF on(k) = {} THEN <<>> ELSE <<CHOOSE b \in on(k) : TRUE>>
  IN  one(1) \o one(2) \o one(3)

\* The entangler waits for data, and ends with the channel.
Entangle ==
  /\ pc = "entangle"
  /\ \/ index < sent /\ E!EntangleSingleBlock
     \/ dataClosed /\ E!DataEnds
     \/ E!WrapChain
     \/ E!CloseParities
  /\ parityChan' = parityChan \o NewParities
  /\ UNCHANGED <<file, pc, faults, sent, dataClosed, storing, parityBlocks, pins, metadata,
                 metaPin>>

\* A file of fewer blocks than a strand has chains: the goroutine panics, and with it
\* the program.
EntanglerPanics ==
  /\ pc = "entangle"
  /\ phase = "panic"
  /\ pc' = "exited"
  /\ UNCHANGED <<file, faults, tangler, pipe, pins, metadata, metaPin>>

Receive ==
  /\ pc = "entangle"
  /\ parityChan # <<>>
  /\ Cardinality(storing) < MaxStoring
  /\ parityChan' = Tail(parityChan)
  /\ storing' = storing \cup {Head(parityChan)}
  /\ UNCHANGED <<file, pc, faults, tangler, sent, dataClosed, parityBlocks, pins, metadata,
                 metaPin>>

Store(b) ==
  /\ storing' = storing \ {b}
  /\ parityBlocks' = [parityBlocks EXCEPT ![b.strand][b.left] = b.data]
  /\ UNCHANGED <<file, pc, faults, tangler, sent, dataClosed, parityChan, pins, metadata,
                 metaPin>>

\* Mutant: the goroutines that store are not waited for.
AllReceivedOnly == phase = "closed" /\ parityChan = <<>>

\* parityChan is closed and empty, and the wait group is down to 0.
AllStored == phase = "closed" /\ parityChan = <<>> /\ storing = {}

EntanglementReady ==
  /\ pc = "entangle"
  /\ AllStored
  /\ pc' = "merge"
  /\ UNCHANGED <<file, faults, tangler, pipe, pins, metadata, metaPin>>

-----------------------------------------------------------------------------
(* pinAlphaEntanglements *)

\* The strand is merged and added; its tree is what the walk of the pins starts from.
MergeStrand ==
  /\ Call("merge", "strandTree", "error")
  /\ merged' = [merged EXCEPT ![strand] = parityBlocks[strand]]
  /\ UNCHANGED <<file, tangler, pipe, strand, stack, asked, widest, metadata, metaPin>>

GetStrandTree ==
  /\ Call("strandTree", "pin", "error")
  /\ stack' = <<0>>
  /\ UNCHANGED <<file, tangler, pipe, strand, merged, asked, widest, metadata, metaPin>>

\* Mutant: the last node counts, not the one with the most children.
WidestLast(n) == Len(strandTree.children[n])

\* Mutant: the children are counted over the nodes.
WidestSum(n) == widest + Len(strandTree.children[n])

\* The most children of a node so far.
Widest(n) == Max({widest, Len(strandTree.children[n])})

\* Mutant: a pin that failed is passed over, its children are not.
SkippedAlone(n) == strandTree.children[n] \o Tail(stack)

\* What is left to pin when the pin of a node failed: nothing below it is pinned.
Skipped(n) == Tail(stack)

\* The walk in preorder.  The cluster's answer is not looked at, only that there is one.
PinNode ==
  /\ pc = "pin"
  /\ stack # <<>>
  /\ LET n == Head(stack) IN
     \/ /\ NoFault
        /\ asked' = [asked EXCEPT ![strand] = @ \cup {n}]
        /\ widest' = Widest(n)
        /\ stack' = strandTree.children[n] \o Tail(stack)
     \/ /\ Fault
        /\ stack' = Skipped(n)
        /\ UNCHANGED <<asked, widest>>
  /\ UNCHANGED <<file, pc, tangler, pipe, strand, merged, metadata, metaPin>>

StrandPinned ==
  /\ pc = "pin"
  /\ stack = <<>>
  /\ strand' = strand + 1
  /\ pc' = IF strand = Alpha THEN "metadata" ELSE "merge"
  /\ UNCHANGED <<file, faults, tangler, pipe, merged, stack, asked, widest, metadata, metaPin>>

-----------------------------------------------------------------------------

AddMetadata ==
  /\ Call("metadata", "notify", "error")
  /\ IF pc' = "notify"
       THEN /\ metadata' = [L |-> Cardinality(Leaves(tree)), K |-> MaxChildren(tree),
                            D |-> Depth(file.leaves, file.fanout), N |-> tree.size,
                            parityK |-> widest]
            /\ metaPin' = "pending"
       ELSE UNCHANGED <<metadata, metaPin>>
  /\ UNCHANGED <<file, tangler, pipe, pins>>

\* The goroutine of pinMetadata, which only pinResult waits for.
PinMetadata ==
  /\ metaPin = "pending"
  /\ \/ NoFault /\ metaPin' = "pinned"
     \/ Fault /\ metaPin' = "failed"
  /\ UNCHANGED <<file, pc, tangler, pipe, pins, metadata>>

\* The request to the community node, if there is one.  An error is logged only.
Notify ==
  /\ Call("notify", "done", "done")
  /\ UNCHANGED <<file, tangler, pipe, pins, metadata, metaPin>>

Main ==
  \/ AddFile \/ GetMerkleTree \/ LoadData
  \/ EntanglerPanics \/ Receive \/ EntanglementReady
  \/ MergeStrand \/ GetStrandTree \/ PinNode \/ StrandPinned
  \/ AddMetadata \/ Notify

Feed == Send \/ CloseData
StoreOne == \E b \in storing : Store(b)

Next == Main \/ Feed \/ Entangle \/ StoreOne \/ PinMetadata

Spec ==
  /\ Init /\ [][Next]_vars
  /\ WF_vars(Main) /\ WF_vars(Feed) /\ WF_vars(Entangle)
  /\ WF_vars(StoreOne) /\ WF_vars(PinMetadata)

-----------------------------------------------------------------------------
(* Properties *)

\* Types of what Upload keeps; the entangler's variables have a type invariant of theirs.
TypeOK ==
  /\ pc \in {"add", "tree", "load", "entangle", "merge", "strandTree", "pin", "metadata",
             "notify"} \cup Ended
  /\ faults \in 0..MaxFaults
  /\ sent \in 0..chunkNum /\ dataClosed \in BOOLEAN
  /\ storing \subseteq emitted /\ Range(parityChan) \subseteq emitted
  /\ \A k \in Strand : parityBlocks[k] \in [1..chunkNum -> SUBSET (1..chunkNum)]
  /\ strand \in 1..(Alpha + 1)
  /\ \A k \in Strand : asked[k] \subseteq Nodes(strandTree)
  /\ widest \in 0..MaxChildren(strandTree)
  /\ metaPin \in {"none", "pending", "pinned", "failed"}

\* A strand's file is merged from the parity of every block, each as its chain defines it:
\* no goroutine is still to store one, and none went missing between the channels.
MergedIsCode ==
  \A k \in Strand : merged[k] # <<>> => merged[k] = Codeword(k, chunkNum)

\* Below a node that could not be pinned nothing is: what is pinned of a strand can be
\* reached from its root over nodes that are.
PinnedFromRoot ==
  \A k \in Strand : \A n \in Inner(strandTree) :
    Range(strandTree.children[n]) \cap asked[k] # {} => n \in asked[k]

\* The trees a repair rebuilds from the metadata are those of the file and its strands, if
\* one strand at least was pinned whole: from part of a tree the most children of a node
\* may come out too few.
MetadataFits ==
  pc = "notify" =>
    /\ metadata.N = Size(metadata.L, metadata.K) /\ metadata.D = Depth(metadata.L, metadata.K)
    /\ Tree(metadata.L, metadata.K) = tree
    /\ (\E k \in Strand : asked[k] = Nodes(strandTree)) =>
          ParityTree(metadata.N, metadata.parityK) = strandTree

\* A repair looks for every node at the index at which the upload entangled it: the swaps
\* of GetFlattenedTree and of ConstructTree are the same permutation.
OrdersAgree == pc = "notify" => SameOrder(tree)

\* Upload returns, whatever fails, or ends the program, and the pin of the metadata is
\* known at some time: nobody waits for ever on a channel or a wait group.
UploadEnds == <>(pc \in Ended /\ metaPin # "pending")

\* Only a file of fewer blocks than a strand has chains makes the entangler panic.
OnlySmallFilesPanic == phase = "panic" => chunkNum < P
=============================================================================
