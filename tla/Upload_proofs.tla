----------------------------- MODULE Upload_proofs -----------------------------
(***************************************************************************)
(* What an upload does with the entangler: whatever order the goroutines   *)
(* store the parities in, a strand's file is merged from the whole of its  *)
(* chains; and what is pinned of a strand's tree hangs together, whatever  *)
(* call fails.  The entangler's own invariant is that of Entangler_proofs: *)
(* every step of the upload is a step of the entangler or none.            *)
(***************************************************************************)
EXTENDS Upload, MerkleTree_proofs

EP == INSTANCE Entangler_proofs WITH
  ChunkNums <- {BlocksOf(f) : f \in Files}, StrandSets <- {Strand}

-----------------------------------------------------------------------------
(* The trees of the files *)

LEMMA FilesBuilt ==
  ASSUME NEW f \in Files
  PROVE  /\ Buildable(f.leaves, f.fanout)
         /\ BlocksOf(f) \in Nat \ {0}
         /\ f.fanout \in Nat \ {1}
<1>1. f.leaves \in Nat \ {0} /\ f.fanout \in Nat \ {0, 1}
  BY UploadAssumption
<1>2. Buildable(f.leaves, f.fanout)
  BY <1>1 DEF Buildable
<1>3. Size(f.leaves, f.fanout) \in Nat \ {0}
  BY <1>2, ChildrenAre
<1> QED BY <1>1, <1>2, <1>3 DEF BlocksOf

\* The tree of a strand is a tree.
LEMMA FilesHaveTrees == FilesAreTrees
<1> SUFFICES ASSUME NEW f \in Files
             PROVE  BlocksOf(f) \in Nat \ {0} /\ IsTree(ParityTree(BlocksOf(f), f.fanout))
  BY DEF FilesAreTrees
<1>1. BlocksOf(f) \in Nat \ {0} /\ f.fanout \in Nat \ {1}
  BY FilesBuilt
<1>2. PICK k : /\ Buildable(ParityLeaves(BlocksOf(f)), k)
               /\ ParityTree(BlocksOf(f), f.fanout) = Tree(ParityLeaves(BlocksOf(f)), k)
  BY <1>1, ParityTreeIs
<1> QED BY <1>1, <1>2, BuiltIsTree

\* The trees can be built again from what the metadata record of them.
LEMMA FilesRebuild == TreesRebuild
<1> SUFFICES ASSUME NEW f \in Files PROVE Rebuilds(f)
  BY DEF TreesRebuild
<1> DEFINE t == Tree(f.leaves, f.fanout)
           st == ParityTree(BlocksOf(f), f.fanout)
           l == Cardinality(Leaves(t))
           k == MaxChildren(t)
<1>1. /\ Buildable(f.leaves, f.fanout) /\ BlocksOf(f) \in Nat \ {0}
      /\ f.fanout \in Nat \ {1}
  BY FilesBuilt
<1>2. Depth(l, k) = Depth(f.leaves, f.fanout) /\ Size(l, k) = t.size /\ Tree(l, k) = t
  BY <1>1, BuiltAgain
<1>3. t.size = BlocksOf(f)
  BY <1>1, ChildrenAre DEF BlocksOf
<1>4. ParityTree(BlocksOf(f), MaxChildren(st)) = st
  BY <1>1, StrandBuiltAgain
<1> HIDE DEF t, st, l, k
<1>5. /\ t.size = Size(l, k) /\ Depth(f.leaves, f.fanout) = Depth(l, k) /\ Tree(l, k) = t
      /\ ParityTree(t.size, MaxChildren(st)) = st
  BY <1>2, <1>3, <1>4
<1> QED BY <1>5 DEF Rebuilds, t, st, l, k

-----------------------------------------------------------------------------
(* The entangler of the upload is the one the theorems are about *)

LEMMA SameChainIndex ==
  \A i, k : E!ChainIndex(i, k) = EP!ChainIndex(i, k) /\ ChainIndex(i, k) = EP!ChainIndex(i, k)
BY DEF E!ChainIndex, EP!ChainIndex, ChainIndex, E!GoMod, EP!GoMod, GoMod,
       E!GoDiv, EP!GoDiv, GoDiv

LEMMA SameForward ==
  \A i, k : /\ E!ForwardNeighbor(i, k) = EP!ForwardNeighbor(i, k)
            /\ ForwardNeighbor(i, k) = EP!ForwardNeighbor(i, k)
BY DEF E!ForwardNeighbor, EP!ForwardNeighbor, ForwardNeighbor,
       E!PositionCategory, EP!PositionCategory, PositionCategory, E!GoMod, EP!GoMod, GoMod

LEMMA SameStart ==
  \A i, k : E!ChainStart(i, k) = EP!ChainStart(i, k) /\ ChainStart(i, k) = EP!ChainStart(i, k)
BY SameChainIndex DEF E!ChainStart, EP!ChainStart, ChainStart, E!GoMod, EP!GoMod, GoMod

LEMMA SameSets ==
  /\ E!Strand = EP!Strand /\ Strand = EP!Strand /\ E!NoParity = EP!NoParity
  /\ E!MaxChainNumPerStrand = EP!MaxChainNumPerStrand
  /\ \A k : E!Chains(k) = EP!Chains(k)
  /\ \A i, n : E!IsValidIndex(i, n) = EP!IsValidIndex(i, n)
BY DEF E!Strand, EP!Strand, Strand, E!NoParity, EP!NoParity,
       E!MaxChainNumPerStrand, EP!MaxChainNumPerStrand, E!Chains, EP!Chains,
       E!IsValidIndex, EP!IsValidIndex

LEMMA SameSymDiff ==
  \A a, b : E!SymDiff(a, b) = EP!SymDiff(a, b) /\ SymDiff(a, b) = EP!SymDiff(a, b)
BY DEF E!SymDiff, EP!SymDiff, SymDiff

LEMMA SameEntangled ==
  ASSUME NEW i, NEW k
  PROVE  E!Entangled(i, k) = EP!Entangled(i, k) /\ E!HeldBack(i, k) = EP!HeldBack(i, k)
BY SameChainIndex, SameForward, SameStart, SameSymDiff
   DEF E!Entangled, EP!Entangled, E!HeldBack, EP!HeldBack

LEMMA SameClosed ==
  ASSUME NEW last, NEW k
  PROVE  E!Closed(last, k) = EP!Closed(last, k)
BY SameStart, SameForward, SameSets, SameSymDiff DEF E!Closed, EP!Closed

LEMMA SameNextChain ==
  ASSUME NEW k, NEW c
  PROVE  E!NextChain(k, c) = EP!NextChain(k, c)
BY SameSets DEF E!NextChain, EP!NextChain

LEMMA SameInit == E!Init => EP!Init
BY SameSets DEF E!Init, EP!Init

LEMMA SameSteps ==
  /\ E!EntangleSingleBlock => EP!EntangleSingleBlock
  /\ E!DataEnds => EP!DataEnds
  /\ E!WrapChain => EP!WrapChain
  /\ E!CloseParities => EP!CloseParities
<1>1. E!EntangleSingleBlock => EP!EntangleSingleBlock
  BY SameChainIndex, SameSets, SameEntangled
     DEF E!EntangleSingleBlock, EP!EntangleSingleBlock
<1>2. E!DataEnds => EP!DataEnds
  BY DEF E!DataEnds, EP!DataEnds
<1>3. E!WrapChain => EP!WrapChain
  BY SameStart, SameSets, SameClosed, SameNextChain DEF E!WrapChain, EP!WrapChain
<1>4. E!CloseParities => EP!CloseParities
  BY SameSets DEF E!CloseParities, EP!CloseParities
<1> QED BY <1>1, <1>2, <1>3, <1>4

LEMMA Assumed ==
  EP!PositionsAssumption /\ EP!EntanglerAssumption
<1>1. EP!PositionsAssumption
  BY PositionsAssumption DEF EP!PositionsAssumption
<1>2. EP!EntanglerAssumption
  BY SameSets, FilesHaveTrees DEF FilesAreTrees, EP!EntanglerAssumption
<1> QED BY <1>1, <1>2

\* A step of the upload is a step of the entangler, or the entangler takes none.
LEMMA EntanglerSteps ==
  ASSUME [Next]_vars
  PROVE  [EP!Next]_(EP!vars)
<1>1. CASE Entangle
  BY <1>1, SameSteps DEF Entangle, EP!Next
<1>2. CASE ~Entangle
  <2>1. UNCHANGED tangler
    BY <1>2 DEF Next, vars, Main, Feed, StoreOne, AddFile, GetMerkleTree, LoadData,
         EntanglerPanics, Receive, EntanglementReady, MergeStrand, GetStrandTree, PinNode,
         StrandPinned, AddMetadata, Notify, Send, CloseData, Store, PinMetadata
  <2> QED BY <2>1 DEF tangler, EP!vars
<1> QED BY <1>1, <1>2

LEMMA EntanglerTypes ==
  /\ Init => EP!TypeInv
  /\ EP!TypeInv /\ [Next]_vars => EP!TypeInv'
<1>0. EP!PositionsAssumption /\ EP!EntanglerAssumption
  BY Assumed
<1>1. Init => EP!TypeInv
  BY <1>0, EP!InitType, SameInit DEF Init
<1>2. EP!TypeInv /\ [Next]_vars => EP!TypeInv'
  BY <1>0, EP!StepType, EntanglerSteps
<1> QED BY <1>1, <1>2

LEMMA EntanglerInvariant ==
  ASSUME EP!Square
  PROVE  /\ Init => EP!EntInv
         /\ EP!EntInv /\ [Next]_vars => EP!EntInv'
<1>0. EP!PositionsAssumption /\ EP!EntanglerAssumption
  BY Assumed
<1>1. Init => EP!EntInv
  BY <1>0, EP!InitEnt, SameInit DEF Init
<1>2. EP!EntInv /\ [Next]_vars => EP!EntInv'
  BY <1>0, EP!StepEnt, EntanglerSteps
<1> QED BY <1>1, <1>2

-----------------------------------------------------------------------------
(* Sequences *)

LEMMA RangeOfConcat ==
  ASSUME NEW T, NEW s \in Seq(T), NEW t \in Seq(T)
  PROVE  s \o t \in Seq(T) /\ Range(s \o t) = Range(s) \cup Range(t)
<1>1. s \o t \in Seq(T)
  OBVIOUS
<1>2. ASSUME NEW x \in Range(s \o t) PROVE x \in Range(s) \cup Range(t)
  <2>1. PICK i \in 1..(Len(s) + Len(t)) : x = (s \o t)[i]
    BY <1>2 DEF Range
  <2>2. CASE i <= Len(s)
    BY <2>1, <2>2 DEF Range
  <2>3. CASE i > Len(s)
    <3>1. x = t[i - Len(s)] /\ i - Len(s) \in 1..Len(t)
      BY <2>1, <2>3
    <3> QED BY <3>1 DEF Range
  <2> QED BY <2>1, <2>2, <2>3
<1>3. ASSUME NEW x \in Range(s) PROVE x \in Range(s \o t)
  <2>1. PICK i \in 1..Len(s) : x = s[i]
    BY DEF Range
  <2>2. i \in 1..(Len(s) + Len(t)) /\ x = (s \o t)[i]
    BY <2>1
  <2> QED BY <2>2 DEF Range
<1>4. ASSUME NEW x \in Range(t) PROVE x \in Range(s \o t)
  <2>1. PICK i \in 1..Len(t) : x = t[i]
    BY DEF Range
  <2>2. Len(s) + i \in 1..(Len(s) + Len(t)) /\ x = (s \o t)[Len(s) + i]
    BY <2>1
  <2> QED BY <2>2 DEF Range
<1> QED BY <1>1, <1>2, <1>3, <1>4

LEMMA RangeOfTail ==
  ASSUME NEW T, NEW s \in Seq(T), s # <<>>
  PROVE  /\ Head(s) \in T /\ Tail(s) \in Seq(T)
         /\ Range(s) = {Head(s)} \cup Range(Tail(s))
<1>1. Head(s) \in T /\ Tail(s) \in Seq(T) /\ Len(s) \in Nat \ {0}
  OBVIOUS
<1>2. ASSUME NEW x \in Range(s) PROVE x \in {Head(s)} \cup Range(Tail(s))
  <2>1. PICK i \in 1..Len(s) : x = s[i]
    BY DEF Range
  <2>2. CASE i = 1
    BY <2>1, <2>2
  <2>3. CASE i # 1
    <3>1. i - 1 \in 1..Len(Tail(s)) /\ x = Tail(s)[i - 1]
      BY <1>1, <2>1, <2>3
    <3>2. DOMAIN Tail(s) = 1..Len(Tail(s))
      BY <1>1
    <3>3. Tail(s)[i - 1] \in Range(Tail(s))
      BY <3>1, <3>2 DEF Range
    <3> QED BY <3>1, <3>3
  <2> QED BY <2>2, <2>3
<1>3. Head(s) \in Range(s)
  BY <1>1 DEF Range
<1>4. ASSUME NEW x \in Range(Tail(s)) PROVE x \in Range(s)
  <2>1. PICK i \in 1..Len(Tail(s)) : x = Tail(s)[i]
    BY <1>1 DEF Range
  <2>2. i + 1 \in 1..Len(s) /\ x = s[i + 1]
    BY <1>1, <2>1
  <2> QED BY <2>2 DEF Range
<1> QED BY <1>1, <1>2, <1>3, <1>4

LEMMA InSeqOfRange ==
  ASSUME NEW T, NEW s \in Seq(T)
  PROVE  Range(s) \subseteq T
BY DEF Range

LEMMA MaxOfTwo ==
  ASSUME NEW a \in Nat, NEW b \in Nat
  PROVE  Max({a, b}) = IF a >= b THEN a ELSE b
<1>1. CASE a >= b
  <2>1. a \in {a, b} /\ \A y \in {a, b} : a >= y
    BY <1>1
  <2>2. \A x \in {a, b} : (\A y \in {a, b} : x >= y) => x = a
    BY <1>1
  <2> QED BY <1>1, <2>1, <2>2 DEF Max
<1>2. CASE ~(a >= b)
  <2>1. b \in {a, b} /\ \A y \in {a, b} : b >= y
    BY <1>2
  <2>2. \A x \in {a, b} : (\A y \in {a, b} : x >= y) => x = b
    BY <1>2
  <2> QED BY <1>2, <2>1, <2>2 DEF Max
<1> QED BY <1>1, <1>2

-----------------------------------------------------------------------------
(* The pins *)

\* What is on the stack of the walk hangs on what was pinned.
Hanging ==
  \A n \in Inner(strandTree) :
    Range(strandTree.children[n]) \cap Range(stack) # {} => n \in asked[strand]

Early == {"add", "tree", "load", "entangle", "merge", "strandTree"}

PinInv ==
  /\ IsTree(strandTree)
  /\ pc \in Early \cup {"pin", "metadata", "notify"} \cup Ended
  /\ strand \in 1..(Alpha + 1)
  /\ pc \in Early \cup {"pin"} => strand \in Strand
  /\ asked \in [Strand -> SUBSET Nodes(strandTree)]
  /\ stack \in Seq(Nodes(strandTree))
  /\ widest \in 0..MaxChildren(strandTree)
  /\ PinnedFromRoot
  /\ pc = "pin" => Hanging

LEMMA InitPins == Init => PinInv
<1> SUFFICES ASSUME Init PROVE PinInv
  OBVIOUS
<1>1. PICK f \in Files :
        file = [leaves |-> f.leaves, fanout |-> f.fanout, tree |-> Tree(f.leaves, f.fanout),
                strandTree |-> ParityTree(BlocksOf(f), f.fanout)]
  BY DEF Init
<1>2. IsTree(strandTree)
  BY <1>1, FilesHaveTrees DEF FilesAreTrees, strandTree
<1>3. PinnedFromRoot
  BY DEF PinnedFromRoot, Init
<1>4. strand \in Strand /\ strand \in 1..(Alpha + 1)
  BY PositionsAssumption DEF Init, Strand
<1>5. MaxChildren(strandTree) \in Nat
  BY <1>2 DEF IsTree
<1> QED BY <1>2, <1>3, <1>4, <1>5 DEF PinInv, Init, Early

LEMMA StepPins == PinInv /\ [Next]_vars => PinInv'
<1> SUFFICES ASSUME PinInv, [Next]_vars PROVE PinInv'
  OBVIOUS
<1>0. file' = file /\ strandTree' = strandTree
  BY DEF Next, vars, Main, Feed, StoreOne, AddFile, GetMerkleTree, LoadData,
     EntanglerPanics, Receive, EntanglementReady, MergeStrand, GetStrandTree, PinNode,
     StrandPinned, AddMetadata, Notify, Send, CloseData, Store, PinMetadata, Entangle,
     strandTree
<1>1. ASSUME UNCHANGED <<pc, pins>> PROVE PinInv'
  BY <1>0, <1>1 DEF PinInv, pins, PinnedFromRoot, Hanging
<1>2. ASSUME UNCHANGED <<strand, stack, asked, widest>>,
             pc' \in Early \cup {"metadata", "notify"} \cup Ended, pc' \in Early => pc \in Early
      PROVE  PinInv'
  <2>1. pc' # "pin"
    BY <1>2 DEF Early, Ended
  <2> QED BY <1>0, <1>2, <2>1 DEF PinInv, PinnedFromRoot
<1>3. CASE PinNode
  <2> DEFINE t == strandTree
             m == Head(stack)
  <2>1. pc = "pin" /\ pc' = pc /\ stack # <<>> /\ strand' = strand /\ strand \in Strand
    BY <1>3 DEF PinNode, PinInv
  <2>2. /\ m \in Nodes(t) /\ Tail(stack) \in Seq(Nodes(t))
        /\ Range(stack) = {m} \cup Range(Tail(stack))
    BY <2>1, RangeOfTail DEF PinInv
  <2>3. /\ Hanging /\ PinnedFromRoot /\ IsTree(t) /\ asked \in [Strand -> SUBSET Nodes(t)]
        /\ widest \in 0..MaxChildren(t)
    BY <2>1 DEF PinInv
  <2>4. CASE asked' = [asked EXCEPT ![strand] = @ \cup {m}] /\ widest' = Widest(m)
             /\ stack' = t.children[m] \o Tail(stack)
    <3>1. t.children[m] \in Seq(Nodes(t) \ {0}) /\ t.children[m] \in Seq(Nodes(t))
      BY <2>2, <2>3 DEF IsTree
    <3>2. stack' \in Seq(Nodes(t)) /\ Range(stack') = Range(t.children[m]) \cup Range(Tail(stack))
      <4>1. PICK c, s : c = t.children[m] /\ s = Tail(stack)
        OBVIOUS
      <4>2. c \o s \in Seq(Nodes(t)) /\ Range(c \o s) = Range(c) \cup Range(s)
        BY <2>2, <3>1, <4>1, RangeOfConcat, ZenonT(30)
      <4> QED BY <2>4, <4>1, <4>2
    <3>3. widest' \in 0..MaxChildren(t)
      <4>1. /\ Len(t.children[m]) \in Nat /\ Len(t.children[m]) <= MaxChildren(t)
            /\ MaxChildren(t) \in Nat
        BY <2>2, <2>3, <3>1 DEF IsTree
      <4> QED BY <2>3, <2>4, <4>1, MaxOfTwo DEF Widest
    <3>4. asked' \in [Strand -> SUBSET Nodes(t)]
      BY <2>1, <2>2, <2>3, <2>4
    <3>5. ASSUME NEW n \in Inner(t), Range(t.children[n]) \cap Range(stack') # {}
          PROVE  n \in asked'[strand]
      <4>1. CASE Range(t.children[n]) \cap Range(t.children[m]) # {}
        <5>1. n = m
          BY <2>2, <2>3, <4>1 DEF IsTree, Inner
        <5> QED BY <2>1, <2>3, <2>4, <5>1
      <4>2. CASE Range(t.children[n]) \cap Range(Tail(stack)) # {}
        <5>1. n \in asked[strand]
          BY <2>2, <2>3, <4>2 DEF Hanging
        <5> QED BY <2>1, <2>3, <2>4, <5>1
      <4> QED BY <3>2, <3>5, <4>1, <4>2
    <3>6. ASSUME NEW k \in Strand, NEW n \in Inner(t), Range(t.children[n]) \cap asked'[k] # {}
          PROVE  n \in asked'[k]
      <4>1. CASE k = strand
        <5>1. asked'[k] = asked[k] \cup {m}
          BY <2>3, <2>4, <4>1
        <5>2. CASE Range(t.children[n]) \cap asked[k] # {}
          BY <2>3, <5>1, <5>2 DEF PinnedFromRoot
        <5>3. CASE m \in Range(t.children[n])
          BY <2>2, <2>3, <4>1, <5>1, <5>3 DEF Hanging
        <5> QED BY <3>6, <5>1, <5>2, <5>3
      <4>2. CASE k # strand
        <5>1. asked'[k] = asked[k]
          BY <2>3, <2>4, <4>2
        <5> QED BY <2>3, <3>6, <5>1 DEF PinnedFromRoot
      <4> QED BY <4>1, <4>2
    <3>7. PinnedFromRoot' /\ Hanging'
      BY <1>0, <2>1, <3>5, <3>6 DEF PinnedFromRoot, Hanging
    <3> QED BY <1>0, <2>1, <3>2, <3>3, <3>4, <3>7 DEF PinInv
  <2>5. CASE stack' = Tail(stack) /\ UNCHANGED <<asked, widest>>
    <3>1. Hanging' /\ PinnedFromRoot'
      BY <1>0, <2>1, <2>2, <2>3, <2>5 DEF Hanging, PinnedFromRoot
    <3> QED BY <1>0, <2>1, <2>2, <2>5, <3>1 DEF PinInv
  <2> QED BY <1>3, <2>4, <2>5 DEF PinNode, Skipped
<1>4. CASE StrandPinned
  <2>1. /\ strand \in Strand /\ strand' = strand + 1 /\ UNCHANGED <<asked, stack, widest>>
        /\ pc' = IF strand = Alpha THEN "metadata" ELSE "merge"
    BY <1>4 DEF StrandPinned, PinInv
  <2>2. strand' \in 1..(Alpha + 1) /\ (pc' \in Early \cup {"pin"} => strand' \in Strand)
    BY <2>1, PositionsAssumption DEF Strand, Early
  <2>3. PinnedFromRoot'
    BY <1>0, <2>1 DEF PinInv, PinnedFromRoot
  <2> QED BY <1>0, <2>1, <2>2, <2>3 DEF PinInv, Early
<1>5. CASE GetStrandTree
  <2>1. /\ strand \in Strand /\ stack' = <<0>> /\ UNCHANGED <<strand, asked, widest>>
        /\ pc' \in {"pin", "error"}
    BY <1>5 DEF GetStrandTree, Call, PinInv, Early
  <2>2. 0 \in Nodes(strandTree) /\ stack' \in Seq(Nodes(strandTree)) /\ Range(stack') = {0}
    BY <2>1 DEF PinInv, IsTree, Nodes, Range
  <2>3. \A n \in Inner(strandTree) : 0 \notin Range(strandTree.children[n])
    <3>1. \A n \in Inner(strandTree) : strandTree.children[n] \in Seq(Nodes(strandTree) \ {0})
      BY DEF PinInv, IsTree, Inner
    <3> QED BY <3>1, InSeqOfRange
  <2>4. PinnedFromRoot' /\ Hanging'
    BY <1>0, <2>1, <2>2, <2>3 DEF PinInv, PinnedFromRoot, Hanging
  <2> QED BY <1>0, <2>1, <2>2, <2>4 DEF PinInv, Ended
<1>6. CASE AddFile \/ GetMerkleTree \/ LoadData \/ EntanglerPanics \/ EntanglementReady
           \/ MergeStrand \/ AddMetadata \/ Notify
  BY <1>2, <1>6 DEF AddFile, GetMerkleTree, LoadData, EntanglerPanics, EntanglementReady,
     MergeStrand, AddMetadata, Notify, Call, pins, Early, Ended
<1>7. CASE Receive \/ Feed \/ Entangle \/ StoreOne \/ PinMetadata \/ UNCHANGED vars
  BY <1>1, <1>7 DEF Receive, Feed, Send, CloseData, Entangle, StoreOne, Store, PinMetadata,
     vars
<1> QED BY <1>3, <1>4, <1>5, <1>6, <1>7 DEF Next, Main

\* Below a node that could not be pinned nothing is, whatever the trees and whichever calls
\* fail: the walk asks for a node only when it was asked for its parent.
THEOREM PinsHangTogether ==
  Spec => []PinnedFromRoot
<1>1. Init => PinInv
  BY InitPins
<1>2. PinInv => PinnedFromRoot
  BY DEF PinInv
<1> QED BY <1>1, <1>2, StepPins, PTL DEF Spec

-----------------------------------------------------------------------------
(* The parities on their way *)

Parities == EP!Parity(chunkNum)

FlowInv ==
  /\ sent \in 0..chunkNum /\ dataClosed \in BOOLEAN /\ faults \in 0..MaxFaults
  /\ metaPin \in {"none", "pending", "pinned", "failed"}
  /\ parityChan \in Seq(Parities)
  /\ storing \subseteq emitted /\ Range(parityChan) \subseteq emitted
  /\ parityBlocks \in [Strand -> [1..chunkNum -> SUBSET (1..chunkNum)]]

\* What the entangler sends in one step, for the strands 1 to 3.
NewOn(k) == {b \in emitted' \ emitted : b.strand = k}

LEMMA NewAreEmitted ==
  ASSUME emitted' \subseteq Parities
  PROVE  /\ NewParities \in Seq(Parities)
         /\ Range(NewParities) \subseteq emitted' \ emitted
         /\ \A k \in 1..3 : NewOn(k) # {} => \E b \in NewOn(k) : b \in Range(NewParities)
<1> DEFINE one(k) == IF NewOn(k) = {} THEN <<>> ELSE <<CHOOSE b \in NewOn(k) : TRUE>>
<1>1. ASSUME NEW k \in 1..3
      PROVE  /\ one(k) \in Seq(Parities) /\ Range(one(k)) \subseteq emitted' \ emitted
             /\ NewOn(k) # {} => \E b \in NewOn(k) : b \in Range(one(k))
  <2>1. CASE NewOn(k) = {}
    BY <2>1 DEF Range
  <2>2. CASE NewOn(k) # {}
    <3>1. PICK b : b = CHOOSE x \in NewOn(k) : TRUE
      OBVIOUS
    <3>2. b \in NewOn(k)
      BY <2>2, <3>1
    <3>3. b \in emitted' \ emitted /\ b \in Parities
      BY <3>2 DEF NewOn
    <3>4. one(k) = <<b>>
      BY <2>2, <3>1
    <3> HIDE DEF one
    <3>5. one(k) \in Seq(Parities) /\ Range(one(k)) = {b}
      BY <3>3, <3>4 DEF Range
    <3> QED BY <3>2, <3>3, <3>5
  <2> QED BY <2>1, <2>2
<1>2. NewParities = one(1) \o one(2) \o one(3)
  BY DEF NewParities, NewOn
<1> HIDE DEF one
<1>3. one(1) \o one(2) \in Seq(Parities) /\ Range(one(1) \o one(2)) = Range(one(1)) \cup Range(one(2))
  BY <1>1, RangeOfConcat
<1>4. /\ NewParities \in Seq(Parities)
      /\ Range(NewParities) = Range(one(1)) \cup Range(one(2)) \cup Range(one(3))
  <2>1. PICK s : s = one(1) \o one(2)
    OBVIOUS
  <2>2. s \in Seq(Parities) /\ one(3) \in Seq(Parities)
    BY <1>1, <1>3, <2>1
  <2>3. s \o one(3) \in Seq(Parities) /\ Range(s \o one(3)) = Range(s) \cup Range(one(3))
    BY <2>2, RangeOfConcat
  <2> QED BY <1>2, <1>3, <2>1, <2>3
<1> QED BY <1>1, <1>4

LEMMA InitFlow == Init => FlowInv
<1> SUFFICES ASSUME Init PROVE FlowInv
  OBVIOUS
<1>1. PICK f \in Files :
        file = [leaves |-> f.leaves, fanout |-> f.fanout, tree |-> Tree(f.leaves, f.fanout),
                strandTree |-> ParityTree(BlocksOf(f), f.fanout)]
  BY DEF Init
<1>2. BlocksOf(file) = BlocksOf(f)
  BY <1>1 DEF BlocksOf
<1>3. chunkNum \in Nat \ {0}
  BY <1>2, FilesHaveTrees DEF Init, FilesAreTrees
<1>4. emitted = {}
  BY DEF Init, E!Init
<1>5. parityChan \in Seq(Parities) /\ Range(parityChan) = {}
  BY DEF Init, Range
<1>6. MaxFaults \in Nat
  BY UploadAssumption
<1>7. parityBlocks \in [Strand -> [1..chunkNum -> SUBSET (1..chunkNum)]]
  BY DEF Init
<1>8. /\ sent = 0 /\ dataClosed = FALSE /\ faults = 0 /\ metaPin = "none" /\ storing = {}
  BY DEF Init
<1>9. sent \in 0..chunkNum /\ faults \in 0..MaxFaults
  BY <1>3, <1>6, <1>8
<1>10. storing \subseteq emitted /\ Range(parityChan) \subseteq emitted
  BY <1>4, <1>5, <1>8
<1> QED BY <1>5, <1>7, <1>8, <1>9, <1>10 DEF FlowInv

LEMMA StepFlow ==
  ASSUME EP!TypeInv, EP!TypeInv', FlowInv, [Next]_vars
  PROVE  FlowInv'
<1>0. chunkNum' = chunkNum /\ Parities' = Parities /\ emitted \subseteq emitted'
  <2>1. CASE Entangle
    BY <2>1 DEF Entangle, E!EntangleSingleBlock, E!DataEnds, E!WrapChain, E!CloseParities,
       Parities, EP!Parity
  <2>2. CASE ~Entangle
    <3>1. UNCHANGED tangler
      BY <2>2 DEF Next, vars, Main, Feed, StoreOne, AddFile, GetMerkleTree, LoadData,
         EntanglerPanics, Receive, EntanglementReady, MergeStrand, GetStrandTree, PinNode,
         StrandPinned, AddMetadata, Notify, Send, CloseData, Store, PinMetadata
    <3> QED BY <3>1 DEF tangler, Parities, EP!Parity
  <2> QED BY <2>1, <2>2
<1>1. faults' \in 0..MaxFaults
  <2>1. faults' = faults \/ Fault
    BY DEF Next, vars, Main, Feed, StoreOne, AddFile, GetMerkleTree, LoadData, Call, NoFault,
       EntanglerPanics, Receive, EntanglementReady, MergeStrand, GetStrandTree, PinNode,
       StrandPinned, AddMetadata, Notify, Send, CloseData, Store, PinMetadata, Entangle
  <2> QED BY <2>1, UploadAssumption DEF Fault, FlowInv
<1>2. metaPin' \in {"none", "pending", "pinned", "failed"}
  BY DEF FlowInv, Next, vars, Main, Feed, StoreOne, AddFile, GetMerkleTree, LoadData,
     EntanglerPanics, Receive, EntanglementReady, MergeStrand, GetStrandTree, PinNode,
     StrandPinned, AddMetadata, Notify, Send, CloseData, Store, PinMetadata, Entangle
<1>3. ASSUME UNCHANGED pipe, UNCHANGED emitted PROVE FlowInv'
  BY <1>0, <1>1, <1>2, <1>3 DEF FlowInv, pipe
<1>4. CASE Feed
  <2>1. sent' \in 0..chunkNum /\ dataClosed' \in BOOLEAN
    <3>1. chunkNum \in Nat
      BY FilesHaveTrees DEF EP!TypeInv, FilesAreTrees
    <3>2. CASE Send
      BY <3>1, <3>2 DEF Send, FlowInv
    <3>3. CASE CloseData
      BY <3>3 DEF CloseData, FlowInv
    <3> QED BY <1>4, <3>2, <3>3 DEF Feed
  <2>2. UNCHANGED <<parityChan, storing, parityBlocks>> /\ UNCHANGED tangler
    BY <1>4 DEF Feed, Send, CloseData
  <2> QED BY <1>0, <1>1, <1>2, <2>1, <2>2 DEF FlowInv, tangler
<1>5. CASE Entangle
  <2>1. /\ parityChan' = parityChan \o NewParities
        /\ UNCHANGED <<sent, dataClosed, storing, parityBlocks>>
    BY <1>5 DEF Entangle
  <2>2. emitted' \subseteq Parities
    BY <1>0 DEF EP!TypeInv, Parities
  <2>3. NewParities \in Seq(Parities) /\ Range(NewParities) \subseteq emitted'
    BY <2>2, NewAreEmitted
  <2>4. parityChan' \in Seq(Parities) /\ Range(parityChan') = Range(parityChan) \cup Range(NewParities)
    BY <2>1, <2>3, RangeOfConcat DEF FlowInv
  <2> QED BY <1>0, <1>1, <1>2, <2>1, <2>3, <2>4 DEF FlowInv
<1>6. CASE Receive
  <2>1. /\ parityChan # <<>> /\ parityChan' = Tail(parityChan)
        /\ storing' = storing \cup {Head(parityChan)}
        /\ UNCHANGED <<sent, dataClosed, parityBlocks>> /\ UNCHANGED tangler
    BY <1>6 DEF Receive
  <2>2. /\ Tail(parityChan) \in Seq(Parities)
        /\ Range(parityChan) = {Head(parityChan)} \cup Range(Tail(parityChan))
    BY <2>1, RangeOfTail DEF FlowInv
  <2> QED BY <1>0, <1>1, <1>2, <2>1, <2>2 DEF FlowInv, tangler
<1>7. CASE StoreOne
  <2>1. PICK b \in storing : Store(b)
    BY <1>7 DEF StoreOne
  <2>2. b \in Parities
    BY <2>1 DEF FlowInv, EP!TypeInv, Parities
  <2>3. b.data \in SUBSET (1..chunkNum)
    BY <2>2 DEF Parities, EP!Parity
  <2>4. parityBlocks' \in [Strand -> [1..chunkNum -> SUBSET (1..chunkNum)]]
    BY <2>1, <2>3 DEF Store, FlowInv
  <2>5. storing' \subseteq emitted /\ UNCHANGED <<sent, dataClosed, parityChan>> /\ UNCHANGED tangler
    BY <2>1 DEF Store, FlowInv
  <2> QED BY <1>0, <1>1, <1>2, <2>4, <2>5 DEF FlowInv, tangler
<1>8. CASE PinMetadata \/ UNCHANGED vars
  BY <1>3, <1>8 DEF PinMetadata, tangler, vars
<1>9. CASE Main /\ ~Receive
  BY <1>3, <1>9 DEF Main, AddFile, GetMerkleTree, LoadData,
     EntanglerPanics, EntanglementReady, MergeStrand, GetStrandTree, PinNode,
     StrandPinned, AddMetadata, Notify, tangler
<1> QED BY <1>4, <1>5, <1>6, <1>7, <1>8, <1>9 DEF Next

\* Every variable of an upload keeps to its type, whatever calls fail and whatever order
\* the goroutines run in; what is stored is what the entangler sent.
THEOREM TypeCorrect ==
  Spec => []TypeOK
<1> DEFINE Inv == EP!TypeInv /\ PinInv /\ FlowInv
<1>1. Init => Inv
  BY EntanglerTypes, InitPins, InitFlow
<1>2. Inv /\ [Next]_vars => Inv'
  BY EntanglerTypes, StepPins, StepFlow
<1>3. Inv => TypeOK
  BY DEF PinInv, FlowInv, TypeOK, Early
<1> QED BY <1>1, <1>2, <1>3, PTL DEF Spec

-----------------------------------------------------------------------------
(* What the strands' files are merged from *)

\* No parity is lost between the channel and the table: the goroutines store what was sent.
StoredInv ==
  \A b \in emitted :
    b \in storing \/ b \in Range(parityChan) \/ parityBlocks[b.strand][b.left] = b.data

\* The strands are merged when nothing is on its way any more, and stay as they were.
MergeInv ==
  /\ pc \in {"merge", "strandTree", "pin", "metadata", "notify"} => AllStored
  /\ pc \in {"add", "tree", "load", "entangle"} => \A k \in Strand : merged[k] = <<>>
  /\ DOMAIN merged = Strand
  /\ \A k \in Strand : merged[k] # <<>> => AllStored /\ merged[k] = parityBlocks[k]

LEMMA InitStored == Init => StoredInv /\ MergeInv
BY DEF Init, E!Init, StoredInv, MergeInv

\* A strand gets one parity at most in a step of the entangler.
LEMMA OneOfStrand ==
  ASSUME Entangle, NEW a \in emitted' \ emitted, NEW b \in emitted' \ emitted,
         a.strand = b.strand
  PROVE  a = b
<1>1. CASE E!EntangleSingleBlock
  <2>1. \A k : E!Entangled(index + 1, k).strand = k
    BY DEF E!Entangled
  <2>2. \A x \in emitted' \ emitted : \E k : x = E!Entangled(index + 1, k)
    BY <1>1 DEF E!EntangleSingleBlock
  <2> QED BY <2>1, <2>2
<1>2. CASE E!WrapChain
  BY <1>2 DEF E!WrapChain
<1>3. CASE E!DataEnds \/ E!CloseParities
  BY <1>3 DEF E!DataEnds, E!CloseParities
<1> QED BY <1>1, <1>2, <1>3 DEF Entangle

LEMMA StepStored ==
  ASSUME EP!EntInv, EP!EntInv', FlowInv, StoredInv, [Next]_vars
  PROVE  StoredInv'
<1>0. /\ EP!TypeInv /\ EP!TypeInv' /\ EP!OneMade /\ EP!AllMade'
      /\ \A k \in 1..Alpha : k \in 1..3
  BY PositionsAssumption DEF EP!EntInv
<1>1. CASE Entangle
  <2>1. parityChan' = parityChan \o NewParities /\ UNCHANGED <<storing, parityBlocks>>
    BY <1>1 DEF Entangle
  <2>2. emitted' \subseteq Parities
    <3>1. chunkNum' = chunkNum
      BY <1>1 DEF Entangle, E!EntangleSingleBlock, E!DataEnds, E!WrapChain, E!CloseParities
    <3> QED BY <1>0, <3>1 DEF EP!TypeInv, Parities
  <2>3. /\ NewParities \in Seq(Parities)
        /\ \A k \in 1..3 : NewOn(k) # {} => \E b \in NewOn(k) : b \in Range(NewParities)
    BY <2>2, NewAreEmitted
  <2>4. Range(parityChan') = Range(parityChan) \cup Range(NewParities)
    BY <2>1, <2>3, RangeOfConcat DEF FlowInv
  <2>5. ASSUME NEW b \in emitted' \ emitted PROVE b \in Range(NewParities)
    <3>1. b.strand \in 1..3
      <4>1. b.strand \in strands'
        BY <1>0 DEF EP!AllMade, EP!ParityMade
      <4>2. strands' \subseteq Strand
        BY <1>0, SameSets DEF EP!TypeInv
      <4> QED BY <1>0, <4>1, <4>2 DEF Strand
    <3>2. b \in NewOn(b.strand)
      BY DEF NewOn
    <3>3. PICK a \in NewOn(b.strand) : a \in Range(NewParities)
      BY <2>3, <3>1, <3>2
    <3>4. a = b
      BY <1>1, <3>3, OneOfStrand DEF NewOn
    <3> QED BY <3>3, <3>4
  <2> QED BY <2>1, <2>4, <2>5 DEF StoredInv
<1>2. CASE Receive
  <2>1. /\ parityChan # <<>> /\ parityChan' = Tail(parityChan)
        /\ storing' = storing \cup {Head(parityChan)}
        /\ UNCHANGED parityBlocks /\ UNCHANGED emitted
    BY <1>2 DEF Receive, tangler
  <2>2. Range(parityChan) = {Head(parityChan)} \cup Range(Tail(parityChan))
    BY <2>1, RangeOfTail DEF FlowInv
  <2> QED BY <2>1, <2>2 DEF StoredInv
<1>3. CASE StoreOne
  <2>1. PICK s \in storing : Store(s)
    BY <1>3 DEF StoreOne
  <2>2. /\ storing' = storing \ {s} /\ UNCHANGED parityChan /\ UNCHANGED emitted
        /\ parityBlocks' = [parityBlocks EXCEPT ![s.strand][s.left] = s.data]
    BY <2>1 DEF Store, tangler
  <2> SUFFICES ASSUME NEW b \in emitted
               PROVE  \/ b \in storing' \/ b \in Range(parityChan')
                      \/ parityBlocks'[b.strand][b.left] = b.data
    BY <2>2 DEF StoredInv
  <2>3. CASE b = s
    <3>1. s.strand \in Strand /\ s.left \in 1..chunkNum
      <4>1. s \in emitted /\ EP!AllMade
        BY <2>1 DEF FlowInv, EP!EntInv
      <4>2. s.strand \in strands /\ s.left \in 1..index
        BY <4>1 DEF EP!AllMade, EP!ParityMade
      <4>3. strands \subseteq Strand /\ index \in 0..chunkNum /\ chunkNum \in Nat
        BY <1>0, SameSets, FilesHaveTrees DEF EP!TypeInv, FilesAreTrees
      <4> QED BY <4>2, <4>3
    <3>2. parityBlocks'[s.strand][s.left] = s.data
      BY <2>2, <3>1 DEF FlowInv
    <3> QED BY <2>3, <3>2
  <2>4. CASE b # s
    <3>1. ~(b.strand = s.strand /\ b.left = s.left)
      BY <1>0, <2>1, <2>4 DEF FlowInv, EP!OneMade
    <3>2. parityBlocks'[b.strand][b.left] = parityBlocks[b.strand][b.left]
      <4>1. b.strand \in Strand /\ s.strand \in Strand
        <5>1. EP!AllMade /\ s \in emitted
          BY <2>1 DEF EP!EntInv, FlowInv
        <5> QED BY <1>0, <5>1, SameSets DEF EP!AllMade, EP!ParityMade, EP!TypeInv
      <4>2. CASE b.strand = s.strand
        BY <2>2, <3>1, <4>1, <4>2 DEF FlowInv
      <4>3. CASE b.strand # s.strand
        BY <2>2, <4>1, <4>3 DEF FlowInv
      <4> QED BY <4>2, <4>3
    <3> QED BY <2>2, <2>4, <3>2 DEF StoredInv
  <2> QED BY <2>3, <2>4
<1>4. CASE UNCHANGED <<emitted, storing, parityChan, parityBlocks>>
  BY <1>4 DEF StoredInv
<1>5. CASE Feed \/ PinMetadata \/ UNCHANGED vars \/ (Main /\ ~Receive)
  <2>1. UNCHANGED <<emitted, storing, parityChan, parityBlocks>>
    BY <1>5 DEF Feed, Send, CloseData, PinMetadata, vars, Main, AddFile, GetMerkleTree,
       LoadData, EntanglerPanics, EntanglementReady, MergeStrand, GetStrandTree, PinNode,
       StrandPinned, AddMetadata, Notify, tangler, pipe
  <2> QED BY <1>4, <2>1
<1> QED BY <1>1, <1>2, <1>3, <1>5 DEF Next

LEMMA StepMerge ==
  ASSUME MergeInv, [Next]_vars
  PROVE  MergeInv'
<1>1. CASE MergeStrand
  <2>1. /\ pc = "merge" /\ pc' \in {"strandTree", "error"}
        /\ merged' = [merged EXCEPT ![strand] = parityBlocks[strand]]
        /\ UNCHANGED parityBlocks /\ AllStored' = AllStored
    BY <1>1 DEF MergeStrand, Call, AllStored, tangler, pipe
  <2>2. AllStored
    BY <2>1 DEF MergeInv
  <2>3. DOMAIN merged' = Strand
    BY <2>1 DEF MergeInv
  <2>4. \A k \in Strand : merged'[k] = IF k = strand THEN parityBlocks[k] ELSE merged[k]
    BY <2>1 DEF MergeInv
  <2> QED BY <2>1, <2>2, <2>3, <2>4 DEF MergeInv
<1>2. CASE pc = "entangle" /\ UNCHANGED merged /\ pc' = pc
  BY <1>2 DEF MergeInv
<1>3. CASE Send \/ CloseData \/ Entangle \/ Receive
  BY <1>2, <1>3 DEF Send, CloseData, Entangle, Receive, pins
<1>4. CASE EntanglementReady
  BY <1>4 DEF EntanglementReady, MergeInv, AllStored, pins, pipe, tangler
<1>5. CASE EntanglerPanics
  BY <1>5 DEF EntanglerPanics, MergeInv, AllStored, pins
<1>6. CASE StoreOne
  <2>1. PICK b \in storing : Store(b)
    BY <1>6 DEF StoreOne
  <2>2. ~AllStored
    BY DEF AllStored
  <2>3. UNCHANGED <<pc, merged>>
    BY <2>1 DEF Store, pins
  <2> QED BY <2>2, <2>3 DEF MergeInv
<1>7. CASE AddFile \/ GetMerkleTree \/ LoadData
  <2>1. /\ pc \in {"add", "tree", "load"} /\ pc' \in {"tree", "load", "entangle", "error", "exited"}
        /\ UNCHANGED merged
    BY <1>7 DEF AddFile, GetMerkleTree, LoadData, Call, pins
  <2> QED BY <2>1 DEF MergeInv
<1>8. CASE GetStrandTree \/ PinNode \/ StrandPinned \/ AddMetadata \/ Notify
  <2>1. /\ pc \in {"strandTree", "pin", "metadata", "notify"}
        /\ pc' \in {"merge", "pin", "metadata", "notify", "error", "done"}
        /\ UNCHANGED <<merged, parityBlocks>> /\ AllStored' = AllStored
    BY <1>8 DEF GetStrandTree, PinNode, StrandPinned, AddMetadata, Notify, Call, pins, pipe,
       tangler, AllStored
  <2> QED BY <2>1 DEF MergeInv
<1>9. CASE PinMetadata \/ UNCHANGED vars
  BY <1>9 DEF PinMetadata, MergeInv, AllStored, pins, pipe, tangler, vars
<1> QED BY <1>1, <1>3, <1>4, <1>5, <1>6, <1>7, <1>8, <1>9 DEF Next, Main, Feed

LEMMA SameCode ==
  \A k, n : Codeword(k, n) = EP!Codeword(k, n)
BY DEF Codeword, EP!Codeword, Prefix, EP!Prefix, Before, EP!Before,
       ForwardNeighbor, EP!ForwardNeighbor, PositionCategory, EP!PositionCategory,
       GoMod, EP!GoMod, SymDiff, EP!SymDiff

LEMMA MergedIsWhole ==
  ASSUME EP!Square, EP!EntInv, FlowInv, StoredInv, MergeInv
  PROVE  MergedIsCode
<1>0. EP!PositionsAssumption /\ EP!EntanglerAssumption
  BY Assumed
<1> SUFFICES ASSUME NEW k \in Strand, merged[k] # <<>>
             PROVE  merged[k] = Codeword(k, chunkNum)
  BY DEF MergedIsCode
<1>1. AllStored /\ merged[k] = parityBlocks[k]
  BY DEF MergeInv
<1>2. \A b \in emitted : parityBlocks[b.strand][b.left] = b.data
  BY <1>1 DEF AllStored, StoredInv, Range
<1>3. merged[k] \in [1..chunkNum -> SUBSET (1..chunkNum)]
  BY <1>1 DEF FlowInv
<1>4. strands = Strand
  BY SameSets, FilesHaveTrees DEF EP!EntInv, EP!TypeInv, FilesAreTrees
<1>5. EP!EmitsCode
  BY <1>0, EP!CodeEmitted
<1> DEFINE code == EP!Codeword(k, chunkNum)
<1>6. ASSUME NEW i \in 1..chunkNum PROVE merged[k][i] = code[i]
  <2> HIDE DEF code
  <2> DEFINE place == [strand |-> k, left |-> i, data |-> code[i]]
  <2>1. place \in UNION {{[strand |-> l, left |-> x, data |-> EP!Codeword(l, chunkNum)[x]] :
                            x \in 1..chunkNum} : l \in strands}
    <3>1. place \in {[strand |-> k, left |-> x, data |-> EP!Codeword(k, chunkNum)[x]] :
                       x \in 1..chunkNum}
      BY DEF code
    <3> HIDE DEF place
    <3> QED BY <1>4, <3>1
  <2>2. place \in {[strand |-> a.strand, left |-> a.left, data |-> a.data] : a \in emitted}
    BY <1>1, <1>5, <2>1 DEF AllStored, EP!EmitsCode
  <2>3. PICK a \in emitted : a.strand = k /\ a.left = i /\ a.data = code[i]
    BY <2>2
  <2> QED BY <1>1, <1>2, <2>3
<1>7. code = [i \in 1..chunkNum |-> code[i]]
  BY DEF EP!Codeword
<1> HIDE DEF code
<1>8. merged[k] = [i \in 1..chunkNum |-> merged[k][i]]
  BY <1>3
<1>9. merged[k] = code
  BY <1>6, <1>7, <1>8
<1> QED BY <1>9, SameCode DEF code

-----------------------------------------------------------------------------
(* The metadata *)

\* The most children of a node is the number of children of one.
LEMMA WidestIsThere ==
  ASSUME NEW t, IsTree(t)
  PROVE  \E n \in Nodes(t) : Len(t.children[n]) = MaxChildren(t)
<1> DEFINE X == {Len(t.children[n]) : n \in Nodes(t)}
<1>1. \A n \in Nodes(t) : Len(t.children[n]) \in Nat
  BY DEF IsTree
<1>2. X \in SUBSET Nat
  BY <1>1
<1>3. 0 \in Nodes(t)
  BY DEF IsTree, Nodes
<1>4. MaxChildren(t) \in Nat /\ \A x \in X : x <= MaxChildren(t)
  BY DEF IsTree
<1>5. X # {} /\ MaxChildren(t) = Max(X)
  BY <1>3 DEF MaxChildren
<1> HIDE DEF X
<1>6. Max(X) \in X
  BY <1>2, <1>4, <1>5, GreatestNumber
<1> QED BY <1>5, <1>6 DEF X

\* The widest node so far is at least as wide as every one that was asked for, and the
\* metadata are those of the file's tree.
MetaInv ==
  /\ \E f \in Files :
       file = [leaves |-> f.leaves, fanout |-> f.fanout, tree |-> Tree(f.leaves, f.fanout),
               strandTree |-> ParityTree(BlocksOf(f), f.fanout)]
  /\ \A k \in Strand : \A n \in asked[k] : Len(strandTree.children[n]) <= widest
  /\ pc = "notify" =>
       metadata = [L |-> Cardinality(Leaves(tree)), K |-> MaxChildren(tree),
                   D |-> Depth(file.leaves, file.fanout), N |-> tree.size,
                   parityK |-> widest]

LEMMA InitMeta == Init => MetaInv
BY DEF Init, MetaInv

LEMMA StepMeta ==
  ASSUME PinInv, MetaInv, [Next]_vars
  PROVE  MetaInv'
<1>0. file' = file /\ strandTree' = strandTree /\ tree' = tree
  BY DEF Next, vars, Main, Feed, StoreOne, AddFile, GetMerkleTree, LoadData,
     EntanglerPanics, Receive, EntanglementReady, MergeStrand, GetStrandTree, PinNode,
     StrandPinned, AddMetadata, Notify, Send, CloseData, Store, PinMetadata, Entangle,
     strandTree, tree
<1>1. ASSUME UNCHANGED <<pc, asked, widest, metadata>> PROVE MetaInv'
  BY <1>0, <1>1 DEF MetaInv
<1>2. ASSUME UNCHANGED <<asked, widest>>, pc' # "notify" PROVE MetaInv'
  BY <1>0, <1>2 DEF MetaInv
<1>3. CASE PinNode
  <2> DEFINE t == strandTree
             m == Head(stack)
  <2>1. pc = "pin" /\ pc' = pc /\ stack # <<>> /\ strand \in Strand
    BY <1>3 DEF PinNode, PinInv
  <2>2. /\ m \in Nodes(t) /\ asked \in [Strand -> SUBSET Nodes(t)]
        /\ widest \in Nat /\ Len(t.children[m]) \in Nat
    <3>1. m \in Nodes(t) /\ IsTree(t)
      BY <2>1, RangeOfTail DEF PinInv
    <3> QED BY <3>1 DEF PinInv, IsTree
  <2>3. CASE asked' = [asked EXCEPT ![strand] = @ \cup {m}] /\ widest' = Widest(m)
    <3>1. widest' >= widest /\ widest' >= Len(t.children[m]) /\ widest' \in Nat
      <4> DEFINE l == Len(t.children[m])
      <4>1. widest' = Max({widest, l})
        BY <2>3 DEF Widest
      <4>2. l \in Nat /\ widest \in Nat
        BY <2>2
      <4> HIDE DEF l
      <4>3. widest' >= widest /\ widest' >= l /\ widest' \in Nat
        BY <4>1, <4>2, MaxOfTwo
      <4> QED BY <4>3 DEF l
    <3>2. ASSUME NEW k \in Strand, NEW n \in asked'[k] PROVE Len(t.children[n]) <= widest'
      <4>1. n \in asked[k] \/ n = m
        BY <2>1, <2>2, <2>3
      <4>2. CASE n \in asked[k]
        <5>1. n \in Nodes(t) /\ Len(t.children[n]) <= widest
          BY <2>2, <4>2 DEF MetaInv
        <5>2. Len(t.children[n]) \in Nat
          BY <5>1 DEF PinInv, IsTree
        <5> QED BY <2>2, <3>1, <5>1, <5>2
      <4>3. CASE n = m
        BY <2>2, <3>1, <4>3
      <4> QED BY <4>1, <4>2, <4>3
    <3> QED BY <1>0, <2>1, <3>2 DEF MetaInv
  <2>4. CASE UNCHANGED <<asked, widest>>
    BY <1>2, <2>1, <2>4
  <2> QED BY <1>3, <2>3, <2>4 DEF PinNode
<1>4. CASE AddMetadata
  BY <1>0, <1>4 DEF AddMetadata, Call, MetaInv, pins
<1>5. CASE AddFile \/ GetMerkleTree \/ LoadData \/ EntanglerPanics \/ EntanglementReady
           \/ MergeStrand \/ GetStrandTree \/ StrandPinned \/ Notify
  BY <1>2, <1>5 DEF AddFile, GetMerkleTree, LoadData, EntanglerPanics, EntanglementReady,
     MergeStrand, GetStrandTree, StrandPinned, Notify, Call, pins
<1>6. CASE Receive \/ Feed \/ Entangle \/ StoreOne \/ PinMetadata \/ UNCHANGED vars
  BY <1>1, <1>6 DEF Receive, Feed, Send, CloseData, Entangle, StoreOne, Store, PinMetadata,
     vars, pins
<1> QED BY <1>3, <1>4, <1>5, <1>6 DEF Next, Main

LEMMA MetaFits ==
  ASSUME PinInv, MetaInv
  PROVE  MetadataFits
<1> SUFFICES ASSUME pc = "notify"
             PROVE  /\ metadata.N = Size(metadata.L, metadata.K)
                    /\ metadata.D = Depth(metadata.L, metadata.K)
                    /\ Tree(metadata.L, metadata.K) = tree
                    /\ (\E k \in Strand : asked[k] = Nodes(strandTree)) =>
                          ParityTree(metadata.N, metadata.parityK) = strandTree
  BY DEF MetadataFits
<1>1. PICK f \in Files :
        file = [leaves |-> f.leaves, fanout |-> f.fanout, tree |-> Tree(f.leaves, f.fanout),
                strandTree |-> ParityTree(BlocksOf(f), f.fanout)]
  BY DEF MetaInv
<1>2. /\ tree = Tree(f.leaves, f.fanout) /\ strandTree = ParityTree(BlocksOf(f), f.fanout)
      /\ file.leaves = f.leaves /\ file.fanout = f.fanout
  BY <1>1 DEF tree, strandTree
<1>3. /\ tree.size = Size(Cardinality(Leaves(tree)), MaxChildren(tree))
      /\ Depth(f.leaves, f.fanout) = Depth(Cardinality(Leaves(tree)), MaxChildren(tree))
      /\ Tree(Cardinality(Leaves(tree)), MaxChildren(tree)) = tree
      /\ ParityTree(tree.size, MaxChildren(strandTree)) = strandTree
  BY <1>2, FilesRebuild DEF TreesRebuild, Rebuilds
<1>4. metadata = [L |-> Cardinality(Leaves(tree)), K |-> MaxChildren(tree),
                  D |-> Depth(f.leaves, f.fanout), N |-> tree.size, parityK |-> widest]
  BY <1>2 DEF MetaInv
<1>5. ASSUME NEW k \in Strand, asked[k] = Nodes(strandTree)
      PROVE  widest = MaxChildren(strandTree)
  <2>1. PICK n \in Nodes(strandTree) : Len(strandTree.children[n]) = MaxChildren(strandTree)
    BY WidestIsThere DEF PinInv
  <2>2. MaxChildren(strandTree) <= widest
    BY <1>5, <2>1 DEF MetaInv
  <2>3. widest \in 0..MaxChildren(strandTree) /\ MaxChildren(strandTree) \in Nat
    BY DEF PinInv, IsTree
  <2> QED BY <2>2, <2>3
<1> QED BY <1>3, <1>4, <1>5

-----------------------------------------------------------------------------
(* The theorems of the whole *)

UploadInv == EP!EntInv /\ PinInv /\ FlowInv /\ StoredInv /\ MergeInv

LEMMA InitUpload ==
  ASSUME EP!Square
  PROVE  Init => UploadInv
BY EntanglerInvariant, InitPins, InitFlow, InitStored DEF UploadInv

LEMMA StepUpload ==
  ASSUME EP!Square
  PROVE  UploadInv /\ [Next]_vars => UploadInv'
<1> SUFFICES ASSUME UploadInv, [Next]_vars PROVE UploadInv'
  OBVIOUS
<1>1. EP!EntInv' /\ EP!TypeInv /\ EP!TypeInv'
  <2>1. EP!EntInv /\ EP!EntInv'
    BY EntanglerInvariant DEF UploadInv
  <2> QED BY <2>1 DEF EP!EntInv
<1>2. PinInv' /\ FlowInv'
  BY <1>1, StepPins, StepFlow DEF UploadInv
<1>3. StoredInv' /\ MergeInv'
  BY <1>1, StepStored, StepMerge DEF UploadInv
<1> QED BY <1>1, <1>2, <1>3 DEF UploadInv

\* A strand's file is merged from the parity of every block, each as the code defines it,
\* for files of any length, any number of goroutines that store and any order they run in:
\* the wait group and the two channels let nobody merge before the last parity is in place.
THEOREM StrandsAreCode ==
  ASSUME EP!Square
  PROVE  Spec => []MergedIsCode
<1>1. UploadInv => MergedIsCode
  BY MergedIsWhole DEF UploadInv
<1> QED BY <1>1, InitUpload, StepUpload, PTL DEF Spec

\* The entangler makes the upload panic over a file of fewer than P blocks only.
THEOREM OnlySmallPanics ==
  ASSUME EP!Square
  PROVE  Spec => []OnlySmallFilesPanic
<1>1. UploadInv => OnlySmallFilesPanic
  BY DEF UploadInv, EP!EntInv, EP!OnlySmallPanic, OnlySmallFilesPanic
<1> QED BY <1>1, InitUpload, StepUpload, PTL DEF Spec

\* Whichever calls fail, the metadata are enough to build the file's tree again; and those
\* of its strands, once the pins of one were all asked for: the widest node is then among
\* those counted, however few of the other strands' nodes were reached.
THEOREM MetadataRebuilds ==
  Spec => []MetadataFits
<1>1. Init => PinInv /\ MetaInv
  BY InitPins, InitMeta
<1>2. PinInv /\ MetaInv /\ [Next]_vars => PinInv' /\ MetaInv'
  BY StepPins, StepMeta
<1>3. PinInv /\ MetaInv => MetadataFits
  BY MetaFits
<1> QED BY <1>1, <1>2, <1>3, PTL DEF Spec

\* The files whose leaves need two parents at most: up to 348 blocks of 256 KB, with the 174
\* links a node has in ipfs.
FewLeaves == \A f \in Files : f.leaves <= 2 * f.fanout

\* The blocks of such a file are in the order the repairs and downloads take them to be in,
\* whatever the lattice: the one or two inner nodes that are moved go to places that do not
\* depend on each other.
THEOREM OrdersOfFew ==
  ASSUME FewLeaves
  PROVE  Spec => []OrdersAgree
<1> DEFINE Inv == \E f \in Files : tree = Tree(f.leaves, f.fanout)
<1>1. Init => Inv
  BY DEF Init, tree
<1>2. Inv /\ [Next]_vars => Inv'
  <2>1. [Next]_vars => file' = file
    BY DEF Next, Main, Feed, Send, CloseData, Entangle, EntanglerPanics, StoreOne, Store,
       Receive, EntanglementReady, AddFile, GetMerkleTree, LoadData, MergeStrand,
       GetStrandTree, PinNode, StrandPinned, AddMetadata, Notify, PinMetadata, vars
  <2> QED BY <2>1 DEF tree
<1>3. Inv => OrdersAgree
  <2> SUFFICES ASSUME NEW f \in Files, tree = Tree(f.leaves, f.fanout) PROVE SameOrder(tree)
    BY DEF OrdersAgree
  <2>1. Buildable(f.leaves, f.fanout) /\ f.leaves <= 2 * f.fanout
    BY FilesBuilt DEF FewLeaves
  <2>2. SameOrder(Tree(f.leaves, f.fanout))
    BY <2>1, SmallFilesKeepOrder
  <2> QED BY <2>2
<1> QED BY <1>1, <1>2, <1>3, PTL DEF Spec
=============================================================================
