-------------------------------- MODULE Lattice --------------------------------
(***************************************************************************)
(* The lattice of one repair or download (entangler/lattice.go, block.go): *)
(* a request for a block fetches it or, when it cannot be fetched, repairs *)
(* it from pairs of its neighbours, to a depth.  What was fetched or       *)
(* repaired stays in the block.  Every caller in the program uses its      *)
(* lattice from one goroutine, so requests come one after the other; the   *)
(* recursion of sequentialRecoverHelper is a stack of blocks in repair.    *)
(***************************************************************************)
EXTENDS Positions, Sequences, SequencesExt

CONSTANTS
  ChunkNum,     \* the data blocks of the file
  Losses,       \* the sets of blocks that may be missing from the network at first
  Requests,     \* the blocks that may be asked for
  Depths,       \* the depths they may be asked for with
  MaxRequests,  \* bound: requests to the lattice
  Flickers,     \* the blocks that may come and go
  MaxChanges    \* bound: changes of what the network has

Block == {0} \X (1..ChunkNum) \cup Strand \X (1..ChunkNum)
Data(i) == <<0, i>>
Parity(k, i) == <<k, i>>
IsParity(b) == b[1] # 0

ASSUME LatticeAssumption ==
  /\ ChunkNum \in Nat
  /\ ChunkNum >= P   \* Entangle panics below: no file has fewer
  /\ Losses \subseteq SUBSET Block
  /\ Requests \subseteq Block
  /\ Flickers \subseteq Block
  /\ Depths \subseteq Nat \ {0}
  /\ MaxRequests \in Nat
  /\ MaxChanges \in Nat

\* What a block is, and what the network gives for it.
Value == [b \in Block |-> IF IsParity(b) THEN Codeword(b[1], ChunkNum)[b[2]] ELSE {b[2]}]
Chunk == SUBSET (1..ChunkNum)

-----------------------------------------------------------------------------
(* The links of the lattice: initLinks *)

\* The data block on the right of a parity: the next one of its chain, or its first.
RightData(k, i) ==
  IF IsValidIndex(ForwardNeighbor(i, k), ChunkNum) THEN ForwardNeighbor(i, k)
  ELSE ChainStart(i, k)

\* The parity on the left of a data block; of several, the one that was linked last.
LeftParity(k, i) == Parity(k, Max({j \in 1..ChunkNum : RightData(k, j) = i}))

\* IsWrapModified: the parities closed over the end of their chain.
WrapModified ==
  {p \in Block :
     /\ IsParity(p)
     /\ \E i \in (1..ChunkNum) \ {p[2]} :
          /\ ~IsValidIndex(ForwardNeighbor(i, p[1]), ChunkNum)
          /\ RightData(p[1], i) = p[2]}

\* Mutant: a wrapped parity is used like any other.
UnwrappedNever(p) == p

\* What a parity was XORed from on its left: a wrapped one stands for its data block.
Unwrapped(p) == IF p \in WrapModified THEN Data(p[2]) ELSE p

\* setRecoverPairsForData: its two parities on every strand, and at the start of a chain
\* the next block with its parity.
DataPairs(i) ==
  LET pairs(k) ==
        <<<<Unwrapped(LeftParity(k, i)), Parity(k, i)>>>> \o
        IF Parity(k, i) \in WrapModified
          THEN <<<<Data(RightData(k, i)), Parity(k, RightData(k, i))>>>>
          ELSE <<>>
  IN  FlattenSeq([k \in Strand |-> pairs(k)])

\* setRecoverPairsForParity: the parity and the data block on its left, and unless it is
\* wrapped those on its right.
ParityPairs(k, i) ==
  <<<<Unwrapped(LeftParity(k, i)), Data(i)>>>> \o
  IF Parity(k, i) \in WrapModified THEN <<>>
  ELSE <<<<Data(RightData(k, i)), Parity(k, RightData(k, i))>>>>

RecoverPairs ==
  [b \in Block |-> IF IsParity(b) THEN ParityPairs(b[1], b[2]) ELSE DataPairs(b[2])]

\* The links agree with the entangler: whatever pair of a block a repair may try, its XOR
\* is the block.  It fails when a chain is one block alone, whose two parities are one.
PairsHold ==
  /\ Value \in [Block -> Chunk]
  /\ RecoverPairs \in [Block -> Seq(Block \X Block)]
  /\ \A b \in Block : \A j \in 1..Len(RecoverPairs[b]) :
       Value[b] = SymDiff(Value[RecoverPairs[b][j][1]], Value[RecoverPairs[b][j][2]])

\* The lattices whose links agree with the entangler: as many rows as the window has
\* columns, as every caller and the docs have it, and two columns of blocks at least.
Regular == S = P /\ S > 1 /\ ChunkNum >= 2 * P

-----------------------------------------------------------------------------
(* A request *)

VARIABLES
  net,       \* the blocks the getter can fetch
  status,    \* a block's Status
  chunk,     \* a block's Data, when it is available
  repaired,  \* the blocks whose Data was recovered, not fetched (Repaired)
  request,   \* the request being served
  stack,     \* the blocks in repair for it, the innermost first
  answer,    \* the last answer
  asked,     \* requests so far
  changes,   \* changes of the network so far
  sure,      \* auxiliary: the blocks there were all the time of the request
  ever       \* auxiliary: the blocks there were at some time of it

vars == <<net, status, chunk, repaired, request, stack, answer, asked, changes, sure, ever>>
world == <<net, changes, sure, ever>>
blocks == <<status, chunk, repaired>>

\* Mutant: the neighbours are only fetched, whatever depth is left.
FetchingFrame(b, depth) ==
  [block |-> b, depth |-> 1, pairs |-> RecoverPairs[b], haveLeft |-> FALSE]

\* A block in repair: the depth left for its neighbours, the pairs left to try, and
\* whether the left one of the first pair is there.
Frame(b, depth) == [block |-> b, depth |-> depth, pairs |-> RecoverPairs[b], haveLeft |-> FALSE]

Frames == [block : Block, depth : Nat \ {0}, pairs : Seq(Block \X Block), haveLeft : BOOLEAN]

NoRequest == [block |-> <<0, 0>>, depth |-> 0]
NoAnswer == [block |-> <<0, 0>>, depth |-> 0, ok |-> FALSE, repaired |-> FALSE,
             chunk |-> {}]

Init ==
  /\ \E lost \in Losses : net = Block \ lost
  /\ status = [b \in Block |-> "NoData"]
  /\ chunk = [b \in Block |-> {}]
  /\ repaired = {}
  /\ request = NoRequest
  /\ stack = <<>>
  /\ answer = NoAnswer
  /\ asked = 0
  /\ changes = 0
  /\ sure = {}
  /\ ever = {}

Available == {b \in Block : status[b] = "DataAvailable"}

Busy == request # NoRequest

\* GetChunkDepth, GetChunk, GetParity
Ask(b, depth) ==
  /\ ~Busy
  /\ asked < MaxRequests
  /\ asked' = asked + 1
  /\ request' = [block |-> b, depth |-> depth]
  /\ UNCHANGED <<blocks, stack, answer>>

\* The history of a request begins.
Observe ==
  /\ sure' = net \cup Available
  /\ ever' = net \cup Available
  /\ UNCHANGED <<net, changes>>

\* The block sequentialRecoverHelper looks at, and the depth it has for it.
Target ==
  IF stack = <<>> THEN request.block
  ELSE LET top == Head(stack) IN IF top.haveLeft THEN Head(top.pairs)[2] ELSE Head(top.pairs)[1]

TargetDepth == IF stack = <<>> THEN request.depth ELSE Head(stack).depth

\* There is a target, unless the block on the stack is out of pairs.
Looking == Busy /\ (stack # <<>> => Head(stack).pairs # <<>>)

\* The getter has the target.
Download ==
  /\ Looking
  /\ status[Target] = "NoData"
  /\ Target \in net
  /\ status' = [status EXCEPT ![Target] = "DataAvailable"]
  /\ chunk' = [chunk EXCEPT ![Target] = Value[Target]]
  /\ UNCHANGED <<repaired, request, stack, answer, asked>>

\* It has not, and the depth allows a repair.
StartRepair ==
  /\ Looking
  /\ status[Target] = "NoData"
  /\ Target \notin net
  /\ TargetDepth > 1
  /\ status' = [status EXCEPT ![Target] = "RepairPending"]
  /\ stack' = <<Frame(Target, TargetDepth - 1)>> \o stack
  /\ UNCHANGED <<chunk, repaired, request, answer, asked>>

\* Mutant: the next pair is tried from its right one.
PairFailedKeepsLeft(s) ==
  IF s = <<>> THEN <<>> ELSE <<[Head(s) EXCEPT !.pairs = Tail(@)]>> \o Tail(s)

\* The stack once the pair the top block is trying has failed.
PairFailed(s) ==
  IF s = <<>> THEN <<>>
  ELSE <<[Head(s) EXCEPT !.pairs = Tail(@), !.haveLeft = FALSE]>> \o Tail(s)

Answered(ok) ==
  LET b == request.block IN
  [block |-> b, depth |-> request.depth, ok |-> ok, repaired |-> b \in repaired,
   chunk |-> IF ok THEN chunk[b] ELSE {}]

\* The request, and its answer, once its block failed.
RequestFailed ==
  /\ request' = NoRequest
  /\ answer' = Answered(FALSE)

\* Mutant: a block in repair is waited for.
VisitedNever(b) == FALSE

\* A block in repair was visited by the same request: there is no other (currRequest).
Visited(b) == status[b] = "RepairPending"

\* The target cannot be had: it is in repair for this very request already, or it
\* cannot be fetched and the depth is used up.
Fail ==
  /\ Looking
  /\ \/ Visited(Target)
     \/ status[Target] = "NoData" /\ Target \notin net /\ TargetDepth = 1
  /\ stack' = PairFailed(stack)
  /\ IF stack = <<>> THEN RequestFailed ELSE UNCHANGED <<request, answer>>
  /\ UNCHANGED <<blocks, asked>>

\* Mutant: a repair that failed leaves its block pending.
FinishRepairNever(b) == UNCHANGED status

\* FinishRepair after a failure.
FinishRepair(b) == status' = [status EXCEPT ![b] = "NoData"]

\* The top block has no pair left.
GiveUp ==
  /\ Busy
  /\ stack # <<>>
  /\ Head(stack).pairs = <<>>
  /\ FinishRepair(Head(stack).block)
  /\ stack' = PairFailed(Tail(stack))
  /\ IF Tail(stack) = <<>> THEN RequestFailed ELSE UNCHANGED <<request, answer>>
  /\ UNCHANGED <<chunk, repaired, asked>>

\* The left one of the pair is there.
HaveLeft ==
  /\ Looking
  /\ stack # <<>>
  /\ ~Head(stack).haveLeft
  /\ status[Target] = "DataAvailable"
  /\ stack' = <<[Head(stack) EXCEPT !.haveLeft = TRUE]>> \o Tail(stack)
  /\ UNCHANGED <<blocks, request, answer, asked>>

\* So is the right one: the block is recovered.
Recover ==
  /\ Looking
  /\ stack # <<>>
  /\ Head(stack).haveLeft
  /\ status[Target] = "DataAvailable"
  /\ LET b == Head(stack).block
         pair == Head(Head(stack).pairs)
     IN  /\ status' = [status EXCEPT ![b] = "DataAvailable"]
         /\ chunk' = [chunk EXCEPT ![b] = SymDiff(chunk[pair[1]], chunk[pair[2]])]
         /\ repaired' = repaired \cup {b}
  /\ stack' = Tail(stack)
  /\ UNCHANGED <<request, answer, asked>>

\* The block that was asked for is there.
Answer ==
  /\ Looking
  /\ stack = <<>>
  /\ status[Target] = "DataAvailable"
  /\ request' = NoRequest
  /\ answer' = Answered(TRUE)
  /\ UNCHANGED <<blocks, stack, asked>>

\* Nodes of the network go, come back, or get repaired blocks.
NetworkChanges(b) ==
  /\ changes < MaxChanges
  /\ changes' = changes + 1
  /\ net' = IF b \in net THEN net \ {b} ELSE net \cup {b}
  /\ sure' = IF Busy THEN sure \ ({b} \ Available) ELSE sure
  /\ ever' = IF Busy THEN ever \cup {b} ELSE ever
  /\ UNCHANGED <<blocks, request, stack, answer, asked>>

Step == Download \/ StartRepair \/ Fail \/ GiveUp \/ HaveLeft \/ Recover \/ Answer

\* The lattice by itself changes nothing of the network: a walk over a file's tree, which
\* does, has modules of its own.
Serve == Step /\ UNCHANGED world

Next ==
  \/ \E b \in Requests, depth \in Depths : Ask(b, depth) /\ Observe
  \/ Serve
  \/ \E b \in Flickers : NetworkChanges(b)

Spec == Init /\ [][Next]_vars /\ WF_vars(Serve)

-----------------------------------------------------------------------------
(* Properties *)

\* Types; and a block whose left neighbour is there has a pair it is the left one of.
TypeOK ==
  /\ net \subseteq Block /\ repaired \subseteq Block
  /\ status \in [Block -> {"NoData", "RepairPending", "DataAvailable"}]
  /\ chunk \in [Block -> Chunk]
  /\ request \in [block : Block, depth : Nat \ {0}] \cup {NoRequest}
  /\ stack \in Seq(Frames)
  /\ \A j \in 1..Len(stack) : stack[j].haveLeft => stack[j].pairs # <<>>
  /\ asked \in 0..MaxRequests /\ changes \in 0..MaxChanges

\* What a block holds, fetched or recovered over whatever neighbours and by whatever
\* request, is the block that was entangled (Recover, SetData).
HoldsItsValue == \A b \in Available : chunk[b] = Value[b]

\* Exactly the blocks on the stack are in repair, each once: a block that stayed pending
\* would make the next request wait for ever on its condition variable.
PendingOnStack ==
  /\ {b \in Block : status[b] = "RepairPending"} = {stack[j].block : j \in 1..Len(stack)}
  /\ \A j, l \in 1..Len(stack) : stack[j].block = stack[l].block => j = l
  /\ ~Busy => stack = <<>>

\* The equation of block i on strand k: its data block, its parity and what that was
\* XORed with.  Any two of the three give the third.
Equation(k, i) ==
  LET before == Before(i, k, ChunkNum)
      last == {j \in 1..ChunkNum : /\ ForwardNeighbor(j, k) > ChunkNum
                                   /\ i \in Prefix(k, ChunkNum)[j]}
      prior(j) == IF Before(j, k, ChunkNum) = {} THEN Data(j) ELSE Parity(k, j)
  IN  {Data(i), Parity(k, i)} \cup
      IF before = {} THEN {Parity(k, j) : j \in last} ELSE {prior(j) : j \in before}

Equations == {Equation(b[1], b[2]) : b \in Strand \X (1..ChunkNum)}

\* The links agree with the equations: the pairs a repair of a block may try are what the
\* equations with the block leave of it.
PairsCover ==
  LET equations == Equations IN
  \A b \in Block :
    {{pair[1], pair[2]} : pair \in Range(RecoverPairs[b])} =
      {e \ {b} : e \in {eq \in equations : b \in eq}}

\* What can be had from the blocks of `base' in `depth' rounds, the first of which only
\* fetches.
Reach(base, depth) ==
  LET round[r \in 1..depth] ==
        IF r = 1 THEN base
        ELSE round[r - 1] \cup
             {b \in Block : \E e \in Equations : b \in e /\ e \ {b} \subseteq round[r - 1]}
  IN  round[depth]

\* A request succeeds when its block can be had at its depth from what was there all the
\* time: neither the cut of the recursion at blocks in repair nor the order of the pairs
\* loses one.  It may succeed with a deeper block, over blocks it has recovered before at a
\* lesser depth, but only with one that can be had from what was there at some time, in a
\* round for each block recovered.
AnswersByDepth ==
  ~Busy /\ answer # NoAnswer =>
    /\ answer.block \in Reach(sure, answer.depth) => answer.ok
    /\ answer.ok => answer.block \in Reach(ever, 1 + Cardinality(repaired))

\* Every request is answered.
RequestsEnd == Busy ~> ~Busy
=============================================================================
