------------------------------- MODULE Entangler -------------------------------
(***************************************************************************)
(* Entangle (entangler/entangler.go): data blocks come in one by one, each *)
(* is XORed with the last parity of its chain on every strand, the parity  *)
(* goes out and becomes the last of the chain.  The parities of the chains'*)
(* first blocks are held back until the data ends; then every chain is     *)
(* closed.  An upload generates all strands, the repair of a strand one.   *)
(***************************************************************************)
EXTENDS Positions, Sequences

CONSTANTS
  ChunkNums,   \* the numbers of data blocks a file may have
  StrandSets   \* the strands the entangler may be asked for

ASSUME EntanglerAssumption ==
  /\ ChunkNums \subseteq Nat \ {0}
  /\ StrandSets \subseteq SUBSET Strand

VARIABLES
  chunkNum,   \* the data blocks there will be
  strands,    \* the strands to generate
  index,      \* data blocks read so far
  cached,     \* cachedParities: cached[k][c], the last parity of chain c
  toWrap,     \* parityBlocksToWrap: toWrap[k][i], the parity held back for block i
  chain,      \* the chain to be closed next, <<k, c>>
  emitted,    \* the parities sent
  phase       \* "entangling", "wrapping", "closed" (parityChan), "panic"

vars == <<chunkNum, strands, index, cached, toWrap, chain, emitted, phase>>

MaxChainNumPerStrand == IF S > P THEN S ELSE P

\* The empty parity a chain starts from; in toWrap, none.
NoParity == [left |-> 0, right |-> 0, strand |-> 0, data |-> {}]

Init ==
  /\ chunkNum \in ChunkNums
  /\ strands \in StrandSets
  /\ index = 0
  /\ cached = [k \in Strand |-> [c \in Chains(k) |-> NoParity]]
  /\ toWrap = [k \in Strand |-> [i \in 1..MaxChainNumPerStrand |-> NoParity]]
  /\ chain = <<1, 0>>
  /\ emitted = {}
  /\ phase = "entangling"

\* Mutant: blocks are numbered from 0, as the slices of the code are.
EntangledFromZero(i, k) ==
  [left |-> i, right |-> ForwardNeighbor(i, k), strand |-> k,
   data |-> SymDiff({i - 1}, cached[k][ChainIndex(i, k)].data)]

\* The parity of block i on strand k, over the last one of its chain.
Entangled(i, k) ==
  [left |-> i, right |-> ForwardNeighbor(i, k), strand |-> k,
   data |-> SymDiff({i}, cached[k][ChainIndex(i, k)].data)]

\* Mutant: no parity waits.
HeldBackNever(i, k) == FALSE

\* The parity of the first block of a chain waits until the chain is closed.
HeldBack(i, k) == ChainStart(i, k) = i

\* The next data block comes.
EntangleSingleBlock ==
  LET i == index + 1 IN
  /\ phase = "entangling"
  /\ i <= chunkNum
  /\ index' = i
  /\ cached' = [k \in Strand |->
       IF k \in strands THEN [cached[k] EXCEPT ![ChainIndex(i, k)] = Entangled(i, k)]
       ELSE cached[k]]
  /\ toWrap' = [k \in Strand |->
       IF k \in strands /\ HeldBack(i, k) THEN [toWrap[k] EXCEPT ![i] = Entangled(i, k)]
       ELSE toWrap[k]]
  /\ emitted' = emitted \cup {Entangled(i, k) : k \in {j \in strands : ~HeldBack(i, j)}}
  /\ UNCHANGED <<chunkNum, strands, chain, phase>>

\* No more data comes.
DataEnds ==
  /\ phase = "entangling"
  /\ index = chunkNum
  /\ phase' = "wrapping"
  /\ UNCHANGED <<chunkNum, strands, index, cached, toWrap, chain, emitted>>

\* Mutant: the last parity is taken for the whole chain.
ClosedByLast(last, k) ==
  LET start == ChainStart(last.right, k) IN
  IF IsValidIndex(ForwardNeighbor(start, k), index)
    THEN [left |-> start, right |-> ForwardNeighbor(start, k), strand |-> k, data |-> last.data]
    ELSE toWrap[k][start]

\* The first parity of the chain that ends in `last': its first block over `last', or,
\* when the chain is that block alone, the parity that was held back, turned to itself.
Closed(last, k) ==
  LET start == ChainStart(last.right, k) IN
  IF IsValidIndex(ForwardNeighbor(start, k), index)
    THEN [left |-> start, right |-> ForwardNeighbor(start, k), strand |-> k,
          data |-> SymDiff({start}, last.data)]
  ELSE IF last.left = start THEN [last EXCEPT !.right = start]
  ELSE toWrap[k][start]

NextChain(k, c) == IF c + 1 \in Chains(k) THEN <<k, c + 1>> ELSE <<k + 1, 0>>

\* wrapLattice closes the next chain.  A chain that no block is on has a last parity
\* that leads nowhere: the index into the first blocks, or the block held back, is
\* not there and the goroutine panics.
WrapChain ==
  LET k == chain[1]
      last == cached[k][chain[2]]
      start == ChainStart(last.right, k)
  IN
  /\ phase = "wrapping"
  /\ k \in Strand
  /\ chain' = NextChain(k, chain[2])
  /\ IF k \notin strands
       THEN UNCHANGED <<emitted, phase>>
     ELSE IF start \notin 1..MaxChainNumPerStrand
       THEN phase' = "panic" /\ UNCHANGED emitted
     ELSE IF Closed(last, k) = NoParity
       THEN phase' = "panic" /\ UNCHANGED emitted
       ELSE emitted' = emitted \cup {Closed(last, k)} /\ UNCHANGED phase
  /\ UNCHANGED <<chunkNum, strands, index, cached, toWrap>>

CloseParities ==
  /\ phase = "wrapping"
  /\ chain[1] \notin Strand
  /\ phase' = "closed"
  /\ UNCHANGED <<chunkNum, strands, index, cached, toWrap, chain, emitted>>

Next == EntangleSingleBlock \/ DataEnds \/ WrapChain \/ CloseParities

Spec == Init /\ [][Next]_vars /\ WF_vars(Next)

-----------------------------------------------------------------------------

\* The caches and the held back parities hold parities of data blocks that were read.
TypeOK ==
  LET Parity == [left : 0..chunkNum, right : Nat, strand : 0..Alpha, data : SUBSET (1..chunkNum)]
  IN
  /\ chunkNum \in ChunkNums /\ strands \in StrandSets
  /\ index \in 0..chunkNum
  /\ \A k \in Strand :
       /\ \A c \in Chains(k) : cached[k][c] \in Parity
       /\ \A i \in 1..MaxChainNumPerStrand : toWrap[k][i] \in Parity
  /\ emitted \subseteq Parity
  /\ phase \in {"entangling", "wrapping", "closed", "panic"}

\* The receivers of the parities store each under its strand and block, in no order
\* (upload.go:193-208): no two different parities may come for one place.
OneParityPerPlace ==
  \A a, b \in emitted : a.strand = b.strand /\ a.left = b.left => a.data = b.data

\* Every parity that was asked for comes, and it is the one its chain defines: the
\* caches that entangleSingleBlock indexes by chain and the forward neighbours it
\* never looks at agree, and every chain is closed over its own last block.
EmitsCode ==
  phase = "closed" =>
    {[strand |-> a.strand, left |-> a.left, data |-> a.data] : a \in emitted} =
    UNION {LET code == Codeword(k, chunkNum) IN
           {[strand |-> k, left |-> i, data |-> code[i]] : i \in 1..chunkNum} : k \in strands}

\* An entanglement ends with its channel closed, so that its receivers end.
Finishes == <>(phase = "closed")
=============================================================================
