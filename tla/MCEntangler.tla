------------------------------ MODULE MCEntangler ------------------------------
EXTENDS Entangler

\* The upload's set of strands, and those of strand repairs.
AllOrOne == {Strand} \cup {{k} : k \in Strand}

\* The links of the lattice of a file, which no state enters into.
Links(width, n) == INSTANCE Lattice WITH
  S <- width, P <- width,
  ChunkNum <- n, Losses <- {}, Requests <- {}, Depths <- {}, MaxRequests <- 0,
  Flickers <- {}, MaxChanges <- 0, net <- {}, status <- <<>>, chunk <- <<>>,
  repaired <- {}, request <- <<>>, stack <- <<>>, answer <- <<>>, asked <- 0,
  changes <- 0, sure <- {}, ever <- {}

\* What LinksAgree states of all lattices, for some of those it is about: with chains of
\* two blocks at least the recover pairs the lattice links give what the entangler has
\* made, and are all that its equations give.  These are the parameters of the program and
\* those of the lattice's own run.
ASSUME PairsChecked ==
  /\ \A n \in ChunkNums :
       S = P /\ n >= 2 * P => Links(S, n)!PairsHold /\ Links(S, n)!PairsCover
  /\ Links(3, 7)!PairsHold /\ Links(3, 7)!PairsCover
=============================================================================
