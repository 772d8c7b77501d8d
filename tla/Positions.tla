------------------------------- MODULE Positions -------------------------------
(***************************************************************************)
(* The positions of an alpha entanglement: which blocks a data block is    *)
(* entangled with (entangler/entangler.go), and the parities the code is   *)
(* meant to have, chain by chain.                                          *)
(*                                                                         *)
(* Blocks are numbered from 1, strands from 1 to Alpha (0 to Alpha-1 in    *)
(* Go).  A strand is a set of chains; a chain is entered at its start and  *)
(* left over the forward neighbours of its blocks.  The content of a block *)
(* is a set of data blocks: the set stands for the XOR of its members, and *)
(* XOR is the symmetric difference.  (The code pads the shorter chunk with *)
(* zeros; lengths are left out.)                                           *)
(***************************************************************************)
EXTENDS Integers, FiniteSets, FiniteSetsExt

CONSTANTS Alpha, S, P

\* What NewEntangler accepts, but for Alpha = 1, whose P = 0 the positions divide by.
ASSUME PositionsAssumption ==
  /\ Alpha \in 2..3
  /\ S \in Nat \ {0}
  /\ P \in Nat \ {0}
  /\ S <= P

Strand == 1..Alpha

\* Go's % and / round towards zero.
GoMod(a, b) == IF a >= 0 THEN a % b ELSE -((-a) % b)
GoDiv(a, b) == IF a >= 0 THEN a \div b ELSE -((-a) \div b)

\* getPositionCategory
PositionCategory(i) ==
  CASE GoMod(i, S) \in {1, 1 - S} -> "Top"
    [] GoMod(i, S) = 0 /\ S > 1 -> "Bottom"
    [] OTHER -> "Central"

\* getForwardNeighborIndexes: the block the parity of block i on strand k is entangled
\* with next, if there is one.
ForwardNeighbor(i, k) ==
  CASE k = 1 -> i + S
    [] k = 2 -> IF PositionCategory(i) = "Bottom" THEN i + S * P - (S * S - 1) ELSE i + S + 1
    [] k = 3 -> IF PositionCategory(i) = "Top" THEN i + S * P - (S - 1) * (S - 1) ELSE i + S - 1

\* getChainIndexes: the chain of block i on strand k.
ChainIndex(i, k) ==
  LET inWindow == GoMod(i - 1, S * P)
      x == GoMod(inWindow, P)
      y == GoDiv(inWindow, P)
  IN  CASE k = 1 -> GoMod(i - 1, S)
        [] k = 2 -> GoMod(y - x + P, P)
        [] k = 3 -> GoMod(x + y, S)

\* getChainStartIndexes: the first block of the chain of block i on strand k.
ChainStart(i, k) ==
  IF k = 2 THEN GoMod(P - ChainIndex(i, k), P) + 1 ELSE ChainIndex(i, k) + 1

\* Mutant: one chain too many.
ChainsOneMore(k) == 0..(IF k = 1 THEN S ELSE P)

\* The chains of a strand: s of the horizontal strand, p of each other one.
Chains(k) == 0..((IF k = 1 THEN S ELSE P) - 1)

\* IsValidIndex in a lattice of n data blocks.
IsValidIndex(i, n) == i \in 1..n

-----------------------------------------------------------------------------
(* What the parities are meant to be *)

\* The blocks whose forward neighbour on strand k is i, at most one when the chains
\* are disjoint.
Before(i, k, n) == {j \in 1..n : ForwardNeighbor(j, k) = i}

\* The blocks of the chain of i on strand k, up to i.
Prefix(k, n) ==
  LET upTo[i \in 1..n] ==
        {i} \cup UNION {upTo[j] : j \in {b \in Before(i, k, n) : b < i}}
  IN  upTo

\* A chain accumulates its data blocks; its first parity is closed over its last, so
\* that a chain is a ring: p_1 = d_1 + p_m, p_j = d_1 + ... + d_j.
Codeword(k, n) ==
  LET upTo == Prefix(k, n)
      last(i) == {j \in 1..n : i \in upTo[j] /\ ForwardNeighbor(j, k) > n}
  IN  [i \in 1..n |->
         IF Before(i, k, n) = {} /\ i \notin last(i)
           THEN SymDiff({i}, UNION {upTo[j] : j \in last(i)})
           ELSE upTo[i]]
=============================================================================
