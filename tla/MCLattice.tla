------------------------------- MODULE MCLattice -------------------------------
EXTENDS Lattice

\* With S = P = 3 and seven blocks: block 1 and what most of its recover pairs need.
Hard == {Data(1), Data(4), Parity(1, 1), Parity(1, 4), Parity(2, 5), Parity(3, 6)}
\* Without these parity 4 of strand 1 is recovered with depth 3 from a block of depth 4.
Deep == {Data(1), Data(2), Data(4), Data(5), Parity(1, 4), Parity(1, 7), Parity(2, 4),
         Parity(2, 7)}
AnyOfHardOrDeep == SUBSET Hard \cup {Deep}
StartAndNext == {Data(1), Data(4), Parity(1, 1), Parity(1, 4)}
StartAndEnd == {Data(1), Parity(1, 7)}
=============================================================================
