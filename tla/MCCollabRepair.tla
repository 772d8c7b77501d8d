--------------------------- MODULE MCCollabRepair ---------------------------
(***************************************************************************)
(* The instances of CollabRepair that TLC checks: three nodes and a file.  *)
(***************************************************************************)
EXTENDS CollabRepair

CONSTANTS n1, n2, n3, f1

\* The nodes that monitor the file: none, all but one.
NoMonitors == [x \in File |-> {}]
TwoMonitor == [x \in File |-> {n1, n2}]
=============================================================================
