------------------------------ MODULE RepairJob ------------------------------
(***************************************************************************)
(* What a collaborative repair promises to whoever asked for it, while no   *)
(* node and no request fails: the abstract specification that CollabRepair  *)
(* implements.  There is no daemon, no post, no peer and no report here: a  *)
(* repair of a file that a node coordinates begins, finds leaves missing,   *)
(* brings some of them back, and ends once, with a verdict to be relied on. *)
(***************************************************************************)
EXTENDS Integers

CONSTANTS
  Node,     \* the community nodes
  File,     \* the files under repair
  Leaf      \* the leaves of a file

VARIABLES
  status,   \* status[n][f]: "NONE", "PENDING", "SUCCESS", "FAILURE"
  found,    \* found[n][f]: the leaves that n's repair of f is for
  missing   \* missing[f]: leaves of f nobody can fetch from the network

vars == <<status, found, missing>>

Init ==
  /\ status = [n \in Node |-> [f \in File |-> "NONE"]]
  /\ found = [n \in Node |-> [f \in File |-> {}]]
  /\ missing \in [File -> SUBSET Leaf]

\* A repair begins only when the one before it has ended.
Begin(n, f) ==
  /\ status[n][f] # "PENDING"
  /\ status' = [status EXCEPT ![n][f] = "PENDING"]
  /\ found' = [found EXCEPT ![n][f] = {}]
  /\ UNCHANGED missing

\* It learns which leaves it is for once.
Find(n, f) ==
  /\ status[n][f] = "PENDING"
  /\ found[n][f] = {}
  /\ \E leaves \in (SUBSET Leaf) \ {{}} : found' = [found EXCEPT ![n][f] = leaves]
  /\ UNCHANGED <<status, missing>>

\* Leaves come back only through a repair that found them and has no verdict yet.
BringBack(n, f) ==
  /\ status[n][f] = "PENDING"
  /\ \E leaves \in SUBSET found[n][f] : missing' = [missing EXCEPT ![f] = @ \ leaves]
  /\ UNCHANGED <<status, found>>

\* The verdict is SUCCESS only when every leaf that was found can be fetched again.
End(n, f) ==
  /\ status[n][f] = "PENDING"
  /\ \E verdict \in {"SUCCESS", "FAILURE"} :
       /\ verdict = "SUCCESS" => found[n][f] \cap missing[f] = {}
       /\ status' = [status EXCEPT ![n][f] = verdict]
  /\ UNCHANGED <<found, missing>>

Next ==
  \E n \in Node, f \in File : Begin(n, f) \/ Find(n, f) \/ BringBack(n, f) \/ End(n, f)

Spec == Init /\ [][Next]_vars
=============================================================================
