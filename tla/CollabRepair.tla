---------------------------- MODULE CollabRepair ----------------------------
(***************************************************************************)
(* Collaborative repair of a file by the community nodes: the Daemon       *)
(* goroutine of every node (Server/daemon.go), the repair operations it    *)
(* runs (Server/repair.go) and the HTTP handlers that hand work to it      *)
(* (Server/server.go).                                                     *)
(*                                                                         *)
(* A node has ONE daemon.  It takes one operation at a time from unbuffered *)
(* channels and runs it to the end; a handler of gin blocks on its channel *)
(* until the daemon takes the operation, and only then answers 200; and a  *)
(* daemon that posts to another node (PostJSON, no timeout) blocks until   *)
(* that answer.  A post is therefore a rendezvous of two daemons, and      *)
(* `calls' holds the posts that have reached a handler and whose operation *)
(* no daemon has taken yet.                                                *)
(***************************************************************************)
EXTENDS Integers, FiniteSets, Sequences

CONSTANTS
  Node,            \* the community nodes
  File,            \* the files under repair
  NumLeaves,       \* the leaves of a file, by their lattice index
  Nobody,          \* the empty Origin, and the caller a handler no longer has
  Clients,         \* nodes that clients post /triggerCollabRepair to
  Origins,         \* the Origin such a client request may carry
  PeerLimits,      \* the NumPeers such a client request may carry
  Monitors,        \* Monitors[f]: nodes that monitor f (hold one of its strands)
  Inspectors,      \* nodes whose timer may find an unhealthy file
  Requests,        \* the repairs clients and timers ask for: "collab", "strand"
  MaxTriggers,     \* bound: repairs asked for, by clients and by inspections
  MaxFaults        \* bound: crashes, and requests or answers lost

Leaf == 1..NumLeaves

ASSUME ConstantsAssumption ==
  /\ NumLeaves \in Nat
  /\ MaxTriggers \in Nat
  /\ MaxFaults \in Nat
  /\ IsFiniteSet(Node)
  /\ Nobody \notin Node
  /\ Clients \subseteq Node
  /\ Inspectors \subseteq Node
  /\ Origins \subseteq Node \cup {Nobody}
  /\ PeerLimits \subseteq Nat
  /\ Monitors \in [File -> SUBSET Node]

\* inspector.go's RepairNumPeers: the NumPeers of a repair the node starts itself.
RepairNumPeers == 2

VARIABLES
  collabData,  \* collabData[n][f]: what n knows of the repair of f it coordinates
  strandData,  \* strandData[n][f]: status of n's strand repair for f
  daemon,      \* daemon[n]: what the daemon of n is doing
  calls,       \* posts waiting in a handler of their target
  missing,     \* missing[f]: leaves of f nobody can fetch from the network
  triggers,    \* repairs asked for so far
  faults       \* faults so far

vars == <<collabData, strandData, daemon, calls, missing, triggers, faults>>
jobVars == <<collabData, strandData>>

-----------------------------------------------------------------------------
(* Data *)

Status == {"NONE", "PENDING", "SUCCESS", "FAILURE"}

\* CollabPeerInfo: AllocatedBlocks is the pair of the leaves allocated to the
\* peer and those of them reported as repaired.
PeerInfo == [status : Status, alloc : SUBSET Leaf, repaired : SUBSET Leaf]
NoPeer == [status |-> "NONE", alloc |-> {}, repaired |-> {}]

\* CollaborativeRepairData.  "NONE" is an absent map entry.  `found' is
\* auxiliary: the leaves RetrieveFailedLeaves returned for this repair.
Job == [status : Status, origin : Node \cup {Nobody}, found : SUBSET Leaf,
        peers : [Node -> PeerInfo]]
NoJob == [status |-> "NONE", origin |-> Nobody, found |-> {},
          peers |-> [p \in Node |-> NoPeer]]

\* Operations on their way through a handler.  `from' is the node whose daemon
\* waits for the answer, Nobody when it is a client or has gone away.
Caller == Node \cup {Nobody}
CollabOp   == [kind : {"collab"}, to : Node, from : Caller, file : File,
               origin : Caller, limit : Nat]
UnitOp     == [kind : {"unit"}, to : Node, from : Caller, file : File,
               origin : Node, leaves : SUBSET Leaf]
UnitDone   == [kind : {"unitDone"}, to : Node, from : Caller, file : File,
               peer : Node, leaves : SUBSET Leaf, repaired : SUBSET Leaf]
CollabDone == [kind : {"collabDone"}, to : Node, from : Caller, file : File,
               coordinator : Node, ok : BOOLEAN]
PlainOp    == [kind : {"strand", "reset"}, to : Node, from : Caller, file : File]
Call == CollabOp \cup UnitOp \cup UnitDone \cup CollabDone \cup PlainOp

\* What a daemon is doing.  While it posts unit repairs: the shuffled peers, the
\* requests, the index i of the loop and sentRequests.
SendLoop(at) == [at : {at}, file : File, peers : Seq(Node),
                 reqs : Seq(SUBSET Leaf), i : Nat \ {0}, sent : Nat]
Activity ==
  [at : {"select", "reporting", "blocked", "panic", "down"}]
    \cup [at : {"retrieve"}, file : File, limit : Nat]
    \cup SendLoop("send") \cup SendLoop("sending")
    \cup SendLoop("accepted") \cup SendLoop("refused")
    \cup [at : {"unit"}, file : File, origin : Node, leaves : SUBSET Leaf]
    \cup [at : {"reset", "resetting"}, file : File, todo : SUBSET Node]

Select == [at |-> "select"]

\* The invariant every variable's values are drawn from.
TypeOK ==
  /\ collabData \in [Node -> [File -> Job]]
  /\ strandData \in [Node -> [File -> Status]]
  /\ daemon \in [Node -> Activity]
  /\ calls \subseteq Call
  /\ missing \in [File -> SUBSET Leaf]
  /\ triggers \in 0..MaxTriggers
  /\ faults \in 0..MaxFaults

Init ==
  /\ collabData = [n \in Node |-> [f \in File |-> NoJob]]
  /\ strandData = [n \in Node |-> [f \in File |-> "NONE"]]
  /\ daemon = [n \in Node |-> Select]
  /\ calls = {}
  /\ missing \in [File -> SUBSET Leaf]
  /\ triggers = 0
  /\ faults = 0

-----------------------------------------------------------------------------
(* PostJSON and the daemon's select *)

\* A daemon whose post is answered: with 200 (ok) or with an error.  Only the
\* loop that sends unit repairs looks at the difference.
Answered(d, ok) ==
  CASE d.at = "sending"   -> [d EXCEPT !.at = IF ok THEN "accepted" ELSE "refused"]
    [] d.at = "resetting" -> [d EXCEPT !.at = "reset"]
    [] d.at = "reporting" -> Select
    [] OTHER -> d

\* The daemons after the caller of c, if it still waits, has its answer.
Answer(c, ok) ==
  [n \in Node |-> IF n = c.from THEN Answered(daemon[n], ok) ELSE daemon[n]]

\* The daemon of n posts c and waits, as `waiting'; a node that is down refuses
\* the connection.
Post(n, c, waiting) ==
  IF daemon[c.to].at = "down"
    THEN /\ daemon' = [daemon EXCEPT ![n] = Answered(waiting, FALSE)]
         /\ UNCHANGED calls
    ELSE /\ daemon' = [daemon EXCEPT ![n] = waiting]
         /\ calls' = calls \cup {c}

\* The select of n takes c: the handler answers 200 and the daemon turns to `next',
\* having posted `posted'.
Take(n, c, kind, next, posted) ==
  /\ daemon[n].at = "select"
  /\ c.to = n
  /\ c.kind = kind
  /\ calls' = (calls \ {c}) \cup posted
  /\ daemon' = [Answer(c, TRUE) EXCEPT ![n] = next]

SetJob(n, f, job) == collabData' = [collabData EXCEPT ![n][f] = job]

-----------------------------------------------------------------------------
(* Coordinating a repair: StartCollabRepair *)

\* Mutant: a second request replaces the repair in progress.
BeginJobAlways(n, f, origin) ==
  SetJob(n, f, [NoJob EXCEPT !.status = "PENDING", !.origin = origin])

\* Mutant: the repair in progress is planned again.
AfterBeginAlways(n, f, limit) == [at |-> "retrieve", file |-> f, limit |-> limit]

\* The new entry of collabData, unless a repair of the file is in progress.
BeginJob(n, f, origin) ==
  IF collabData[n][f].status = "PENDING"
    THEN UNCHANGED collabData
    ELSE SetJob(n, f, [NoJob EXCEPT !.status = "PENDING", !.origin = origin])

AfterBegin(n, f, limit) ==
  IF collabData[n][f].status = "PENDING"
    THEN Select
    ELSE [at |-> "retrieve", file |-> f, limit |-> limit]

\* The daemon takes a collaborative repair from its channel.
StartCollabRepair(n, c) ==
  /\ Take(n, c, "collab", AfterBegin(n, c.file, c.limit), {})
  /\ BeginJob(n, c.file, c.origin)
  /\ UNCHANGED <<strandData, missing, triggers, faults>>

\* The inspection timer finds the data of a file it monitors unhealthy
\* (InspectFile, repairFile): the daemon starts the repair without a channel,
\* with itself as the Origin.
RepairFile(n, f) ==
  /\ n \in Inspectors \cap Monitors[f]
  /\ "collab" \in Requests
  /\ daemon[n].at = "select"
  /\ triggers < MaxTriggers
  /\ triggers' = triggers + 1
  /\ daemon' = [daemon EXCEPT ![n] = AfterBegin(n, f, RepairNumPeers)]
  /\ BeginJob(n, f, n)
  /\ UNCHANGED <<strandData, calls, missing, faults>>

\* RetrieveFailedLeaves or getAllPeers returns an error.
RetrieveFails(n) ==
  /\ daemon[n].at = "retrieve"
  /\ LET f == daemon[n].file IN
       SetJob(n, f, [collabData[n][f] EXCEPT !.status = "FAILURE"])
  /\ daemon' = [daemon EXCEPT ![n] = Select]
  /\ UNCHANGED <<strandData, calls, missing, triggers, faults>>

\* RetrieveFailedLeaves returns no leaf.
NothingToRepair(n) ==
  /\ daemon[n].at = "retrieve"
  /\ LET f == daemon[n].file IN
       SetJob(n, f, [collabData[n][f] EXCEPT !.status = "SUCCESS"])
  /\ daemon' = [daemon EXCEPT ![n] = Select]
  /\ UNCHANGED <<strandData, calls, missing, triggers, faults>>

\* The orders a set can be put in, and the leaves in the order of the tree walk.
Orders(S) ==
  {s \in [1..Cardinality(S) -> S] : \A j, k \in 1..Cardinality(S) : s[j] = s[k] => j = k}

InTreeOrder(found) == {s \in Orders(found) : \A j, k \in 1..Len(s) : j < k => s[j] < s[k]}

SmallerOf(a, b) == IF a < b THEN a ELSE b

\* Mutant: discovery's list with the node itself.
AllPeersAndSelf(n) == {Node}

\* getAllPeers: the lists discovery may answer with, without the node itself.  A node
\* that is up has announced itself and passes the health checks; one that is down is
\* listed until it has failed enough of them.
AllPeers(n) ==
  {listed \in SUBSET (Node \ {n}) : {m \in Node \ {n} : daemon[m].at # "down"} \subseteq listed}

\* numPeers: at most op.NumPeers, the peers there are and the leaves there are.
NumPeers(limit, peers, leaves) == SmallerOf(SmallerOf(limit, Len(peers)), Len(leaves))

\* Mutants: the remainder of the division is dropped; a slice starts one leaf early;
\* an index is shifted as for GetChunk.
FailedIndicesNoRest(leaves, np, k) ==
  LET leavesPerPeer == Len(leaves) \div np
  IN  {leaves[j] : j \in ((k - 1) * leavesPerPeer + 1)..(k * leavesPerPeer)}

FailedIndicesOverlap(leaves, np, k) ==
  LET leavesPerPeer == Len(leaves) \div np
      first == IF k = 1 THEN 1 ELSE (k - 1) * leavesPerPeer
      last == IF k = np THEN Len(leaves) ELSE k * leavesPerPeer
  IN  {leaves[j] : j \in first..last}

FailedIndicesShifted(leaves, np, k) ==
  LET leavesPerPeer == Len(leaves) \div np
      last == IF k = np THEN Len(leaves) ELSE k * leavesPerPeer
  IN  {leaves[j] + 1 : j \in ((k - 1) * leavesPerPeer + 1)..last}

\* The leaves of request k of np: leavesPerPeer each, the rest for the last.
FailedIndices(leaves, np, k) ==
  LET leavesPerPeer == Len(leaves) \div np
      last == IF k = np THEN Len(leaves) ELSE k * leavesPerPeer
  IN  {leaves[j] : j \in ((k - 1) * leavesPerPeer + 1)..last}

\* RetrieveFailedLeaves returns some leaves: those that no fetch of 100 ms returned
\* and that the repair of the intermediate nodes did not recover on its way, so any
\* set of leaves.  The peers are shuffled and the requests prepared; with no peer
\* to use, the division by numPeers panics.
PlanRequests(n) ==
  /\ daemon[n].at = "retrieve"
  /\ \E found \in (SUBSET Leaf) \ {{}}, listed \in AllPeers(n) :
       \E leaves \in InTreeOrder(found), peers \in Orders(listed) :
         LET f  == daemon[n].file
             np == NumPeers(daemon[n].limit, peers, leaves)
         IN  /\ SetJob(n, f, [collabData[n][f] EXCEPT !.found = found])
             /\ daemon' = [daemon EXCEPT ![n] =
                  IF np = 0 THEN [at |-> "panic"]
                  ELSE [at |-> "send", file |-> f, peers |-> peers,
                        reqs |-> [k \in 1..np |-> FailedIndices(leaves, np, k)],
                        i |-> 1, sent |-> 0]]
  /\ UNCHANGED <<strandData, calls, missing, triggers, faults>>

\* The loop posts request i to peer i; with i beyond the requests, the index panics.
SendRequest(n) ==
  LET d == daemon[n] IN
  /\ d.at = "send"
  /\ IF d.i > Len(d.reqs)
       THEN /\ daemon' = [daemon EXCEPT ![n] = [at |-> "panic"]]
            /\ UNCHANGED calls
       ELSE Post(n, [kind |-> "unit", to |-> d.peers[d.i], from |-> n, file |-> d.file,
                     origin |-> n, leaves |-> d.reqs[d.i]],
                 [d EXCEPT !.at = "sending"])
  /\ UNCHANGED <<jobVars, missing, triggers, faults>>

\* The peer's entry after it accepted `leaves': a new one, or the old one with its
\* status as it was.
Allocate(info, leaves) ==
  [status   |-> IF info.status = "NONE" THEN "PENDING" ELSE info.status,
   alloc    |-> info.alloc \cup leaves,
   repaired |-> info.repaired \ leaves]

\* The index after i, around the peers.
NextPeer(d) == IF d.i = Len(d.peers) THEN 1 ELSE d.i + 1

\* The loop after a post that was accepted, and the loop's condition.
RequestAccepted(n) ==
  LET d == daemon[n]
      p == d.peers[d.i]
      job == collabData[n][d.file]
  IN
  /\ d.at = "accepted"
  /\ SetJob(n, d.file, [job EXCEPT !.peers[p] = Allocate(job.peers[p], d.reqs[d.i])])
  /\ daemon' = [daemon EXCEPT ![n] =
       IF d.sent + 1 < Len(d.reqs)
         THEN [d EXCEPT !.at = "send", !.i = NextPeer(d), !.sent = @ + 1]
         ELSE Select]
  /\ UNCHANGED <<strandData, calls, missing, triggers, faults>>

\* The loop after a post that failed: the next peer.
RequestRefused(n) ==
  /\ daemon[n].at = "refused"
  /\ daemon' = [daemon EXCEPT ![n] = [@ EXCEPT !.at = "send", !.i = NextPeer(daemon[n])]]
  /\ UNCHANGED <<jobVars, calls, missing, triggers, faults>>

-----------------------------------------------------------------------------
(* Repairing leaves for a coordinator: StartUnitRepair *)

StartUnitRepair(n, c) ==
  /\ Take(n, c, "unit", [at |-> "unit", file |-> c.file, origin |-> c.origin,
                         leaves |-> c.leaves], {})
  /\ UNCHANGED <<jobVars, missing, triggers, faults>>

\* RepairFailedLeaves retrieves some of the leaves and puts them back on the
\* network (none when it fails before it starts); the result goes to the Origin.
FinishUnitRepair(n) ==
  LET d == daemon[n] IN
  /\ d.at = "unit"
  /\ \E repaired \in SUBSET d.leaves :
       /\ missing' = [missing EXCEPT ![d.file] = @ \ repaired]
       /\ Post(n, [kind |-> "unitDone", to |-> d.origin, from |-> n, file |-> d.file,
                   peer |-> n, leaves |-> d.leaves, repaired |-> repaired],
               [at |-> "reporting"])
  /\ UNCHANGED <<jobVars, triggers, faults>>

-----------------------------------------------------------------------------
(* Collecting the results: ReportUnitRepair *)

\* Mutant: a failed report leaves the status as it was.
ReportedOnlySuccess(info, c) ==
  [status   |-> IF c.repaired = c.leaves THEN "SUCCESS" ELSE info.status,
   alloc    |-> info.alloc \cup c.repaired,
   repaired |-> info.repaired \cup c.repaired]

\* A peer's entry after its report: SUCCESS when every leaf of the report was repaired.
Reported(info, c) ==
  [status   |-> IF c.repaired = c.leaves THEN "SUCCESS" ELSE "FAILURE",
   alloc    |-> info.alloc \cup c.repaired,
   repaired |-> info.repaired \cup c.repaired]

Involved(peers) == {p \in Node : peers[p].status # "NONE"}

\* Mutants: a repair ends only in success; the first success decides.
VerdictOnlySuccess(peers, before) ==
  IF \A p \in Involved(peers) : peers[p].status = "SUCCESS" THEN "SUCCESS" ELSE before

VerdictFirstSuccess(peers, before) ==
  CASE \E p \in Involved(peers) : peers[p].status = "SUCCESS" -> "SUCCESS"
    [] \A p \in Involved(peers) : peers[p].status = "FAILURE" -> "FAILURE"
    [] OTHER -> before

\* The status of a repair once its peers are in the states `peers'.
Verdict(peers, before) ==
  CASE \E p \in Involved(peers) : peers[p].status = "PENDING" -> before
    [] \A p \in Involved(peers) : peers[p].status = "SUCCESS" -> "SUCCESS"
    [] OTHER -> "FAILURE"

\* A report for no repair, or from no peer of it, is dropped.
IgnoreReport(n, c) ==
  /\ Take(n, c, "unitDone", Select, {})
  /\ collabData[n][c.file].peers[c.peer].status = "NONE"
  /\ UNCHANGED <<jobVars, missing, triggers, faults>>

\* Otherwise the peer's entry is updated.  When no peer is left pending the repair
\* has its verdict, and its Origin, if there is one, gets a result: `success' of
\* THIS report.
ReportUnitRepair(n, c) ==
  LET job == collabData[n][c.file]
      peers == [job.peers EXCEPT ![c.peer] = Reported(@, c)]
      allPeersDone == \A p \in Involved(peers) : peers[p].status # "PENDING"
      success == c.repaired = c.leaves
      result == [kind |-> "collabDone", to |-> job.origin, from |-> n, file |-> c.file,
                 coordinator |-> n, ok |-> success]
      tell == allPeersDone /\ job.origin # Nobody /\ daemon[job.origin].at # "down"
  IN
  /\ Take(n, c, "unitDone", IF tell THEN [at |-> "reporting"] ELSE Select,
          IF tell THEN {result} ELSE {})
  /\ job.peers[c.peer].status # "NONE"
  /\ SetJob(n, c.file, [job EXCEPT !.peers = peers, !.status = Verdict(peers, @)])
  /\ UNCHANGED <<strandData, missing, triggers, faults>>

-----------------------------------------------------------------------------
(* Strand repair: StartStrandRepair, ContinueStrandRepair *)

\* Unless a strand repair of the file is pending, the daemon enters one and sends a
\* collaborative repair to its own collabOps channel, which only it receives from.
BeginStrand(n, f) == strandData' = [strandData EXCEPT ![n][f] = "PENDING"]

AfterStrand(n, f) ==
  IF strandData[n][f] = "PENDING" THEN Select ELSE [at |-> "blocked"]

StartStrandRepair(n, c) ==
  /\ Take(n, c, "strand", AfterStrand(n, c.file), {})
  /\ BeginStrand(n, c.file)
  /\ UNCHANGED <<collabData, missing, triggers, faults>>

\* The inspection timer finds the strand unhealthy (InspectFile, repairStrand).
RepairStrand(n, f) ==
  /\ n \in Inspectors \cap Monitors[f]
  /\ "strand" \in Requests
  /\ daemon[n].at = "select"
  /\ triggers < MaxTriggers
  /\ triggers' = triggers + 1
  /\ daemon' = [daemon EXCEPT ![n] = AfterStrand(n, f)]
  /\ BeginStrand(n, f)
  /\ UNCHANGED <<collabData, calls, missing, faults>>

\* The status of a strand repair after the result `ok' of the collaborative repair
\* and, when that succeeded, `regenerated' of the strand.
StrandVerdict(before, ok, regenerated) ==
  IF before # "PENDING" THEN before
  ELSE IF ok /\ regenerated THEN "SUCCESS" ELSE "FAILURE"

\* The Origin of a collaborative repair learns its result.  But for a failed one that
\* a strand waits for, it resets the statistics of the file on all nodes that monitor
\* it and whose address it finds; it looks the file up in its own table first, and
\* panics when it does not monitor the file.
ContinueStrandRepair(n, c) ==
  /\ \E regenerated \in BOOLEAN, todo \in SUBSET Monitors[c.file] :
       /\ Take(n, c, "collabDone",
               IF strandData[n][c.file] = "PENDING" /\ ~c.ok THEN Select
               ELSE IF n \notin Monitors[c.file] THEN [at |-> "panic"]
               ELSE [at |-> "reset", file |-> c.file, todo |-> todo], {})
       /\ strandData' = [strandData EXCEPT ![n][c.file] =
            StrandVerdict(strandData[n][c.file], c.ok, regenerated)]
  /\ UNCHANGED <<collabData, missing, triggers, faults>>

\* resetMonitorFile posts /resetMonitorFile to one of them, the node itself included.
PostReset(n) ==
  /\ daemon[n].at = "reset"
  /\ \E m \in daemon[n].todo :
       Post(n, [kind |-> "reset", to |-> m, from |-> n, file |-> daemon[n].file],
            [daemon[n] EXCEPT !.at = "resetting", !.todo = @ \ {m}])
  /\ UNCHANGED <<jobVars, missing, triggers, faults>>

ResetsDone(n) ==
  /\ daemon[n].at = "reset"
  /\ daemon[n].todo = {}
  /\ daemon' = [daemon EXCEPT ![n] = Select]
  /\ UNCHANGED <<jobVars, calls, missing, triggers, faults>>

\* The daemon takes a RESET_MONITOR_FILE operation (its effect on the statistics is
\* no part of this module).
ResetMonitor(n, c) ==
  /\ Take(n, c, "reset", Select, {})
  /\ UNCHANGED <<jobVars, missing, triggers, faults>>

-----------------------------------------------------------------------------
(* Clients and faults *)

\* A client posts a repair to a node that is up; the handler waits for the daemon.
ClientAsks(kind, n) ==
  /\ kind \in Requests
  /\ n \in Clients
  /\ daemon[n].at # "down"
  /\ triggers < MaxTriggers
  /\ triggers' = triggers + 1
  /\ UNCHANGED <<jobVars, daemon, missing, faults>>

TriggerCollabRepair(n, f) ==
  /\ ClientAsks("collab", n)
  /\ \E origin \in Origins, limit \in PeerLimits :
       calls' = calls \cup {[kind |-> "collab", to |-> n, from |-> Nobody, file |-> f,
                             origin |-> origin, limit |-> limit]}

TriggerStrandRepair(n, f) ==
  /\ ClientAsks("strand", n)
  /\ calls' = calls \cup {[kind |-> "strand", to |-> n, from |-> Nobody, file |-> f]}

\* A post fails before its request reaches the handler ...
LoseRequest(c) ==
  /\ faults < MaxFaults
  /\ faults' = faults + 1
  /\ c.from # Nobody
  /\ calls' = calls \ {c}
  /\ daemon' = Answer(c, FALSE)
  /\ UNCHANGED <<jobVars, missing, triggers>>

\* ... or after, and the handler goes on without its caller.
LoseAnswer(c) ==
  /\ faults < MaxFaults
  /\ faults' = faults + 1
  /\ c.from # Nobody
  /\ calls' = (calls \ {c}) \cup {[c EXCEPT !.from = Nobody]}
  /\ daemon' = Answer(c, FALSE)
  /\ UNCHANGED <<jobVars, missing, triggers>>

\* The process of n ends: its maps are gone, posts to it fail, its own posts go on
\* in their handlers.
Dies(n) ==
  /\ daemon' = [m \in Node |->
       IF m = n THEN [at |-> "down"]
       ELSE IF \E c \in calls : c.to = n /\ c.from = m THEN Answered(daemon[m], FALSE)
       ELSE daemon[m]]
  /\ calls' = {IF c.from = n THEN [c EXCEPT !.from = Nobody] ELSE c :
                 c \in {d \in calls : d.to # n}}
  /\ collabData' = [collabData EXCEPT ![n] = [f \in File |-> NoJob]]
  /\ strandData' = [strandData EXCEPT ![n] = [f \in File |-> "NONE"]]
  /\ UNCHANGED <<missing, triggers>>

Panic(n) ==
  /\ daemon[n].at = "panic"
  /\ Dies(n)
  /\ UNCHANGED faults

Crash(n) ==
  /\ daemon[n].at \notin {"panic", "down"}
  /\ faults < MaxFaults
  /\ faults' = faults + 1
  /\ Dies(n)

Restart(n) ==
  /\ daemon[n].at = "down"
  /\ daemon' = [daemon EXCEPT ![n] = Select]
  /\ UNCHANGED <<jobVars, calls, missing, triggers, faults>>

-----------------------------------------------------------------------------
(* The system *)

\* What the daemon of n does by itself.
Runs(n) ==
  \/ RetrieveFails(n) \/ NothingToRepair(n) \/ PlanRequests(n)
  \/ SendRequest(n) \/ RequestAccepted(n) \/ RequestRefused(n)
  \/ FinishUnitRepair(n)
  \/ PostReset(n) \/ ResetsDone(n)
  \/ Panic(n)

\* What it takes from its channels.
Receives(n, c) ==
  \/ StartCollabRepair(n, c) \/ StartUnitRepair(n, c)
  \/ IgnoreReport(n, c) \/ ReportUnitRepair(n, c)
  \/ StartStrandRepair(n, c) \/ ContinueStrandRepair(n, c)
  \/ ResetMonitor(n, c)

Daemon(n) == Runs(n) \/ \E c \in calls : Receives(n, c)

Environment ==
  \/ \E n \in Node, f \in File :
       \/ TriggerCollabRepair(n, f) \/ TriggerStrandRepair(n, f)
       \/ RepairFile(n, f) \/ RepairStrand(n, f)
  \/ \E c \in calls : LoseRequest(c) \/ LoseAnswer(c)
  \/ \E n \in Node : Crash(n) \/ Restart(n)

Next == Environment \/ \E n \in Node : Daemon(n)

\* A daemon that can go on does: its goroutine runs, and its select takes an operation
\* that is ready.  Clients, timers, faults and restarts owe nothing.
Fairness == \A n \in Node : WF_vars(Daemon(n))

Spec == Init /\ [][Next]_vars /\ Fairness

-----------------------------------------------------------------------------
(* Properties that hold whatever fails *)

\* The daemon of n is inside StartCollabRepair for f.
Starting(n, f) ==
  /\ daemon[n].at \in {"retrieve", "send", "sending", "accepted", "refused"}
  /\ daemon[n].file = f

SomePeerPending(job) == \E p \in Node : job.peers[p].status = "PENDING"

\* A repair that the coordinator is not starting is pending exactly as long as one of
\* its peers is: no repair gets its verdict early and none is left pending with nobody
\* to wait for (repair.go: the entry, the send loop and ReportUnitRepair agree).
PendingIffAwaited ==
  \A n \in Node, f \in File :
    \/ Starting(n, f)
    \/ daemon[n].at = "panic"
    \/ collabData[n][f].status = "PENDING" <=> SomePeerPending(collabData[n][f])

\* A repair in progress is not replaced by another request for its file: it keeps its
\* Origin and the peers that accepted a part of it (repair.go: StartCollabRepair's first
\* return), until it has a verdict or the process ends.
Keeps(job, next) ==
  /\ next.origin = job.origin
  /\ \A p \in Node : job.peers[p].status # "NONE" =>
       job.peers[p].alloc \subseteq next.peers[p].alloc

KeepPending ==
  \A n \in Node, f \in File :
    collabData[n][f].status = "PENDING" /\ daemon'[n].at # "down" =>
      Keeps(collabData[n][f], collabData'[n][f])

PendingRepairIsKept == [][KeepPending]_vars

-----------------------------------------------------------------------------
(* Properties of a system without faults *)

\* The peers of n's repair of f with work for it on its way: the request in a handler,
\* the repair itself, or the report in a handler.
Requested(n, f, p) ==
  {c \in calls : c.kind = "unit" /\ c.origin = n /\ c.file = f /\ c.to = p}
Repairing(n, f, p) ==
  IF daemon[p].at = "unit" THEN {d \in {daemon[p]} : d.origin = n /\ d.file = f} ELSE {}
Reports(n, f, p) ==
  {c \in calls : c.kind = "unitDone" /\ c.to = n /\ c.file = f /\ c.peer = p}
WorkOnItsWay(n, f, p) ==
  Cardinality(Requested(n, f, p)) + Cardinality(Repairing(n, f, p))
    + Cardinality(Reports(n, f, p))

\* Once the requests are out, every pending peer owes its coordinator exactly one
\* report and every other node none, so that every report counts and none is for an
\* earlier repair of the file (reports carry no identity of the repair, types.go).
PeersOweOneReport ==
  \A n \in Node, f \in File, p \in Node :
    ~Starting(n, f) =>
      WorkOnItsWay(n, f, p) = IF collabData[n][f].peers[p].status = "PENDING" THEN 1 ELSE 0

\* A repair that ended in SUCCESS has brought back every leaf it found missing
\* (repair.go:228: "once all peers have sent back a response, we will check if all
\* leaves have been repaired").
SuccessMeansRepaired ==
  \A n \in Node, f \in File :
    collabData[n][f].status = "SUCCESS" => collabData[n][f].found \cap missing[f] = {}

\* No leaf is handed to two peers of a repair, and only leaves that were found missing
\* are (the slices of StartCollabRepair).
LeavesSplit ==
  \A n \in Node, f \in File :
    LET job == collabData[n][f] IN
    \A p \in Node :
      /\ job.peers[p].alloc \subseteq job.found
      /\ \A q \in Node \ {p} : job.peers[p].alloc \cap job.peers[q].alloc = {}

\* The Origin hears the verdict of the repair: SUCCESS if and only if all its peers
\* succeeded (ContinueStrandRepair decides by it whether the data of the file is there).
OriginLearnsVerdict ==
  \A c \in calls :
    c.kind = "collabDone" /\ c.from # Nobody =>
      c.ok = (collabData[c.coordinator][c.file].status = "SUCCESS")

\* The repair as whoever asked for it sees it: RepairJob, with the peers, the posts and
\* the daemons left out.  No verdict is early, given twice or withdrawn, no work is done
\* for a repair that has ended, and SUCCESS can be relied on (StartCollabRepair,
\* StartUnitRepair and ReportUnitRepair together).
Promised == INSTANCE RepairJob WITH
  status <- [n \in Node |-> [f \in File |-> collabData[n][f].status]],
  found  <- [n \in Node |-> [f \in File |-> collabData[n][f].found]]

RepairsAsPromised == Promised!Spec

\* Every repair that is started gets its verdict.
RepairsSettle ==
  \A n \in Node, f \in File :
    collabData[n][f].status = "PENDING" ~> collabData[n][f].status # "PENDING"

\* Every daemon returns to its select: no post waits for ever (no cycle of daemons
\* that wait for each other).
DaemonsReturn == \A n \in Node : daemon[n].at # "select" ~> daemon[n].at = "select"
=============================================================================
