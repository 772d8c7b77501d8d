------------------------ MODULE CollabRepair_proofs -------------------------
(***************************************************************************)
(* The theorems about CollabRepair: first what holds whatever is lost and  *)
(* whoever crashes, on TypeInv; then, from FaultFree on, what a            *)
(* collaborative repair achieves when nothing fails: every peer owes its   *)
(* coordinator one report, a repair that ends in SUCCESS has brought its   *)
(* leaves back, and no leaf is repaired twice.  That proof goes in two     *)
(* steps: CallsInv says who waits for which post, WorkInv what the posts   *)
(* and the daemons hold of every repair.                                   *)
(***************************************************************************)
EXTENDS CollabRepair, FiniteSetTheorems, TLAPS

LEMMA DivisionBound ==
  ASSUME NEW len \in Nat, NEW np \in Nat \ {0}, NEW k \in 1..np
  PROVE  /\ len \div np \in Nat
         /\ k * (len \div np) <= len
         /\ (k - 1) * (len \div np) >= 0
<1> DEFINE q == len \div np
<1>1. q \in Nat /\ np * q <= len
  BY SMT
<1> HIDE DEF q
<1>2. k * q <= np * q /\ (k - 1) * q >= 0
  BY <1>1, SMT
<1>3. k * q <= len
  BY <1>1, <1>2, SMT
<1> QED BY <1>1, <1>2, <1>3 DEF q

-----------------------------------------------------------------------------
(* The helper operators keep to their types. *)

StartingAt == {"retrieve", "send", "sending", "accepted", "refused"}

LEMMA NestedUpdate ==
  ASSUME NEW A, NEW B, NEW T, NEW g \in [A -> [B -> T]],
         NEW x \in A, NEW y \in B, NEW v \in T
  PROVE  [g EXCEPT ![x][y] = v] \in [A -> [B -> T]]
OBVIOUS

LEMMA JobUpdate ==
  ASSUME NEW job \in Job, NEW st \in Status, NEW found \in SUBSET Leaf
  PROVE  [job EXCEPT !.status = st] \in Job /\ [job EXCEPT !.found = found] \in Job
BY DEF Job

LEMMA NoJobType == NoJob \in Job
BY DEF NoJob, Job, NoPeer, PeerInfo, Status

\* Where the send loop is when it has read a request: at one of those it prepared, for one
\* of its peers. Of a loop about to read one ("send") only the peer is certain: refusals
\* lead it past the requests, where SendRequest panics (repair.go:189).
InRange(d) ==
  d.at \in {"send", "sending", "accepted", "refused"} =>
    /\ d.i <= Len(d.peers) /\ Len(d.reqs) <= Len(d.peers)
    /\ d.at # "send" => d.i <= Len(d.reqs)

\* What a daemon can be doing. Type correctness alone is not inductive: the peer of a
\* request is peers[i].
Sound == {d \in Activity : InRange(d)}
TypeInv ==
  /\ collabData \in [Node -> [File -> Job]]
  /\ strandData \in [Node -> [File -> Status]]
  /\ daemon \in [Node -> Sound]
  /\ calls \subseteq Call
  /\ missing \in [File -> SUBSET Leaf]
  /\ triggers \in 0..MaxTriggers
  /\ faults \in 0..MaxFaults

\* An answer moves a daemon inside what it is doing.
LEMMA AnsweredType ==
  ASSUME NEW d \in Sound, NEW ok \in BOOLEAN
  PROVE  /\ Answered(d, ok) \in Sound
         /\ Answered(d, ok).at = "panic" <=> d.at = "panic"
         /\ Answered(d, ok).at \in StartingAt <=> d.at \in StartingAt
         /\ d.at \in StartingAt => Answered(d, ok).file = d.file
<1>1. CASE d.at = "sending"
  <2>1. d \in SendLoop("sending")
    BY <1>1 DEF Sound, InRange, Activity, SendLoop
  <2>2. [d EXCEPT !.at = "accepted"] \in SendLoop("accepted")
        /\ [d EXCEPT !.at = "refused"] \in SendLoop("refused")
    BY <2>1 DEF SendLoop
  <2>3. Answered(d, ok) = [d EXCEPT !.at = IF ok THEN "accepted" ELSE "refused"]
    BY <1>1 DEF Answered
  <2>4. Answered(d, ok).at = (IF ok THEN "accepted" ELSE "refused")
        /\ Answered(d, ok).file = d.file
    BY <2>1, <2>3 DEF SendLoop
  <2>5. Answered(d, ok) \in Sound
    <3> DEFINE e == Answered(d, ok)
    <3>1. d.i <= Len(d.peers) /\ Len(d.reqs) <= Len(d.peers) /\ d.i <= Len(d.reqs)
      BY <1>1 DEF Sound, InRange
    <3>2. e \in SendLoop("accepted") \cup SendLoop("refused")
      BY <2>2, <2>3
    <3>3. e.i = d.i /\ e.peers = d.peers /\ e.reqs = d.reqs
      BY <2>1, <2>3 DEF SendLoop
    <3>4. InRange(e)
      BY <3>1, <3>3 DEF InRange
    <3> QED BY <3>2, <3>4 DEF Sound, Activity
  <2> QED BY <1>1, <2>4, <2>5 DEF StartingAt
<1>2. CASE d.at = "resetting"
  BY <1>2 DEF Answered, Sound, InRange, Activity, SendLoop, StartingAt
<1>3. CASE d.at = "reporting"
  BY <1>3 DEF Answered, Sound, InRange, Activity, Select, StartingAt
<1>4. CASE d.at \notin {"sending", "resetting", "reporting"}
  BY <1>4 DEF Answered
<1> QED BY <1>1, <1>2, <1>3, <1>4

LEMMA AnswerType ==
  ASSUME TypeInv, NEW c, NEW ok \in BOOLEAN
  PROVE  Answer(c, ok) \in [Node -> Sound]
BY AnsweredType DEF Answer, TypeInv

LEMMA CallKinds ==
  ASSUME NEW c \in Call
  PROVE  /\ c.to \in Node /\ c.from \in Caller /\ c.file \in File
         /\ c.kind = "collab" => c \in CollabOp
         /\ c.kind = "unit" => c \in UnitOp
         /\ c.kind = "unitDone" => c \in UnitDone
         /\ c.kind = "collabDone" => c \in CollabDone
         /\ c.kind \in {"strand", "reset"} => c \in PlainOp
BY DEF Call, CollabOp, UnitOp, UnitDone, CollabDone, PlainOp

\* An operation whose caller is gone.
LEMMA OrphanType ==
  ASSUME NEW c \in Call
  PROVE  [c EXCEPT !.from = Nobody] \in Call
BY DEF Call, CollabOp, UnitOp, UnitDone, CollabDone, PlainOp, Caller

LEMMA PostType ==
  ASSUME TypeInv, NEW n \in Node, NEW c \in Call, NEW waiting \in Sound,
         Post(n, c, waiting)
  PROVE  daemon' \in [Node -> Sound] /\ calls' \subseteq Call
<1>1. Answered(waiting, FALSE) \in Sound
  BY AnsweredType
<1> QED BY <1>1 DEF Post, TypeInv

LEMMA TakeType ==
  ASSUME TypeInv, NEW n \in Node, NEW c, NEW kind, NEW next \in Sound,
         NEW posted \in SUBSET Call, Take(n, c, kind, next, posted)
  PROVE  daemon' \in [Node -> Sound] /\ calls' \subseteq Call
<1>1. Answer(c, TRUE) \in [Node -> Sound]
  BY AnswerType
<1> QED BY <1>1 DEF Take, TypeInv

LEMMA SetJobType ==
  ASSUME TypeInv, NEW n \in Node, NEW f \in File, NEW job \in Job, SetJob(n, f, job)
  PROVE  collabData' \in [Node -> [File -> Job]]
BY DEF SetJob, TypeInv

LEMMA BeginType ==
  ASSUME TypeInv, NEW n \in Node, NEW f \in File, NEW origin \in Caller,
         BeginJob(n, f, origin)
  PROVE  collabData' \in [Node -> [File -> Job]]
<1>1. [NoJob EXCEPT !.status = "PENDING", !.origin = origin] \in Job
  BY DEF NoJob, Job, NoPeer, PeerInfo, Status, Caller
<1> QED BY <1>1, SetJobType DEF BeginJob, TypeInv

LEMMA AfterBeginType ==
  ASSUME NEW n, NEW f \in File, NEW limit \in Nat
  PROVE  AfterBegin(n, f, limit) \in Sound
BY DEF AfterBegin, Select, Sound, InRange, Activity

\* Every element of an order of S is in S.
LEMMA OrdersType ==
  ASSUME NEW S, IsFiniteSet(S), NEW s \in Orders(S)
  PROVE  s \in Seq(S) /\ Len(s) = Cardinality(S)
<1>1. Cardinality(S) \in Nat
  BY FS_CardinalityType
<1> QED BY <1>1 DEF Orders

\* A request holds leaves of the sequence that was split, for every request the loop
\* prepares: the slices of StartCollabRepair stay inside `leaves'.
LEMMA FailedIndicesType ==
  ASSUME NEW S, NEW leaves \in Seq(S), NEW np \in Nat \ {0}, NEW k \in 1..np
  PROVE  FailedIndices(leaves, np, k) \subseteq S
<1> DEFINE len == Len(leaves)
           lpp == len \div np
           last == IF k = np THEN len ELSE k * lpp
<1>0. len \in Nat
  OBVIOUS
<1> HIDE DEF len
<1>1. /\ lpp \in Nat
      /\ k * lpp <= len /\ (k - 1) * lpp >= 0
  BY <1>0, DivisionBound
<1>2. last \in Int /\ last <= len /\ k * lpp \in Int /\ (k - 1) * lpp \in Int
  BY <1>0, <1>1
<1> HIDE DEF lpp, last
<1>3. \A j \in ((k - 1) * lpp + 1)..last : j \in 1..len
  BY <1>0, <1>1, <1>2
<1>4. \A j \in 1..len : leaves[j] \in S
  BY DEF len
<1> QED BY <1>3, <1>4 DEF FailedIndices, len, lpp, last

LEMMA ProductOrder ==
  ASSUME NEW x \in Int, NEW y \in Int, NEW q \in Nat, x <= y
  PROVE  x * q <= y * q /\ x * q \in Int /\ y * q \in Int
BY SMT

LEMMA ProductStep ==
  ASSUME NEW x \in Int, NEW q \in Int
  PROVE  (x - 1) * q = x * q - q /\ (x + 1) * q = x * q + q /\ x * q = q * x /\ x * q \in Int
BY SMT

\* The position of the slice that holds position j: slices of q positions each, the last
\* of np slices taking the rest.
LEMMA SliceOf ==
  ASSUME NEW q \in Nat \ {0}, NEW j \in Nat \ {0}
  PROVE  \E k \in Nat \ {0} : (k - 1) * q < j /\ j <= k * q
<1> DEFINE r == (j - 1) \div q
<1>1. r \in Nat /\ q * r <= j - 1 /\ j - 1 < q * r + q
  BY SMT
<1> HIDE DEF r
<1>2. (r + 1) * q = q * r + q /\ r * q = q * r /\ q * r \in Int
  BY <1>1, ProductStep
<1>3. (r + 1) - 1 = r /\ r + 1 \in Nat \ {0}
  BY <1>1
<1>4. ((r + 1) - 1) * q < j /\ j <= (r + 1) * q
  BY <1>1, <1>2, <1>3
<1> QED BY <1>3, <1>4

\* The requests of StartCollabRepair split the leaves it found: every leaf is in a
\* request, none in two, and no request is empty, whatever the division leaves over.
THEOREM RequestsSplitLeaves ==
  ASSUME NEW S, NEW leaves \in Seq(S), NEW np \in 1..Len(leaves),
         \A j, k \in 1..Len(leaves) : leaves[j] = leaves[k] => j = k
  PROVE  /\ \A j \in 1..Len(leaves) : \E k \in 1..np : leaves[j] \in FailedIndices(leaves, np, k)
         /\ \A k, l \in 1..np : k # l =>
              FailedIndices(leaves, np, k) \cap FailedIndices(leaves, np, l) = {}
         /\ \A k \in 1..np : FailedIndices(leaves, np, k) # {}
<1> DEFINE len == Len(leaves)
           q == len \div np
           first(k) == (k - 1) * q + 1
           last(k) == IF k = np THEN len ELSE k * q
<1>0. len \in Nat /\ np \in Nat \ {0} /\ np <= len
  OBVIOUS
<1> HIDE DEF len
<1>1. q \in Nat \ {0} /\ np * q <= len
  BY <1>0, SMT
<1>2. \A k \in 1..np : FailedIndices(leaves, np, k) = {leaves[j] : j \in first(k)..last(k)}
  BY DEF FailedIndices, len
<1> HIDE DEF q
<1>3. ASSUME NEW k \in 1..np
      PROVE  /\ first(k) \in Nat \ {0} /\ last(k) \in Nat
             /\ first(k) <= k * q /\ k * q <= last(k) /\ last(k) <= len
  <2>1. k * q <= np * q /\ 0 <= (k - 1) * q /\ (k - 1) * q + q = k * q /\ k * q \in Nat
        /\ (k - 1) * q \in Int
    <3>1. k * q <= np * q /\ 0 * q <= (k - 1) * q /\ k * q \in Int /\ (k - 1) * q \in Int
      BY <1>0, <1>1, ProductOrder
    <3>2. (k - 1) * q = k * q - q /\ 0 * q = 0
      BY <1>1, ProductStep
    <3> QED BY <1>1, <3>1, <3>2
  <2> QED BY <1>0, <1>1, <2>1
<1>4. ASSUME NEW k \in 1..np, NEW l \in 1..np, k < l
      PROVE  last(k) < first(l)
  <2>1. k * q <= (l - 1) * q /\ (l - 1) * q \in Int /\ k * q \in Int
    BY <1>1, <1>4, ProductOrder
  <2>2. last(k) = k * q
    BY <1>4
  <2> QED BY <2>1, <2>2
<1>5. ASSUME NEW j \in 1..len
      PROVE  \E k \in 1..np : j \in first(k)..last(k)
  <2>1. PICK k \in Nat \ {0} : (k - 1) * q < j /\ j <= k * q
    <3>1. j \in Nat \ {0}
      BY <1>0
    <3> QED BY <1>1, <3>1, SliceOf
  <2>2. (k - 1) * q \in Int /\ k * q \in Int
    BY <1>1, SMT
  <2>3. CASE k < np
    <3>1. last(k) = k * q
      BY <2>3
    <3>2. j \in first(k)..last(k)
      BY <2>1, <2>2, <3>1
    <3> QED BY <1>0, <2>3, <3>2
  <2>4. CASE k >= np
    <3>1. (np - 1) * q <= (k - 1) * q /\ (np - 1) * q \in Int
      BY <1>0, <1>1, <2>4, ProductOrder
    <3>2. j \in first(np)..last(np)
      BY <1>0, <2>1, <2>2, <3>1
    <3> QED BY <1>0, <3>2
  <2> QED BY <1>0, <2>3, <2>4
<1> HIDE DEF first, last
<1>6. \A j \in 1..len : \E k \in 1..np : leaves[j] \in FailedIndices(leaves, np, k)
  BY <1>2, <1>5
<1>7. \A k \in 1..np : FailedIndices(leaves, np, k) # {}
  <2> SUFFICES ASSUME NEW k \in 1..np
               PROVE  FailedIndices(leaves, np, k) # {}
    OBVIOUS
  <2>1. first(k) \in Nat /\ last(k) \in Nat /\ k * q \in Int
        /\ first(k) <= k * q /\ k * q <= last(k)
    BY <1>1, <1>3, ProductStep
  <2>2. first(k) \in first(k)..last(k)
    BY <2>1
  <2>3. leaves[first(k)] \in FailedIndices(leaves, np, k)
    BY <1>2, <2>2
  <2> QED BY <2>3
<1>8. ASSUME NEW k \in 1..np, NEW l \in 1..np, k < l
      PROVE  FailedIndices(leaves, np, k) \cap FailedIndices(leaves, np, l) = {}
  <2>1. \A i \in first(k)..last(k), j \in first(l)..last(l) :
          i \in 1..len /\ j \in 1..len /\ i # j
    BY <1>0, <1>3, <1>4, <1>8
  <2>2. \A i \in first(k)..last(k), j \in first(l)..last(l) : leaves[i] # leaves[j]
    BY <2>1 DEF len
  <2> QED BY <1>2, <2>2
<1>9. \A k, l \in 1..np : k # l =>
        FailedIndices(leaves, np, k) \cap FailedIndices(leaves, np, l) = {}
  <2> SUFFICES ASSUME NEW k \in 1..np, NEW l \in 1..np, k # l
               PROVE  FailedIndices(leaves, np, k) \cap FailedIndices(leaves, np, l) = {}
    OBVIOUS
  <2>1. k < l \/ l < k
    BY <1>0
  <2> QED BY <1>8, <2>1
<1> QED BY <1>6, <1>7, <1>9 DEF len

-----------------------------------------------------------------------------
(* Type correctness *)

LEMMA InitType == Init => TypeInv
BY NoJobType, ConstantsAssumption DEF Init, TypeInv, Status, Select, Sound, InRange, Activity

\* The record of the send loop that PlanRequests prepares.
LEMMA PlanType ==
  ASSUME TypeInv, NEW n \in Node, NEW limit \in Nat, NEW f \in File,
         NEW found \in SUBSET Leaf, NEW listed \in AllPeers(n), NEW peers \in Orders(listed),
         NEW leaves \in InTreeOrder(found),
         NumPeers(limit, peers, leaves) # 0
  PROVE  LET np == NumPeers(limit, peers, leaves) IN
         [at |-> "send", file |-> f, peers |-> peers,
          reqs |-> [k \in 1..np |-> FailedIndices(leaves, np, k)],
          i |-> 1, sent |-> 0] \in Sound
<1> DEFINE np == NumPeers(limit, peers, leaves)
<1>1. IsFiniteSet(listed) /\ listed \subseteq Node
  BY FS_Subset, ConstantsAssumption DEF AllPeers
<1>2. peers \in Seq(Node) /\ Len(peers) \in Nat
  BY <1>1, OrdersType
<1>3. IsFiniteSet(found)
  <2>1. NumLeaves \in Int /\ 1 \in Int
    BY ConstantsAssumption
  <2>2. IsFiniteSet(Leaf)
    BY <2>1, FS_Interval DEF Leaf
  <2> QED BY <2>2, FS_Subset
<1>4. leaves \in Seq(Leaf) /\ Len(leaves) \in Nat
  <2>1. leaves \in Seq(found)
    BY <1>3, OrdersType DEF InTreeOrder
  <2> QED BY <2>1
<1>5. np \in Nat \ {0} /\ np <= Len(peers)
  BY <1>2, <1>4 DEF NumPeers, SmallerOf
<1> HIDE DEF np
<1>6. [k \in 1..np |-> FailedIndices(leaves, np, k)] \in Seq(SUBSET Leaf)
  BY <1>4, <1>5, FailedIndicesType
<1> DEFINE reqs == [k \in 1..np |-> FailedIndices(leaves, np, k)]
           loop == [at |-> "send", file |-> f, peers |-> peers, reqs |-> reqs,
                    i |-> 1, sent |-> 0]
<1>7. Len(reqs) = np
  BY <1>5
<1> HIDE DEF reqs
<1>8. loop \in SendLoop("send")
  BY <1>2, <1>6 DEF SendLoop, reqs
<1>9. InRange(loop)
  BY <1>2, <1>5, <1>7 DEF InRange
<1> QED BY <1>8, <1>9 DEF Sound, Activity, reqs, np

LEMMA RetrieveAt ==
  ASSUME TypeInv, NEW n \in Node, daemon[n].at = "retrieve"
  PROVE  daemon[n].file \in File /\ daemon[n].limit \in Nat
BY DEF TypeInv, Sound, InRange, Activity, SendLoop

LEMMA LoopAt ==
  ASSUME TypeInv, NEW n \in Node, NEW at \in {"send", "sending", "accepted", "refused"},
         daemon[n].at = at
  PROVE  daemon[n] \in SendLoop(at) /\ InRange(daemon[n])
BY DEF TypeInv, Sound, InRange, Activity, SendLoop

LEMMA TypeStep == TypeInv /\ [Next]_vars => TypeInv'
<1> SUFFICES ASSUME TypeInv, [Next]_vars
             PROVE  TypeInv'
  OBVIOUS
<1> USE DEF jobVars
<1>1. ASSUME NEW n \in Node, NEW c \in calls, StartCollabRepair(n, c)
      PROVE  TypeInv'
  <2>1. c \in CollabOp /\ c \in Call
    BY <1>1, CallKinds DEF StartCollabRepair, Take, TypeInv
  <2>2. c.file \in File /\ c.limit \in Nat /\ c.origin \in Caller
    BY <2>1 DEF CollabOp
  <2>3. daemon' \in [Node -> Sound] /\ calls' \subseteq Call
    BY <1>1, <2>2, AfterBeginType, TakeType DEF StartCollabRepair
  <2>4. collabData' \in [Node -> [File -> Job]]
    BY <1>1, <2>2, BeginType DEF StartCollabRepair
  <2> QED BY <1>1, <2>3, <2>4 DEF StartCollabRepair, TypeInv
<1>2. ASSUME NEW n \in Node, NEW c \in calls, StartUnitRepair(n, c)
      PROVE  TypeInv'
  <2>1. c \in UnitOp
    BY <1>2, CallKinds DEF StartUnitRepair, Take, TypeInv
  <2>2. [at |-> "unit", file |-> c.file, origin |-> c.origin, leaves |-> c.leaves] \in Sound
    BY <2>1 DEF UnitOp, Sound, InRange, Activity
  <2>3. daemon' \in [Node -> Sound] /\ calls' \subseteq Call
    BY <1>2, <2>2, TakeType DEF StartUnitRepair
  <2> QED BY <1>2, <2>3 DEF StartUnitRepair, TypeInv
<1>3. ASSUME NEW n \in Node, NEW c \in calls, IgnoreReport(n, c)
      PROVE  TypeInv'
  <2>1. Select \in Sound
    BY DEF Select, Sound, InRange, Activity
  <2>2. daemon' \in [Node -> Sound] /\ calls' \subseteq Call
    BY <1>3, <2>1, TakeType DEF IgnoreReport
  <2> QED BY <1>3, <2>2 DEF IgnoreReport, TypeInv
<1>4. ASSUME NEW n \in Node, NEW c \in calls, ReportUnitRepair(n, c)
      PROVE  TypeInv'
  <2> DEFINE job == collabData[n][c.file]
             peers == [job.peers EXCEPT ![c.peer] = Reported(@, c)]
             result == [kind |-> "collabDone", to |-> job.origin, from |-> n,
                        file |-> c.file, coordinator |-> n, ok |-> (c.repaired = c.leaves)]
             tell == /\ \A p \in Involved(peers) : peers[p].status # "PENDING"
                     /\ job.origin # Nobody
                     /\ daemon[job.origin].at # "down"
             next == IF tell THEN [at |-> "reporting"] ELSE Select
             posted == IF tell THEN {result} ELSE {}
  <2>1. c \in UnitDone
    BY <1>4, CallKinds DEF ReportUnitRepair, Take, TypeInv
  <2>2. c.file \in File /\ c.peer \in Node /\ job \in Job
    BY <2>1 DEF UnitDone, TypeInv
  <2>3. peers \in [Node -> PeerInfo]
    BY <2>1, <2>2 DEF Reported, Job, PeerInfo, Status, UnitDone
  <2>4. Verdict(peers, job.status) \in Status
    BY <2>2 DEF Verdict, Status, Job
  <2>5. [job EXCEPT !.peers = peers, !.status = Verdict(peers, job.status)] \in Job
    BY <2>2, <2>3, <2>4 DEF Job
  <2>6. next \in Sound
    BY DEF Sound, InRange, Activity, Select
  <2>7. posted \in SUBSET Call
    BY <2>2 DEF Call, CollabDone, Job, Caller
  <2>8. Take(n, c, "unitDone", next, posted)
    BY <1>4 DEF ReportUnitRepair
  <2>9. daemon' \in [Node -> Sound] /\ calls' \subseteq Call
    BY <2>6, <2>7, <2>8, TakeType
  <2>10. SetJob(n, c.file, [job EXCEPT !.peers = peers, !.status = Verdict(peers, job.status)])
    BY <1>4, <2>2 DEF ReportUnitRepair, Job
  <2>11. collabData' \in [Node -> [File -> Job]]
    BY <2>2, <2>5, <2>10, SetJobType
  <2> QED BY <1>4, <2>9, <2>11 DEF ReportUnitRepair, TypeInv
<1>5. ASSUME NEW n \in Node, NEW c \in calls, StartStrandRepair(n, c)
      PROVE  TypeInv'
  <2>1. c.file \in File
    BY <1>5, CallKinds DEF TypeInv
  <2>2. AfterStrand(n, c.file) \in Sound
    BY DEF AfterStrand, Sound, InRange, Activity, Select
  <2>3. daemon' \in [Node -> Sound] /\ calls' \subseteq Call
    BY <1>5, <2>2, TakeType DEF StartStrandRepair
  <2> QED BY <1>5, <2>1, <2>3 DEF StartStrandRepair, BeginStrand, TypeInv, Status
<1>6. ASSUME NEW n \in Node, NEW c \in calls, ContinueStrandRepair(n, c)
      PROVE  TypeInv'
  <2>1. c \in CollabDone /\ c.file \in File
    BY <1>6, CallKinds DEF ContinueStrandRepair, Take, TypeInv
  <2>2. Monitors[c.file] \subseteq Node
    BY <2>1, ConstantsAssumption
  <2>3. PICK regenerated \in BOOLEAN, todo \in SUBSET Monitors[c.file] :
       /\ Take(n, c, "collabDone",
               IF strandData[n][c.file] = "PENDING" /\ ~c.ok THEN Select
               ELSE IF n \notin Monitors[c.file] THEN [at |-> "panic"]
               ELSE [at |-> "reset", file |-> c.file, todo |-> todo], {})
       /\ strandData' = [strandData EXCEPT ![n][c.file] =
            StrandVerdict(strandData[n][c.file], c.ok, regenerated)]
    BY <1>6 DEF ContinueStrandRepair
  <2>4. [at |-> "reset", file |-> c.file, todo |-> todo] \in Sound
    BY <2>1, <2>2 DEF Sound, InRange, Activity
  <2>5. (IF strandData[n][c.file] = "PENDING" /\ ~c.ok THEN Select
         ELSE IF n \notin Monitors[c.file] THEN [at |-> "panic"]
         ELSE [at |-> "reset", file |-> c.file, todo |-> todo]) \in Sound
    BY <2>4 DEF Sound, InRange, Activity, Select
  <2>6. daemon' \in [Node -> Sound] /\ calls' \subseteq Call
    BY <2>3, <2>5, TakeType
  <2>7. StrandVerdict(strandData[n][c.file], c.ok, regenerated) \in Status
    BY <2>1 DEF StrandVerdict, TypeInv, Status
  <2>8. strandData' \in [Node -> [File -> Status]]
    <3>1. strandData \in [Node -> [File -> Status]]
      BY DEF TypeInv
    <3> QED BY <2>1, <2>3, <2>7, <3>1, NestedUpdate
  <2> QED BY <1>6, <2>6, <2>8 DEF ContinueStrandRepair, TypeInv
<1>7. ASSUME NEW n \in Node, NEW c \in calls, ResetMonitor(n, c)
      PROVE  TypeInv'
  <2>1. Select \in Sound
    BY DEF Select, Sound, InRange, Activity
  <2>2. daemon' \in [Node -> Sound] /\ calls' \subseteq Call
    BY <1>7, <2>1, TakeType DEF ResetMonitor
  <2> QED BY <1>7, <2>2 DEF ResetMonitor, TypeInv
<1>8. ASSUME NEW n \in Node, RetrieveFails(n) \/ NothingToRepair(n)
      PROVE  TypeInv'
  <2>1. daemon[n].file \in File
    BY <1>8, RetrieveAt DEF RetrieveFails, NothingToRepair
  <2>2. \A st \in Status :
          [collabData[n][daemon[n].file] EXCEPT !.status = st] \in Job
    BY <2>1, JobUpdate DEF TypeInv
  <2>3. collabData' \in [Node -> [File -> Job]]
    BY <1>8, <2>1, <2>2, SetJobType DEF RetrieveFails, NothingToRepair, Status
  <2>4. daemon' \in [Node -> Sound]
    <3>1. daemon' = [daemon EXCEPT ![n] = Select]
      BY <1>8 DEF RetrieveFails, NothingToRepair
    <3>2. Select \in Sound
      BY DEF Select, Sound, InRange, Activity
    <3> QED BY <3>1, <3>2 DEF TypeInv
  <2> QED BY <1>8, <2>3, <2>4 DEF RetrieveFails, NothingToRepair, TypeInv
<1>9. ASSUME NEW n \in Node, PlanRequests(n)
      PROVE  TypeInv'
  <2> DEFINE f == daemon[n].file
             limit == daemon[n].limit
  <2>1. f \in File /\ limit \in Nat
    BY <1>9, RetrieveAt DEF PlanRequests
  <2>2. PICK found \in (SUBSET Leaf) \ {{}}, listed \in AllPeers(n) :
       \E leaves \in InTreeOrder(found), peers \in Orders(listed) :
         LET np == NumPeers(limit, peers, leaves)
         IN  /\ SetJob(n, f, [collabData[n][f] EXCEPT !.found = found])
             /\ daemon' = [daemon EXCEPT ![n] =
                  IF np = 0 THEN [at |-> "panic"]
                  ELSE [at |-> "send", file |-> f, peers |-> peers,
                        reqs |-> [k \in 1..np |-> FailedIndices(leaves, np, k)],
                        i |-> 1, sent |-> 0]]
    BY <1>9 DEF PlanRequests
  <2>3. PICK leaves \in InTreeOrder(found), peers \in Orders(listed) :
         LET np == NumPeers(limit, peers, leaves)
         IN  /\ SetJob(n, f, [collabData[n][f] EXCEPT !.found = found])
             /\ daemon' = [daemon EXCEPT ![n] =
                  IF np = 0 THEN [at |-> "panic"]
                  ELSE [at |-> "send", file |-> f, peers |-> peers,
                        reqs |-> [k \in 1..np |-> FailedIndices(leaves, np, k)],
                        i |-> 1, sent |-> 0]]
    BY <2>2
  <2>4. [collabData[n][f] EXCEPT !.found = found] \in Job
    <3>1. collabData[n][f] \in Job
      BY <2>1 DEF TypeInv
    <3> QED BY <2>2, <3>1 DEF Job
  <2>5. collabData' \in [Node -> [File -> Job]]
    BY <2>1, <2>3, <2>4, SetJobType
  <2>6. daemon' \in [Node -> Sound]
    <3>1. CASE NumPeers(limit, peers, leaves) = 0
      BY <2>3, <3>1 DEF TypeInv, Sound, InRange, Activity
    <3>2. CASE NumPeers(limit, peers, leaves) # 0
      <4> DEFINE np == NumPeers(limit, peers, leaves)
                 loop == [at |-> "send", file |-> f, peers |-> peers,
                          reqs |-> [k \in 1..np |-> FailedIndices(leaves, np, k)],
                          i |-> 1, sent |-> 0]
      <4>1. loop \in Sound
        BY <2>1, <2>2, <2>3, <3>2, PlanType
      <4>2. daemon' = [daemon EXCEPT ![n] = loop]
        BY <2>3, <3>2
      <4> HIDE DEF loop
      <4> QED BY <4>1, <4>2 DEF TypeInv
    <3> QED BY <3>1, <3>2
  <2> QED BY <1>9, <2>5, <2>6 DEF PlanRequests, TypeInv
<1>10. ASSUME NEW n \in Node, SendRequest(n)
       PROVE  TypeInv'
  <2> DEFINE d == daemon[n]
  <2>1. d \in SendLoop("send") /\ InRange(d)
    BY <1>10, LoopAt DEF SendRequest
  <2>2. CASE d.i > Len(d.reqs)
    BY <1>10, <2>2 DEF SendRequest, TypeInv, Sound, InRange, Activity
  <2>3. CASE ~(d.i > Len(d.reqs))
    <3> DEFINE c == [kind |-> "unit", to |-> d.peers[d.i], from |-> n, file |-> d.file,
                     origin |-> n, leaves |-> d.reqs[d.i]]
               waiting == [d EXCEPT !.at = "sending"]
    <3>1. d.i \in 1..Len(d.peers) /\ d.i \in 1..Len(d.reqs)
      BY <2>1, <2>3, d.at = "send" DEF SendLoop, InRange
    <3>2. c \in Call
      BY <2>1, <3>1 DEF SendLoop, Call, UnitOp, Caller
    <3>3. waiting \in SendLoop("sending")
      BY <2>1 DEF SendLoop
    <3>4. waiting \in Sound
      BY <2>1, <3>1, <3>3 DEF SendLoop, Sound, InRange, Activity
    <3>5. Post(n, c, waiting)
      BY <1>10, <2>3 DEF SendRequest
    <3>6. daemon' \in [Node -> Sound] /\ calls' \subseteq Call
      BY <3>2, <3>4, <3>5, PostType
    <3> QED BY <1>10, <3>6 DEF SendRequest, TypeInv, Sound
  <2> QED BY <2>2, <2>3
<1>11. ASSUME NEW n \in Node, RequestAccepted(n)
       PROVE  TypeInv'
  <2> DEFINE d == daemon[n]
             job == collabData[n][d.file]
             p == d.peers[d.i]
  <2>1. d \in SendLoop("accepted") /\ InRange(d) /\ d.at = "accepted"
    BY <1>11, LoopAt DEF RequestAccepted
  <2>2. d.i \in 1..Len(d.peers) /\ d.i \in 1..Len(d.reqs)
    BY <2>1 DEF SendLoop, InRange
  <2>3. d.file \in File /\ p \in Node /\ d.reqs[d.i] \in SUBSET Leaf /\ job \in Job
    BY <2>1, <2>2 DEF SendLoop, TypeInv
  <2>4. [job EXCEPT !.peers[p] = Allocate(job.peers[p], d.reqs[d.i])] \in Job
    <3>1. job.peers \in [Node -> PeerInfo]
      BY <2>3 DEF Job
    <3>2. Allocate(job.peers[p], d.reqs[d.i]) \in PeerInfo
      BY <2>3, <3>1 DEF PeerInfo, Allocate, Status
    <3> HIDE DEF d, job, p
    <3>3. \A v \in PeerInfo : [job EXCEPT !.peers[p] = v] \in Job
      BY <2>3 DEF Job
    <3> QED BY <3>2, <3>3
  <2>5. collabData' \in [Node -> [File -> Job]]
    BY <1>11, <2>3, <2>4, SetJobType DEF RequestAccepted
  <2>6. NextPeer(d) \in 1..Len(d.peers)
    BY <2>1, <2>2 DEF NextPeer, SendLoop
  <2>7. [d EXCEPT !.at = "send", !.i = NextPeer(d), !.sent = @ + 1] \in Sound
    <3> DEFINE k == NextPeer(d)
               e == [d EXCEPT !.at = "send", !.i = k, !.sent = @ + 1]
    <3>1. d.peers \in Seq(Node) /\ Len(d.peers) \in Nat /\ k \in Nat \ {0} /\ k <= Len(d.peers)
      BY <2>1, <2>6 DEF SendLoop
    <3> HIDE DEF k, d
    <3>2. e \in SendLoop("send")
      <4>1. d.sent + 1 \in Nat
        BY <2>1 DEF SendLoop
      <4>2. \A m \in Nat : [d EXCEPT !.at = "send", !.i = k, !.sent = m] \in SendLoop("send")
        BY <2>1, <3>1 DEF SendLoop
      <4>3. e = [d EXCEPT !.at = "send", !.i = k, !.sent = d.sent + 1]
        BY Zenon
      <4> QED BY <4>1, <4>2, <4>3
    <3>3. e.i = k /\ e.peers = d.peers /\ e.reqs = d.reqs /\ e.at = "send"
      BY <2>1 DEF SendLoop
    <3>4. InRange(e)
      BY <2>1, <3>1, <3>3 DEF InRange
    <3> QED BY <3>2, <3>4 DEF Sound, Activity, k
  <2>8. daemon' \in [Node -> Sound]
    BY <1>11, <2>7 DEF RequestAccepted, TypeInv, Select, Sound, InRange, Activity
  <2> QED BY <1>11, <2>5, <2>8 DEF RequestAccepted, TypeInv, Sound
<1>12. ASSUME NEW n \in Node, RequestRefused(n)
       PROVE  TypeInv'
  <2> DEFINE d == daemon[n]
  <2>1. d \in SendLoop("refused") /\ InRange(d) /\ d.at = "refused"
    BY <1>12, LoopAt DEF RequestRefused
  <2>2. d.i \in 1..Len(d.peers)
    BY <2>1 DEF SendLoop, InRange
  <2>3. NextPeer(d) \in 1..Len(d.peers)
    BY <2>1, <2>2 DEF NextPeer, SendLoop
  <2>4. [d EXCEPT !.at = "send", !.i = NextPeer(d)] \in Sound
    <3> DEFINE k == NextPeer(d)
               e == [d EXCEPT !.at = "send", !.i = k]
    <3>1. d.peers \in Seq(Node) /\ Len(d.peers) \in Nat /\ k \in Nat \ {0} /\ k <= Len(d.peers)
      BY <2>1, <2>3 DEF SendLoop
    <3> HIDE DEF k, d
    <3>2. e \in SendLoop("send")
      BY <2>1, <3>1 DEF SendLoop
    <3>3. e.i = k /\ e.peers = d.peers /\ e.reqs = d.reqs /\ e.at = "send"
      BY <2>1 DEF SendLoop
    <3>4. InRange(e)
      BY <2>1, <3>1, <3>3 DEF InRange
    <3> QED BY <3>2, <3>4 DEF Sound, Activity, k
  <2> QED BY <1>12, <2>4 DEF RequestRefused, TypeInv, Sound
<1>13. ASSUME NEW n \in Node, FinishUnitRepair(n)
       PROVE  TypeInv'
  <2> DEFINE d == daemon[n]
  <2>1. d.file \in File /\ d.origin \in Node /\ d.leaves \in SUBSET Leaf
    BY <1>13 DEF FinishUnitRepair, TypeInv, Sound, Activity, SendLoop
  <2>2. PICK repaired \in SUBSET d.leaves :
       /\ missing' = [missing EXCEPT ![d.file] = @ \ repaired]
       /\ Post(n, [kind |-> "unitDone", to |-> d.origin, from |-> n, file |-> d.file,
                   peer |-> n, leaves |-> d.leaves, repaired |-> repaired],
               [at |-> "reporting"])
    BY <1>13 DEF FinishUnitRepair
  <2>3. [kind |-> "unitDone", to |-> d.origin, from |-> n, file |-> d.file,
         peer |-> n, leaves |-> d.leaves, repaired |-> repaired] \in Call
    BY <2>1, <2>2 DEF Call, UnitDone, Caller
  <2>4. [at |-> "reporting"] \in Sound
    BY DEF Sound, InRange, Activity
  <2>5. daemon' \in [Node -> Sound] /\ calls' \subseteq Call
    BY <2>2, <2>3, <2>4, PostType
  <2>6. missing' \in [File -> SUBSET Leaf]
    BY <2>1, <2>2 DEF TypeInv
  <2> QED BY <1>13, <2>5, <2>6 DEF FinishUnitRepair, TypeInv, Sound
<1>14. ASSUME NEW n \in Node, PostReset(n)
       PROVE  TypeInv'
  <2> DEFINE d == daemon[n]
  <2>1. d \in [at : {"reset", "resetting"}, file : File, todo : SUBSET Node]
    BY <1>14 DEF PostReset, TypeInv, Sound, Activity, SendLoop
  <2>2. PICK m \in d.todo :
       Post(n, [kind |-> "reset", to |-> m, from |-> n, file |-> d.file],
            [d EXCEPT !.at = "resetting", !.todo = @ \ {m}])
    BY <1>14 DEF PostReset
  <2>3. [kind |-> "reset", to |-> m, from |-> n, file |-> d.file] \in Call
    BY <2>1 DEF Call, PlainOp, Caller
  <2>4. [d EXCEPT !.at = "resetting", !.todo = @ \ {m}] \in Sound
    BY <2>1 DEF Sound, InRange, Activity
  <2>5. daemon' \in [Node -> Sound] /\ calls' \subseteq Call
    BY <2>2, <2>3, <2>4, PostType
  <2> QED BY <1>14, <2>5 DEF PostReset, TypeInv, Sound
<1>15. ASSUME NEW n \in Node, ResetsDone(n) \/ Restart(n)
       PROVE  TypeInv'
  <2>1. Select \in Sound
    BY DEF Select, Sound, InRange, Activity
  <2> QED BY <1>15, <2>1 DEF ResetsDone, Restart, TypeInv
<1>16. ASSUME NEW n \in Node, Panic(n) \/ Crash(n)
       PROVE  TypeInv'
  <2>1. Dies(n)
    BY <1>16 DEF Panic, Crash
  <2>2. daemon' \in [Node -> Sound]
    BY <2>1, AnsweredType DEF Dies, TypeInv, Sound, InRange, Activity
  <2>3. calls' \subseteq Call
    BY <2>1, OrphanType DEF Dies, TypeInv
  <2>4. collabData' \in [Node -> [File -> Job]] /\ strandData' \in [Node -> [File -> Status]]
    BY <2>1, NoJobType DEF Dies, TypeInv, Status
  <2>5. faults' \in 0..MaxFaults
    BY <1>16, ConstantsAssumption DEF Panic, Crash, TypeInv
  <2> QED BY <2>1, <2>2, <2>3, <2>4, <2>5 DEF Dies, TypeInv, Sound
<1>17. ASSUME NEW n \in Node, NEW f \in File,
              TriggerCollabRepair(n, f) \/ TriggerStrandRepair(n, f)
       PROVE  TypeInv'
  <2>1. calls' \subseteq Call
    <3>1. CASE TriggerStrandRepair(n, f)
      BY <3>1 DEF TriggerStrandRepair, TypeInv, Call, PlainOp, Caller
    <3>2. CASE TriggerCollabRepair(n, f)
      <4>1. PICK origin \in Origins, limit \in PeerLimits :
              calls' = calls \cup {[kind |-> "collab", to |-> n, from |-> Nobody, file |-> f,
                                    origin |-> origin, limit |-> limit]}
        BY <3>2 DEF TriggerCollabRepair
      <4>2. [kind |-> "collab", to |-> n, from |-> Nobody, file |-> f,
             origin |-> origin, limit |-> limit] \in CollabOp
        BY ConstantsAssumption DEF CollabOp, Caller
      <4> QED BY <4>1, <4>2 DEF TypeInv, Call
    <3> QED BY <1>17, <3>1, <3>2
  <2> QED BY <1>17, <2>1, ConstantsAssumption
          DEF TriggerCollabRepair, TriggerStrandRepair, ClientAsks, TypeInv, Sound
<1>18. ASSUME NEW n \in Node, NEW f \in File, RepairFile(n, f)
       PROVE  TypeInv'
  <2>1. AfterBegin(n, f, RepairNumPeers) \in Sound
    BY AfterBeginType DEF RepairNumPeers
  <2>2. collabData' \in [Node -> [File -> Job]]
    BY <1>18, BeginType DEF RepairFile, Caller
  <2>3. triggers' \in 0..MaxTriggers
    <3>1. triggers < MaxTriggers /\ triggers' = triggers + 1
      BY <1>18 DEF RepairFile
    <3> QED BY <3>1, ConstantsAssumption DEF TypeInv
  <2> QED BY <1>18, <2>1, <2>2, <2>3 DEF RepairFile, TypeInv
<1>19. ASSUME NEW n \in Node, NEW f \in File, RepairStrand(n, f)
       PROVE  TypeInv'
  <2>1. AfterStrand(n, f) \in Sound
    BY DEF AfterStrand, Select, Sound, InRange, Activity
  <2> QED BY <1>19, <2>1, ConstantsAssumption
          DEF RepairStrand, BeginStrand, TypeInv, Status, Sound
<1>20. ASSUME NEW c \in calls, LoseRequest(c) \/ LoseAnswer(c)
       PROVE  TypeInv'
  <2>1. Answer(c, FALSE) \in [Node -> Sound]
    BY AnswerType
  <2>2. [c EXCEPT !.from = Nobody] \in Call
    BY OrphanType DEF TypeInv
  <2>3. calls' \subseteq Call
    BY <1>20, <2>2 DEF LoseRequest, LoseAnswer, TypeInv
  <2>4. faults' \in 0..MaxFaults
    <3>1. faults < MaxFaults /\ faults' = faults + 1
      BY <1>20 DEF LoseRequest, LoseAnswer
    <3> QED BY <3>1, ConstantsAssumption DEF TypeInv
  <2> QED BY <1>20, <2>1, <2>3, <2>4 DEF LoseRequest, LoseAnswer, TypeInv
<1>21. CASE UNCHANGED vars
  BY <1>21 DEF vars, TypeInv, Sound
<1>22. ASSUME NEW n \in Node, Daemon(n)
       PROVE  TypeInv'
  <2>1. CASE Runs(n)
    BY <2>1, <1>8, <1>9, <1>10, <1>11, <1>12, <1>13, <1>14, <1>15, <1>16 DEF Runs
  <2>2. ASSUME NEW c \in calls, Receives(n, c)
        PROVE  TypeInv'
    BY <2>2, <1>1, <1>2, <1>3, <1>4, <1>5, <1>6, <1>7 DEF Receives
  <2> QED BY <1>22, <2>1, <2>2 DEF Daemon
<1>23. CASE Environment
  BY <1>23, <1>15, <1>16, <1>17, <1>18, <1>19, <1>20 DEF Environment
<1> QED BY <1>21, <1>22, <1>23 DEF Next

\* Every variable keeps to its type, the index of a send loop included, for all nodes,
\* files, leaves and bounds.
THEOREM TypeCorrect == Spec => []TypeOK
<1>1. Init => TypeInv
  BY InitType
<1>2. TypeInv /\ [Next]_vars => TypeInv'
  BY TypeStep
<1>3. TypeInv => TypeOK
  BY DEF TypeInv, TypeOK, Sound
<1> QED BY <1>1, <1>2, <1>3, PTL DEF Spec

-----------------------------------------------------------------------------
(* A repair is pending exactly as long as it is awaited *)

\* The inductive form of PendingIffAwaited, for one node: while the coordinator is
\* starting a repair, the repair is pending and no peer has reported; before the
\* requests are planned no peer is involved at all.
IsStarting(d, f) == d.at \in StartingAt /\ d.file = f

Awaited(d, jobs) ==
  \A f \in File :
    /\ IsStarting(d, f) =>
         /\ jobs[f].status = "PENDING"
         /\ \A p \in Node : jobs[f].peers[p].status \in {"NONE", "PENDING"}
         /\ d.at = "retrieve" => \A p \in Node : jobs[f].peers[p].status = "NONE"
    /\ ~IsStarting(d, f) /\ d.at # "panic" =>
         (jobs[f].status = "PENDING" <=> SomePeerPending(jobs[f]))

AwaitInv == \A n \in Node : Awaited(daemon[n], collabData[n])

\* The steps of other nodes leave a node's jobs alone and at most answer its post.
Bystander(m) ==
  /\ \/ daemon'[m] = daemon[m]
     \/ \E ok \in BOOLEAN : daemon'[m] = Answered(daemon[m], ok)
  /\ collabData'[m] = collabData[m]

LEMMA AnswerKeepsAwaited ==
  ASSUME NEW d \in Sound, NEW jobs, NEW ok \in BOOLEAN, Awaited(d, jobs)
  PROVE  Awaited(Answered(d, ok), jobs)
<1>1. Answered(d, ok).at = "retrieve" => d.at = "retrieve"
  BY DEF Answered, Select, Sound, Activity, SendLoop
<1> QED BY <1>1, AnsweredType DEF Awaited, IsStarting

LEMMA BystanderKeeps ==
  ASSUME TypeInv, AwaitInv, NEW m \in Node, Bystander(m)
  PROVE  Awaited(daemon'[m], collabData'[m])
BY AnswerKeepsAwaited DEF TypeInv, AwaitInv, Bystander

\* A daemon that neither starts a repair nor panics does nothing about being awaited.
LEMMA QuietKeeps ==
  ASSUME NEW d, NEW e, NEW jobs, Awaited(d, jobs),
         d.at \notin StartingAt, d.at # "panic", e.at \notin StartingAt
  PROVE  Awaited(e, jobs)
BY DEF Awaited, IsStarting

LEMMA PanicIsAwaited ==
  ASSUME NEW jobs
  PROVE  Awaited([at |-> "panic"], jobs)
BY DEF Awaited, IsStarting, StartingAt

\* After Take by n every other node is a bystander, when n's jobs alone may change.
LEMMA TakeBystanders ==
  ASSUME TypeInv, NEW n \in Node, NEW c, NEW kind, NEW next, NEW posted,
         Take(n, c, kind, next, posted)
  PROVE  /\ daemon[n].at = "select" /\ daemon'[n] = next
         /\ \A m \in Node \ {n} : \/ daemon'[m] = daemon[m]
                                  \/ daemon'[m] = Answered(daemon[m], TRUE)
BY DEF Take, Answer, TypeInv

LEMMA PostBystanders ==
  ASSUME TypeInv, NEW n \in Node, NEW c, NEW waiting, Post(n, c, waiting)
  PROVE  /\ daemon'[n] \in {waiting, Answered(waiting, FALSE)}
         /\ \A m \in Node \ {n} : daemon'[m] = daemon[m]
BY DEF Post, TypeInv

\* The entry a repair starts with, and the daemon that starts it.
LEMMA BeginAwaited ==
  ASSUME TypeInv, NEW n \in Node, NEW f \in File, NEW origin \in Caller, NEW limit,
         AwaitInv, daemon[n].at = "select", BeginJob(n, f, origin)
  PROVE  /\ Awaited(AfterBegin(n, f, limit), collabData'[n])
         /\ \A m \in Node \ {n} : collabData'[m] = collabData[m]
<1>1. Awaited(daemon[n], collabData[n])
  BY DEF AwaitInv
<1>2. CASE collabData[n][f].status = "PENDING"
  <2>1. AfterBegin(n, f, limit) = Select /\ collabData' = collabData
    BY <1>2 DEF AfterBegin, BeginJob
  <2> QED BY <1>1, <2>1, QuietKeeps DEF Select, StartingAt
<1>3. CASE collabData[n][f].status # "PENDING"
  <2> DEFINE job == [NoJob EXCEPT !.status = "PENDING", !.origin = origin]
             next == [at |-> "retrieve", file |-> f, limit |-> limit]
  <2>1. AfterBegin(n, f, limit) = next
    BY <1>3 DEF AfterBegin
  <2>2. job.status = "PENDING" /\ \A p \in Node : job.peers[p].status = "NONE"
    BY DEF NoJob, NoPeer
  <2>3. collabData' = [collabData EXCEPT ![n][f] = job]
    BY <1>3 DEF BeginJob, SetJob
  <2> HIDE DEF job
  <2>4. /\ collabData'[n][f] = job
        /\ \A g \in File \ {f} : collabData'[n][g] = collabData[n][g]
        /\ \A m \in Node \ {n} : collabData'[m] = collabData[m]
    BY <2>3 DEF TypeInv
  <2>5. \A g \in File : IsStarting(next, g) <=> g = f
    BY DEF IsStarting, StartingAt
  <2>6. \A g \in File : ~IsStarting(daemon[n], g)
    BY DEF IsStarting, StartingAt
  <2>7. \A g \in File \ {f} :
          collabData[n][g].status = "PENDING" <=> SomePeerPending(collabData[n][g])
    BY <1>1, <2>6 DEF Awaited
  <2> QED BY <2>1, <2>2, <2>4, <2>5, <2>7 DEF Awaited
<1> QED BY <1>2, <1>3

\* How SetJob changes the tables.
LEMMA SetJobEffect ==
  ASSUME TypeInv, NEW n \in Node, NEW f \in File, NEW job, SetJob(n, f, job)
  PROVE  /\ collabData'[n][f] = job
         /\ \A g \in File \ {f} : collabData'[n][g] = collabData[n][g]
         /\ \A m \in Node \ {n} : collabData'[m] = collabData[m]
BY DEF SetJob, TypeInv

\* A step of n that leaves all jobs alone, takes its daemon from one quiet activity to
\* another and at most answers the others.
LEMMA QuietStep ==
  ASSUME TypeInv, AwaitInv, NEW n \in Node, UNCHANGED collabData,
         daemon[n].at \notin StartingAt \cup {"panic"},
         daemon'[n].at \notin StartingAt,
         \A m \in Node \ {n} : \/ daemon'[m] = daemon[m]
                               \/ \E ok \in BOOLEAN : daemon'[m] = Answered(daemon[m], ok)
  PROVE  AwaitInv'
<1> SUFFICES ASSUME NEW m \in Node
             PROVE  Awaited(daemon'[m], collabData'[m])
  BY DEF AwaitInv
<1>1. CASE m = n
  BY <1>1, QuietKeeps DEF AwaitInv
<1>2. CASE m # n
  BY <1>2, BystanderKeeps DEF Bystander
<1> QED BY <1>1, <1>2

\* The same for an operation the select takes.
LEMMA QuietTake ==
  ASSUME TypeInv, AwaitInv, NEW n \in Node, NEW c, NEW kind, NEW next, NEW posted,
         Take(n, c, kind, next, posted), UNCHANGED collabData, next.at \notin StartingAt
  PROVE  AwaitInv'
<1>1. daemon[n].at = "select" /\ daemon'[n] = next
  BY TakeBystanders
<1>2. \A m \in Node \ {n} : \/ daemon'[m] = daemon[m]
                            \/ \E ok \in BOOLEAN : daemon'[m] = Answered(daemon[m], ok)
  BY TakeBystanders
<1> QED BY <1>1, <1>2, QuietStep DEF StartingAt

\* A step that changes the daemon and one job of n and nothing of the others.
LEMMA JobStep ==
  ASSUME TypeInv, AwaitInv, NEW n \in Node, NEW f \in File, NEW job,
         SetJob(n, f, job), Awaited(daemon'[n], collabData'[n]),
         \A m \in Node \ {n} : \/ daemon'[m] = daemon[m]
                               \/ \E ok \in BOOLEAN : daemon'[m] = Answered(daemon[m], ok)
  PROVE  AwaitInv'
<1> SUFFICES ASSUME NEW m \in Node \ {n}
             PROVE  Awaited(daemon'[m], collabData'[m])
  BY DEF AwaitInv
<1>1. collabData'[m] = collabData[m]
  BY SetJobEffect
<1> QED BY <1>1, BystanderKeeps DEF Bystander

\* What is known of a coordinator while it starts a repair of f.
LEMMA StartingJob ==
  ASSUME TypeInv, AwaitInv, NEW n \in Node, daemon[n].at \in StartingAt
  PROVE  /\ daemon[n].file \in File
         /\ LET job == collabData[n][daemon[n].file] IN
              /\ job \in Job /\ job.status = "PENDING"
              /\ \A p \in Node : job.peers[p].status \in {"NONE", "PENDING"}
              /\ daemon[n].at = "retrieve" => \A p \in Node : job.peers[p].status = "NONE"
         /\ \A g \in File \ {daemon[n].file} :
              collabData[n][g].status = "PENDING" <=> SomePeerPending(collabData[n][g])
<1>1. daemon[n].file \in File
  BY DEF TypeInv, Sound, Activity, SendLoop, StartingAt
<1>2. Awaited(daemon[n], collabData[n])
  BY DEF AwaitInv
<1>3. \A g \in File : IsStarting(daemon[n], g) <=> g = daemon[n].file
  BY DEF IsStarting
<1>4. daemon[n].at # "panic"
  BY DEF StartingAt
<1> QED BY <1>1, <1>2, <1>3, <1>4 DEF Awaited, TypeInv

\* A coordinator that starts the repair of g, and a daemon that starts none.
LEMMA AwaitedStarting ==
  ASSUME NEW d, NEW jobs, NEW g \in File,
         \A h \in File \ {g} : jobs[h].status = "PENDING" <=> SomePeerPending(jobs[h]),
         d.at \in StartingAt \ {"retrieve"}, d.file = g, jobs[g].status = "PENDING",
         \A p \in Node : jobs[g].peers[p].status \in {"NONE", "PENDING"}
  PROVE  Awaited(d, jobs)
BY DEF Awaited, IsStarting, StartingAt

LEMMA AwaitedSettled ==
  ASSUME NEW d, NEW jobs, NEW g \in File, d.at \notin StartingAt,
         \A h \in File \ {g} : jobs[h].status = "PENDING" <=> SomePeerPending(jobs[h]),
         jobs[g].status = "PENDING" <=> SomePeerPending(jobs[g])
  PROVE  Awaited(d, jobs)
BY DEF Awaited, IsStarting, StartingAt

LEMMA AwaitStep == TypeInv /\ AwaitInv /\ [Next]_vars => AwaitInv'
<1> SUFFICES ASSUME TypeInv, AwaitInv, [Next]_vars
             PROVE  AwaitInv'
  OBVIOUS
<1> USE DEF jobVars
<1>1. ASSUME NEW n \in Node, NEW c \in calls, StartCollabRepair(n, c)
      PROVE  AwaitInv'
  <2>1. c \in CollabOp
    BY <1>1, CallKinds DEF StartCollabRepair, Take, TypeInv
  <2>2. c.file \in File /\ c.origin \in Caller
    BY <2>1 DEF CollabOp
  <2>3. Take(n, c, "collab", AfterBegin(n, c.file, c.limit), {}) /\ BeginJob(n, c.file, c.origin)
    BY <1>1 DEF StartCollabRepair
  <2>4. /\ daemon[n].at = "select" /\ daemon'[n] = AfterBegin(n, c.file, c.limit)
        /\ \A m \in Node \ {n} : \/ daemon'[m] = daemon[m]
                                 \/ \E ok \in BOOLEAN : daemon'[m] = Answered(daemon[m], ok)
    BY <2>3, TakeBystanders
  <2>5. /\ Awaited(daemon'[n], collabData'[n])
        /\ \A m \in Node \ {n} : collabData'[m] = collabData[m]
    BY <2>2, <2>3, <2>4, BeginAwaited
  <2> QED BY <2>4, <2>5, BystanderKeeps DEF AwaitInv, Bystander
<1>2. ASSUME NEW n \in Node, NEW f \in File, RepairFile(n, f)
      PROVE  AwaitInv'
  <2>1. /\ daemon[n].at = "select" /\ BeginJob(n, f, n)
        /\ daemon' = [daemon EXCEPT ![n] = AfterBegin(n, f, RepairNumPeers)]
    BY <1>2 DEF RepairFile
  <2>2. /\ Awaited(AfterBegin(n, f, RepairNumPeers), collabData'[n])
        /\ \A m \in Node \ {n} : collabData'[m] = collabData[m]
    BY <2>1, BeginAwaited DEF Caller
  <2>3. /\ daemon'[n] = AfterBegin(n, f, RepairNumPeers)
        /\ \A m \in Node \ {n} : daemon'[m] = daemon[m]
    BY <2>1 DEF TypeInv
  <2> QED BY <2>2, <2>3, BystanderKeeps DEF AwaitInv, Bystander
<1>3. ASSUME NEW n \in Node, NEW c \in calls,
             \/ StartUnitRepair(n, c) \/ IgnoreReport(n, c) \/ StartStrandRepair(n, c)
             \/ ContinueStrandRepair(n, c) \/ ResetMonitor(n, c)
      PROVE  AwaitInv'
  <2>1. \E kind, next, posted :
          Take(n, c, kind, next, posted) /\ next.at \notin StartingAt
    <3>1. CASE StartUnitRepair(n, c)
      BY <3>1 DEF StartUnitRepair, StartingAt
    <3>2. CASE IgnoreReport(n, c)
      BY <3>2 DEF IgnoreReport, StartingAt, Select
    <3>3. CASE StartStrandRepair(n, c)
      <4>1. AfterStrand(n, c.file).at \notin StartingAt
        BY DEF AfterStrand, StartingAt, Select
      <4> QED BY <3>3, <4>1 DEF StartStrandRepair
    <3>4. CASE ContinueStrandRepair(n, c)
      <4>1. PICK todo \in SUBSET Monitors[c.file] :
               Take(n, c, "collabDone",
               IF strandData[n][c.file] = "PENDING" /\ ~c.ok THEN Select
               ELSE IF n \notin Monitors[c.file] THEN [at |-> "panic"]
               ELSE [at |-> "reset", file |-> c.file, todo |-> todo], {})
        BY <3>4 DEF ContinueStrandRepair
      <4>2. (IF strandData[n][c.file] = "PENDING" /\ ~c.ok THEN Select
             ELSE IF n \notin Monitors[c.file] THEN [at |-> "panic"]
             ELSE [at |-> "reset", file |-> c.file, todo |-> todo]).at \notin StartingAt
        BY DEF StartingAt, Select
      <4> QED BY <4>1, <4>2
    <3>5. CASE ResetMonitor(n, c)
      BY <3>5 DEF ResetMonitor, StartingAt, Select
    <3> QED BY <1>3, <3>1, <3>2, <3>3, <3>4, <3>5
  <2>2. UNCHANGED collabData
    BY <1>3 DEF StartUnitRepair, IgnoreReport, StartStrandRepair, ContinueStrandRepair,
                ResetMonitor
  <2> QED BY <2>1, <2>2, QuietTake
<1>4. ASSUME NEW n \in Node, NEW c \in calls, ReportUnitRepair(n, c)
      PROVE  AwaitInv'
  <2> DEFINE f == c.file
             job == collabData[n][f]
             peers == [job.peers EXCEPT ![c.peer] = Reported(@, c)]
             new == [job EXCEPT !.peers = peers, !.status = Verdict(peers, job.status)]
             tell == /\ \A p \in Involved(peers) : peers[p].status # "PENDING"
                     /\ job.origin # Nobody
                     /\ daemon[job.origin].at # "down"
             next == IF tell THEN [at |-> "reporting"] ELSE Select
  <2>1. c \in UnitDone
    BY <1>4, CallKinds DEF ReportUnitRepair, Take, TypeInv
  <2>2. f \in File /\ c.peer \in Node /\ job \in Job
    BY <2>1 DEF UnitDone, TypeInv
  <2>3. SetJob(n, f, new)
    BY <1>4, <2>2 DEF ReportUnitRepair, Job
  <2>4. /\ daemon[n].at = "select" /\ daemon'[n] = next
        /\ \A m \in Node \ {n} : \/ daemon'[m] = daemon[m]
                                 \/ \E ok \in BOOLEAN : daemon'[m] = Answered(daemon[m], ok)
    <3>1. PICK posted : Take(n, c, "unitDone", next, posted)
      BY <1>4 DEF ReportUnitRepair
    <3> HIDE DEF next
    <3> QED BY <3>1, TakeBystanders
  <2>5. next.at \notin StartingAt \cup {"panic"}
    BY DEF StartingAt, Select
  <2>6. \A g \in File : collabData[n][g].status = "PENDING" <=> SomePeerPending(collabData[n][g])
    BY <2>4 DEF AwaitInv, Awaited, IsStarting, StartingAt
  <2>7. /\ peers \in [Node -> PeerInfo]
        /\ \A p \in Node \ {c.peer} : peers[p] = job.peers[p]
        /\ peers[c.peer].status \in {"SUCCESS", "FAILURE"}
    BY <2>1, <2>2 DEF Job, PeerInfo, Status, Reported, UnitDone
  <2>8. new.peers = peers /\ new.status = Verdict(peers, job.status)
    BY <2>2 DEF Job
  <2> HIDE DEF peers, new
  <2>9. new.status = "PENDING" <=> SomePeerPending(new)
    <3>1. CASE \E p \in Involved(peers) : peers[p].status = "PENDING"
      <4>1. SomePeerPending(job)
        BY <2>7, <3>1 DEF SomePeerPending, Involved
      <4>2. job.status = "PENDING"
        BY <2>2, <2>6, <4>1
      <4> QED BY <2>8, <3>1, <4>2 DEF Verdict, SomePeerPending, Involved
    <3>2. CASE ~ \E p \in Involved(peers) : peers[p].status = "PENDING"
      <4>1. Verdict(peers, job.status) \in {"SUCCESS", "FAILURE"}
        BY <3>2 DEF Verdict
      <4>2. ~SomePeerPending(new)
        BY <2>8, <3>2 DEF SomePeerPending, Involved
      <4> QED BY <2>8, <4>1, <4>2
    <3> QED BY <3>1, <3>2
  <2>10. collabData'[n][f] = new /\ \A g \in File \ {f} : collabData'[n][g] = collabData[n][g]
    BY <2>2, <2>3, SetJobEffect
  <2>11. Awaited(next, collabData'[n])
    <3> DEFINE jobs == collabData'[n]
    <3>1. /\ \A g \in File \ {f} : jobs[g].status = "PENDING" <=> SomePeerPending(jobs[g])
          /\ jobs[f].status = "PENDING" <=> SomePeerPending(jobs[f])
      BY <2>6, <2>9, <2>10
    <3> HIDE DEF jobs, f, next
    <3>2. Awaited(next, jobs)
      BY <2>2, <2>5, <3>1, AwaitedSettled
    <3> QED BY <3>2 DEF jobs
  <2> QED BY <2>2, <2>3, <2>4, <2>11, JobStep
<1>5. ASSUME NEW n \in Node, RetrieveFails(n) \/ NothingToRepair(n)
      PROVE  AwaitInv'
  <2> DEFINE f == daemon[n].file
             job == collabData[n][f]
  <2>1. daemon[n].at = "retrieve" /\ daemon' = [daemon EXCEPT ![n] = Select]
    BY <1>5 DEF RetrieveFails, NothingToRepair
  <2>2. PICK st \in {"SUCCESS", "FAILURE"} : SetJob(n, f, [job EXCEPT !.status = st])
    BY <1>5 DEF RetrieveFails, NothingToRepair
  <2>3. /\ f \in File /\ job \in Job /\ \A p \in Node : job.peers[p].status = "NONE"
        /\ \A g \in File \ {f} :
             collabData[n][g].status = "PENDING" <=> SomePeerPending(collabData[n][g])
    BY <2>1, StartingJob DEF StartingAt
  <2> DEFINE new == [job EXCEPT !.status = st]
  <2>4. new.status = st /\ new.peers = job.peers
    BY <2>3 DEF Job
  <2>5. new.status = "PENDING" <=> SomePeerPending(new)
    BY <2>3, <2>4 DEF SomePeerPending
  <2> HIDE DEF new
  <2>6. collabData'[n][f] = new /\ \A g \in File \ {f} : collabData'[n][g] = collabData[n][g]
    BY <2>2, <2>3, SetJobEffect DEF new
  <2>7. daemon'[n] = Select /\ \A m \in Node \ {n} : daemon'[m] = daemon[m]
    BY <2>1 DEF TypeInv
  <2>8. Awaited(Select, collabData'[n])
    <3> DEFINE jobs == collabData'[n]
    <3>1. /\ \A g \in File \ {f} : jobs[g].status = "PENDING" <=> SomePeerPending(jobs[g])
          /\ jobs[f].status = "PENDING" <=> SomePeerPending(jobs[f])
      BY <2>3, <2>5, <2>6
    <3> HIDE DEF jobs, f
    <3>2. Awaited(Select, jobs)
      BY <2>3, <3>1, AwaitedSettled DEF Select, StartingAt
    <3> QED BY <3>2 DEF jobs
  <2> QED BY <2>2, <2>3, <2>7, <2>8, JobStep
<1>6. ASSUME NEW n \in Node, PlanRequests(n)
      PROVE  AwaitInv'
  <2> DEFINE f == daemon[n].file
             job == collabData[n][f]
  <2>1. daemon[n].at = "retrieve"
    BY <1>6 DEF PlanRequests
  <2>2. PICK found, loop :
          /\ SetJob(n, f, [job EXCEPT !.found = found])
          /\ daemon' = [daemon EXCEPT ![n] = loop]
          /\ loop.at = "panic" \/ (loop.at = "send" /\ loop.file = f)
    <3>1. PICK found \in (SUBSET Leaf) \ {{}}, listed \in AllPeers(n) :
            \E leaves \in InTreeOrder(found), peers \in Orders(listed) :
              LET np == NumPeers(daemon[n].limit, peers, leaves)
              IN  /\ SetJob(n, f, [collabData[n][f] EXCEPT !.found = found])
                  /\ daemon' = [daemon EXCEPT ![n] =
                       IF np = 0 THEN [at |-> "panic"]
                       ELSE [at |-> "send", file |-> f, peers |-> peers,
                             reqs |-> [k \in 1..np |-> FailedIndices(leaves, np, k)],
                             i |-> 1, sent |-> 0]]
      BY <1>6 DEF PlanRequests
    <3>2. PICK leaves \in InTreeOrder(found), peers \in Orders(listed) :
            LET np == NumPeers(daemon[n].limit, peers, leaves)
            IN  /\ SetJob(n, f, [collabData[n][f] EXCEPT !.found = found])
                /\ daemon' = [daemon EXCEPT ![n] =
                     IF np = 0 THEN [at |-> "panic"]
                     ELSE [at |-> "send", file |-> f, peers |-> peers,
                           reqs |-> [k \in 1..np |-> FailedIndices(leaves, np, k)],
                           i |-> 1, sent |-> 0]]
      BY <3>1
    <3> DEFINE np == NumPeers(daemon[n].limit, peers, leaves)
               loop == IF np = 0 THEN [at |-> "panic"]
                       ELSE [at |-> "send", file |-> f, peers |-> peers,
                             reqs |-> [k \in 1..np |-> FailedIndices(leaves, np, k)],
                             i |-> 1, sent |-> 0]
    <3>3. daemon' = [daemon EXCEPT ![n] = loop]
      BY <3>2
    <3>4. loop.at = "panic" \/ (loop.at = "send" /\ loop.file = f)
      OBVIOUS
    <3>5. SetJob(n, f, [job EXCEPT !.found = found])
      BY <3>2
    <3> HIDE DEF loop
    <3> QED BY <3>3, <3>4, <3>5
  <2>3. /\ f \in File /\ job \in Job /\ job.status = "PENDING"
        /\ \A p \in Node : job.peers[p].status = "NONE"
        /\ \A g \in File \ {f} :
             collabData[n][g].status = "PENDING" <=> SomePeerPending(collabData[n][g])
    BY <2>1, StartingJob DEF StartingAt
  <2> DEFINE new == [job EXCEPT !.found = found]
  <2>4. new.status = "PENDING" /\ new.peers = job.peers
    BY <2>3 DEF Job
  <2> HIDE DEF new
  <2>5. collabData'[n][f] = new /\ \A g \in File \ {f} : collabData'[n][g] = collabData[n][g]
    BY <2>2, <2>3, SetJobEffect DEF new
  <2>6. \A m \in Node \ {n} : daemon'[m] = daemon[m]
    BY <2>2 DEF TypeInv
  <2>7. daemon'[n] = loop
    BY <2>2 DEF TypeInv
  <2>8. Awaited(loop, collabData'[n])
    <3> DEFINE jobs == collabData'[n]
    <3>1. /\ \A g \in File \ {f} : jobs[g].status = "PENDING" <=> SomePeerPending(jobs[g])
          /\ jobs[f].status = "PENDING"
          /\ \A p \in Node : jobs[f].peers[p].status \in {"NONE", "PENDING"}
      BY <2>3, <2>4, <2>5
    <3> HIDE DEF jobs, f
    <3>2. CASE loop.at = "panic"
      BY <3>2 DEF Awaited, IsStarting, StartingAt
    <3>3. CASE loop.at = "send" /\ loop.file = f
      <4>1. Awaited(loop, jobs)
        BY <2>3, <3>1, <3>3, AwaitedStarting DEF StartingAt
      <4> QED BY <4>1 DEF jobs
    <3> QED BY <2>2, <3>2, <3>3
  <2> QED BY <2>2, <2>3, <2>6, <2>7, <2>8, JobStep
<1>7. ASSUME NEW n \in Node, SendRequest(n) \/ RequestRefused(n)
      PROVE  AwaitInv'
  <2> DEFINE f == daemon[n].file
             job == collabData[n][f]
  <2>1. daemon[n].at \in {"send", "refused"} /\ UNCHANGED collabData
    BY <1>7 DEF SendRequest, RequestRefused
  <2>2. daemon[n] \in SendLoop("send") \cup SendLoop("refused")
    BY <2>1, LoopAt
  <2>3. /\ f \in File /\ job.status = "PENDING"
        /\ \A p \in Node : job.peers[p].status \in {"NONE", "PENDING"}
        /\ \A g \in File \ {f} :
             collabData[n][g].status = "PENDING" <=> SomePeerPending(collabData[n][g])
    BY <2>1, StartingJob DEF StartingAt
  <2>4. \A m \in Node \ {n} : daemon'[m] = daemon[m]
    BY <1>7 DEF SendRequest, RequestRefused, Post, TypeInv
  <2>5. \/ daemon'[n] = [at |-> "panic"]
        \/ daemon'[n].at \in StartingAt \ {"retrieve"} /\ daemon'[n].file = f
    <3>1. CASE RequestRefused(n)
      <4>1. daemon'[n] = [daemon[n] EXCEPT !.at = "send", !.i = NextPeer(daemon[n])]
        BY <3>1 DEF RequestRefused, TypeInv
      <4> QED BY <4>1, <2>2 DEF SendLoop, StartingAt
    <3>2. CASE SendRequest(n)
      <4> DEFINE waiting == [daemon[n] EXCEPT !.at = "sending"]
      <4>1. \/ daemon'[n] = [at |-> "panic"]
            \/ \E c : Post(n, c, waiting)
        BY <3>2 DEF SendRequest, TypeInv
      <4>2. \/ daemon'[n] = [at |-> "panic"]
            \/ daemon'[n] \in {waiting, Answered(waiting, FALSE)}
        BY <4>1, PostBystanders
      <4>3. waiting.at = "sending" /\ waiting.file = f
        BY <2>2 DEF SendLoop
      <4>4. Answered(waiting, FALSE).at = "refused" /\ Answered(waiting, FALSE).file = f
        BY <2>2, <4>3 DEF SendLoop, Answered
      <4> QED BY <4>2, <4>3, <4>4 DEF StartingAt
    <3> QED BY <1>7, <3>1, <3>2
  <2>6. Awaited(daemon'[n], collabData'[n])
    <3>1. CASE daemon'[n] = [at |-> "panic"]
      BY <3>1, PanicIsAwaited
    <3>2. CASE daemon'[n].at \in StartingAt \ {"retrieve"} /\ daemon'[n].file = f
      <4> HIDE DEF f
      <4>1. collabData'[n] = collabData[n]
        BY <2>1
      <4> QED BY <2>3, <3>2, <4>1, AwaitedStarting
    <3> QED BY <2>5, <3>1, <3>2
  <2> QED BY <2>1, <2>4, <2>6, BystanderKeeps DEF AwaitInv, Bystander
<1>8. ASSUME NEW n \in Node, RequestAccepted(n)
      PROVE  AwaitInv'
  <2> DEFINE d == daemon[n]
             f == d.file
             job == collabData[n][f]
             p == d.peers[d.i]
             info == Allocate(job.peers[p], d.reqs[d.i])
             new == [job EXCEPT !.peers[p] = info]
  <2>1. d.at = "accepted" /\ SetJob(n, f, new)
    BY <1>8 DEF RequestAccepted
  <2>2. d \in SendLoop("accepted") /\ InRange(d)
    BY <2>1, LoopAt
  <2>3. p \in Node
    BY <2>1, <2>2 DEF SendLoop, InRange
  <2>4. /\ f \in File /\ job \in Job /\ job.status = "PENDING"
        /\ \A q \in Node : job.peers[q].status \in {"NONE", "PENDING"}
        /\ \A g \in File \ {f} :
             collabData[n][g].status = "PENDING" <=> SomePeerPending(collabData[n][g])
    BY <2>1, StartingJob DEF StartingAt
  <2>5. info.status = "PENDING"
    BY <2>3, <2>4 DEF Allocate
  <2>6. /\ \A m \in Node \ {n} : daemon'[m] = daemon[m]
        /\ \/ daemon'[n] = Select
           \/ daemon'[n] = [d EXCEPT !.at = "send", !.i = NextPeer(d), !.sent = @ + 1]
    BY <1>8 DEF RequestAccepted, TypeInv
  <2>7. \/ daemon'[n] = Select
        \/ daemon'[n].at = "send" /\ daemon'[n].file = f
    <3>1. [d EXCEPT !.at = "send", !.i = NextPeer(d), !.sent = @ + 1].at = "send"
          /\ [d EXCEPT !.at = "send", !.i = NextPeer(d), !.sent = @ + 1].file = f
      BY <2>2 DEF SendLoop
    <3> QED BY <2>6, <3>1
  <2> HIDE DEF info
  <2>8. new.status = "PENDING" /\ new.peers = [job.peers EXCEPT ![p] = info]
    BY <2>4 DEF Job
  <2>9. /\ new.peers[p] = info
        /\ \A q \in Node \ {p} : new.peers[q] = job.peers[q]
    BY <2>3, <2>4, <2>8 DEF Job
  <2> HIDE DEF new, f, job, p
  <2>10. /\ new.status = "PENDING" /\ SomePeerPending(new)
         /\ \A q \in Node : new.peers[q].status \in {"NONE", "PENDING"}
    BY <2>3, <2>4, <2>5, <2>8, <2>9 DEF SomePeerPending
  <2>11. collabData'[n][f] = new /\ \A g \in File \ {f} : collabData'[n][g] = collabData[n][g]
    BY <2>1, <2>4, SetJobEffect
  <2>12. Awaited(daemon'[n], collabData'[n])
    <3> DEFINE jobs == collabData'[n]
               e == daemon'[n]
    <3>1. /\ \A g \in File \ {f} : jobs[g].status = "PENDING" <=> SomePeerPending(jobs[g])
          /\ jobs[f].status = "PENDING" /\ SomePeerPending(jobs[f])
          /\ \A q \in Node : jobs[f].peers[q].status \in {"NONE", "PENDING"}
      BY <2>4, <2>10, <2>11
    <3>2. e.at \notin StartingAt \/ (e.at = "send" /\ e.file = f)
      BY <2>7 DEF Select, StartingAt
    <3> HIDE DEF jobs, e
    <3>3. Awaited(e, jobs)
      BY <2>4, <3>1, <3>2, AwaitedStarting, AwaitedSettled DEF StartingAt
    <3> QED BY <3>3 DEF e, jobs
  <2> QED BY <2>1, <2>4, <2>6, <2>12, JobStep
<1>9. ASSUME NEW n \in Node, FinishUnitRepair(n) \/ PostReset(n)
      PROVE  AwaitInv'
  <2>1. UNCHANGED collabData /\ daemon[n].at \in {"unit", "reset"}
    BY <1>9 DEF FinishUnitRepair, PostReset
  <2>2. PICK c, waiting : Post(n, c, waiting) /\ waiting.at \in {"reporting", "resetting"}
    <3>1. CASE FinishUnitRepair(n)
      BY <3>1 DEF FinishUnitRepair
    <3>2. CASE PostReset(n)
      <4>1. PICK m \in daemon[n].todo :
              Post(n, [kind |-> "reset", to |-> m, from |-> n, file |-> daemon[n].file],
                   [daemon[n] EXCEPT !.at = "resetting", !.todo = @ \ {m}])
        BY <3>2 DEF PostReset
      <4>2. [daemon[n] EXCEPT !.at = "resetting", !.todo = @ \ {m}].at = "resetting"
        BY <3>2 DEF PostReset, TypeInv, Sound, Activity, SendLoop
      <4> QED BY <4>1, <4>2
    <3> QED BY <1>9, <3>1, <3>2
  <2>3. /\ daemon'[n] \in {waiting, Answered(waiting, FALSE)}
        /\ \A m \in Node \ {n} : daemon'[m] = daemon[m]
    BY <2>2, PostBystanders
  <2>4. Answered(waiting, FALSE).at \in {"select", "reset"}
    BY <2>2 DEF Answered, Select
  <2> QED BY <2>1, <2>2, <2>3, <2>4, QuietStep DEF StartingAt
<1>10. ASSUME NEW n \in Node, ResetsDone(n) \/ Restart(n)
       PROVE  AwaitInv'
  <2>1. /\ UNCHANGED collabData /\ daemon[n].at \in {"reset", "down"}
        /\ daemon' = [daemon EXCEPT ![n] = Select]
    BY <1>10 DEF ResetsDone, Restart
  <2>2. daemon'[n] = Select /\ \A m \in Node \ {n} : daemon'[m] = daemon[m]
    BY <2>1 DEF TypeInv
  <2> QED BY <2>1, <2>2, QuietStep DEF StartingAt, Select
<1>11. ASSUME NEW n \in Node, Panic(n) \/ Crash(n)
       PROVE  AwaitInv'
  <2>1. Dies(n)
    BY <1>11 DEF Panic, Crash
  <2>2. daemon'[n] = [at |-> "down"] /\ collabData'[n] = [f \in File |-> NoJob]
    BY <2>1 DEF Dies, TypeInv
  <2>3. Awaited(daemon'[n], collabData'[n])
    BY <2>2 DEF Awaited, IsStarting, StartingAt, SomePeerPending, NoJob, NoPeer
  <2>4. ASSUME NEW m \in Node \ {n}
        PROVE  Awaited(daemon'[m], collabData'[m])
    <3>1. collabData'[m] = collabData[m]
      BY <2>1 DEF Dies, TypeInv
    <3>2. daemon'[m] \in {daemon[m], Answered(daemon[m], FALSE)}
      BY <2>1 DEF Dies, TypeInv
    <3> QED BY <3>1, <3>2, BystanderKeeps DEF Bystander
  <2> QED BY <2>3, <2>4 DEF AwaitInv
<1>12. ASSUME NEW n \in Node, NEW f \in File, RepairStrand(n, f)
       PROVE  AwaitInv'
  <2>1. /\ UNCHANGED collabData /\ daemon[n].at = "select"
        /\ daemon' = [daemon EXCEPT ![n] = AfterStrand(n, f)]
    BY <1>12 DEF RepairStrand
  <2>2. daemon'[n] = AfterStrand(n, f) /\ \A m \in Node \ {n} : daemon'[m] = daemon[m]
    BY <2>1 DEF TypeInv
  <2>3. AfterStrand(n, f).at \notin StartingAt
    BY DEF AfterStrand, StartingAt, Select
  <2> QED BY <2>1, <2>2, <2>3, QuietStep DEF StartingAt
<1>13. ASSUME NEW c \in calls, LoseRequest(c) \/ LoseAnswer(c)
       PROVE  AwaitInv'
  <2>1. UNCHANGED collabData /\ daemon' = Answer(c, FALSE)
    BY <1>13 DEF LoseRequest, LoseAnswer
  <2>2. \A m \in Node : Bystander(m)
    BY <2>1 DEF Bystander, Answer
  <2> QED BY <2>2, BystanderKeeps DEF AwaitInv
<1>14. ASSUME UNCHANGED <<collabData, daemon>>
       PROVE  AwaitInv'
  BY <1>14 DEF AwaitInv
<1>15. CASE UNCHANGED vars
  BY <1>14, <1>15 DEF vars
<1>16. ASSUME NEW n \in Node, NEW f \in File,
              TriggerCollabRepair(n, f) \/ TriggerStrandRepair(n, f)
       PROVE  AwaitInv'
  <2>1. UNCHANGED <<collabData, daemon>>
    BY <1>16 DEF TriggerCollabRepair, TriggerStrandRepair, ClientAsks
  <2> QED BY <1>14, <2>1
<1>17. ASSUME NEW n \in Node, Daemon(n)
       PROVE  AwaitInv'
  <2>1. CASE Runs(n)
    BY <2>1, <1>5, <1>6, <1>7, <1>8, <1>9, <1>10, <1>11 DEF Runs
  <2>2. ASSUME NEW c \in calls, Receives(n, c)
        PROVE  AwaitInv'
    BY <2>2, <1>1, <1>3, <1>4 DEF Receives
  <2> QED BY <1>17, <2>1, <2>2 DEF Daemon
<1>18. CASE Environment
  BY <1>18, <1>2, <1>10, <1>11, <1>12, <1>13, <1>16 DEF Environment
<1> QED BY <1>15, <1>17, <1>18 DEF Next

\* Whatever fails and however repairs overlap, a repair the coordinator is not starting
\* is pending exactly while one of its peers is (StartCollabRepair, ReportUnitRepair).
THEOREM PendingAwaited == Spec => []PendingIffAwaited
<1>1. Init => TypeInv /\ AwaitInv
  <2>1. Init => TypeInv
    BY InitType
  <2>2. Init => AwaitInv
    BY DEF Init, AwaitInv, Awaited, IsStarting, StartingAt, Select, NoJob, NoPeer,
           SomePeerPending
  <2> QED BY <2>1, <2>2
<1>2. TypeInv /\ AwaitInv /\ [Next]_vars => TypeInv' /\ AwaitInv'
  BY TypeStep, AwaitStep
<1>3. AwaitInv => PendingIffAwaited
  BY DEF AwaitInv, Awaited, PendingIffAwaited, IsStarting, Starting, StartingAt
<1> QED BY <1>1, <1>2, <1>3, PTL DEF Spec

-----------------------------------------------------------------------------
(* A repair in progress is kept *)

LEMMA SetJobKeeps ==
  ASSUME TypeInv, NEW n \in Node, NEW f \in File, NEW job, SetJob(n, f, job),
         collabData[n][f].status = "PENDING" => Keeps(collabData[n][f], job)
  PROVE  KeepPending
<1> SUFFICES ASSUME NEW m \in Node, NEW g \in File, ~(m = n /\ g = f)
             PROVE  Keeps(collabData[m][g], collabData'[m][g])
  BY SetJobEffect DEF KeepPending
<1>1. collabData'[m][g] = collabData[m][g]
  BY SetJobEffect
<1> QED BY <1>1 DEF Keeps

LEMMA UnchangedKeeps ==
  ASSUME UNCHANGED collabData
  PROVE  KeepPending
BY DEF KeepPending, Keeps

LEMMA BeginKeeps ==
  ASSUME TypeInv, NEW n \in Node, NEW f \in File, NEW origin, BeginJob(n, f, origin)
  PROVE  KeepPending
<1>1. CASE collabData[n][f].status = "PENDING"
  BY <1>1, UnchangedKeeps DEF BeginJob
<1>2. CASE collabData[n][f].status # "PENDING"
  BY <1>2, SetJobKeeps DEF BeginJob
<1> QED BY <1>1, <1>2

LEMMA KeepStep == TypeInv /\ [Next]_vars => [KeepPending]_vars
<1> SUFFICES ASSUME TypeInv, Next
             PROVE  KeepPending
  OBVIOUS
<1> USE DEF jobVars
<1>1. ASSUME NEW n \in Node, NEW c \in calls, StartCollabRepair(n, c)
      PROVE  KeepPending
  <2>1. c.file \in File
    BY CallKinds DEF TypeInv
  <2> QED BY <1>1, <2>1, BeginKeeps DEF StartCollabRepair
<1>2. ASSUME NEW n \in Node, NEW f \in File, RepairFile(n, f)
      PROVE  KeepPending
  BY <1>2, BeginKeeps DEF RepairFile
<1>3. ASSUME NEW n \in Node, NEW c \in calls, ReportUnitRepair(n, c)
      PROVE  KeepPending
  <2> DEFINE job == collabData[n][c.file]
             peers == [job.peers EXCEPT ![c.peer] = Reported(@, c)]
             new == [job EXCEPT !.peers = peers, !.status = Verdict(peers, job.status)]
  <2>1. c \in UnitDone
    BY <1>3, CallKinds DEF ReportUnitRepair, Take, TypeInv
  <2>2. c.file \in File /\ c.peer \in Node /\ job \in Job
    BY <2>1 DEF UnitDone, TypeInv
  <2>3. SetJob(n, c.file, new)
    BY <1>3, <2>2 DEF ReportUnitRepair, Job
  <2>4. \A p \in Node : job.peers[p].alloc \subseteq peers[p].alloc
    BY <2>2 DEF Job, Reported
  <2>5. new.peers = peers /\ new.origin = job.origin
    BY <2>2 DEF Job
  <2> HIDE DEF new, peers
  <2>6. Keeps(job, new)
    BY <2>4, <2>5 DEF Keeps
  <2> QED BY <2>2, <2>3, <2>6, SetJobKeeps
<1>4. ASSUME NEW n \in Node, RetrieveFails(n) \/ NothingToRepair(n) \/ PlanRequests(n)
      PROVE  KeepPending
  <2> DEFINE f == daemon[n].file
             job == collabData[n][f]
  <2>1. f \in File /\ job \in Job
    BY <1>4, RetrieveAt DEF RetrieveFails, NothingToRepair, PlanRequests, TypeInv
  <2>2. PICK new : /\ SetJob(n, f, new)
                   /\ \/ \E st : new = [job EXCEPT !.status = st]
                      \/ \E found : new = [job EXCEPT !.found = found]
    <3>1. CASE RetrieveFails(n) \/ NothingToRepair(n)
      BY <3>1 DEF RetrieveFails, NothingToRepair
    <3>2. CASE PlanRequests(n)
      <4>1. \E found : SetJob(n, f, [job EXCEPT !.found = found])
        BY <3>2 DEF PlanRequests
      <4> QED BY <4>1
    <3> QED BY <1>4, <3>1, <3>2
  <2>3. new.peers = job.peers /\ new.origin = job.origin
    BY <2>1, <2>2 DEF Job
  <2>4. Keeps(job, new)
    BY <2>3 DEF Keeps
  <2> QED BY <2>1, <2>2, <2>4, SetJobKeeps
<1>5. ASSUME NEW n \in Node, RequestAccepted(n)
      PROVE  KeepPending
  <2> DEFINE d == daemon[n]
             job == collabData[n][d.file]
             p == d.peers[d.i]
             info == Allocate(job.peers[p], d.reqs[d.i])
             new == [job EXCEPT !.peers[p] = info]
  <2>1. d.at = "accepted" /\ SetJob(n, d.file, new)
    BY <1>5 DEF RequestAccepted
  <2>2. d \in SendLoop("accepted")
    BY <2>1, LoopAt
  <2>3. d.file \in File /\ job \in Job
    BY <2>2 DEF SendLoop, TypeInv
  <2>4. job.peers[p].alloc \subseteq info.alloc
    BY DEF Allocate
  <2> HIDE DEF info
  <2>5. new.origin = job.origin /\ new.peers = [job.peers EXCEPT ![p] = info]
    BY <2>3 DEF Job
  <2>6. \A q \in Node : job.peers[q].alloc \subseteq new.peers[q].alloc
    BY <2>3, <2>4, <2>5 DEF Job
  <2> HIDE DEF new, p, job
  <2>7. Keeps(job, new)
    BY <2>5, <2>6 DEF Keeps
  <2> QED BY <2>1, <2>3, <2>7, SetJobKeeps DEF job
<1>6. ASSUME NEW n \in Node, Panic(n) \/ Crash(n)
      PROVE  KeepPending
  <2>1. /\ daemon'[n].at = "down"
        /\ \A m \in Node \ {n} : collabData'[m] = collabData[m]
    <3>1. Dies(n)
      BY <1>6 DEF Panic, Crash
    <3> QED BY <3>1 DEF Dies, TypeInv
  <2> QED BY <2>1 DEF KeepPending, Keeps
<1>7. ASSUME NEW n \in Node, Daemon(n)
      PROVE  KeepPending
  <2>1. CASE Runs(n)
    <3>1. CASE \/ SendRequest(n) \/ RequestRefused(n) \/ FinishUnitRepair(n)
               \/ PostReset(n) \/ ResetsDone(n)
      BY <3>1, UnchangedKeeps DEF SendRequest, RequestRefused, FinishUnitRepair, PostReset,
         ResetsDone
    <3> QED BY <2>1, <3>1, <1>4, <1>5, <1>6 DEF Runs
  <2>2. ASSUME NEW c \in calls, Receives(n, c)
        PROVE  KeepPending
    <3>1. CASE \/ StartUnitRepair(n, c) \/ IgnoreReport(n, c) \/ StartStrandRepair(n, c)
               \/ ContinueStrandRepair(n, c) \/ ResetMonitor(n, c)
      BY <3>1, UnchangedKeeps DEF StartUnitRepair, IgnoreReport, StartStrandRepair,
         ContinueStrandRepair, ResetMonitor
    <3> QED BY <2>2, <3>1, <1>1, <1>3 DEF Receives
  <2> QED BY <1>7, <2>1, <2>2 DEF Daemon
<1>8. CASE Environment
  <2>1. ASSUME NEW n \in Node, NEW f \in File,
               \/ TriggerCollabRepair(n, f) \/ TriggerStrandRepair(n, f) \/ RepairStrand(n, f)
        PROVE  KeepPending
    BY <2>1, UnchangedKeeps DEF TriggerCollabRepair, TriggerStrandRepair, ClientAsks,
       RepairStrand
  <2>2. ASSUME NEW c \in calls, LoseRequest(c) \/ LoseAnswer(c)
        PROVE  KeepPending
    BY <2>2, UnchangedKeeps DEF LoseRequest, LoseAnswer
  <2>3. ASSUME NEW n \in Node, Restart(n)
        PROVE  KeepPending
    BY <2>3, UnchangedKeeps DEF Restart
  <2> QED BY <1>8, <2>1, <2>2, <2>3, <1>2, <1>6 DEF Environment
<1> QED BY <1>7, <1>8 DEF Next

\* No request for a file replaces a repair of it that is in progress, whatever fails and
\* whoever asks (the first return of StartCollabRepair).
THEOREM RepairKept == Spec => PendingRepairIsKept
<1>1. Init => TypeInv
  BY InitType
<1>2. TypeInv /\ [Next]_vars => TypeInv'
  BY TypeStep
<1>3. TypeInv /\ [Next]_vars => [KeepPending]_vars
  BY KeepStep
<1> QED BY <1>1, <1>2, <1>3, PTL DEF Spec, PendingRepairIsKept

-----------------------------------------------------------------------------
(* Repairs in which nothing fails *)

\* The systems the theorems are about: no crash and no lost request or answer, no
\* client asks for a repair by no peers, every node has another one to ask, and a
\* client names as Origin only a node that monitors the file.
FaultFree ==
  /\ MaxFaults = 0
  /\ 0 \notin PeerLimits
  /\ \A n \in Node : Node # {n}
  /\ \A f \in File : Origins \ {Nobody} \subseteq Monitors[f]

-----------------------------------------------------------------------------
(* Who waits for which post *)

\* Inside the loop that posts the requests, and while a post is out.
LoopAts == {"send", "sending", "accepted"}
WaitAts == {"sending", "reporting", "resetting"}

\* Without faults no request is refused, so request i goes to peer i, after i - 1
\* others, and the daemon never panics.
Fine(d) ==
  /\ d.at \notin {"down", "panic", "refused"}
  /\ d.at = "retrieve" => d.limit # 0
  /\ d.at \in LoopAts => d.i = d.sent + 1 /\ d.i <= Len(d.reqs)

\* The daemon d waits for the answer of c, and c is what it posted.
Waits(d, c) ==
  CASE c.kind = "unit" -> /\ d.at = "sending" /\ d.file = c.file /\ c.origin = c.from
                          /\ c.to = d.peers[d.i] /\ c.leaves = d.reqs[d.i]
    [] c.kind = "unitDone" -> d.at = "reporting" /\ c.peer = c.from
    [] c.kind = "collabDone" -> d.at = "reporting" /\ c.to \in Monitors[c.file]
    [] c.kind = "reset" -> d.at = "resetting"
    [] OTHER -> FALSE

FromClient(c) ==
  /\ c.kind \in {"collab", "strand"}
  /\ c.kind = "collab" => c.limit # 0 /\ c.origin \in Monitors[c.file] \cup {Nobody}

Expected(daemons, c) ==
  IF c.from = Nobody THEN FromClient(c) ELSE Waits(daemons[c.from], c)

KnownOrigins(jobs) ==
  \A n \in Node, f \in File : jobs[n][f].origin \in Monitors[f] \cup {Nobody}

CallsInv ==
  /\ \A n \in Node : Fine(daemon[n])
  /\ \A c \in calls : Expected(daemon, c)
  /\ \A c, e \in calls : c.from = e.from /\ c.from # Nobody => c = e
  /\ KnownOrigins(collabData)

LEMMA WaitsAt ==
  ASSUME NEW d, NEW c, Waits(d, c)
  PROVE  d.at \in WaitAts
BY DEF Waits, WaitAts

LEMMA AnsweredFine ==
  ASSUME NEW d \in Sound, Fine(d)
  PROVE  Fine(Answered(d, TRUE))
<1>1. CASE d.at = "sending"
  <2>1. d \in SendLoop("sending")
    BY <1>1 DEF Sound, InRange, Activity, SendLoop
  <2>2. Answered(d, TRUE) = [d EXCEPT !.at = "accepted"]
    BY <1>1 DEF Answered
  <2> QED BY <1>1, <2>1, <2>2 DEF Fine, LoopAts, SendLoop
<1>2. CASE d.at = "resetting"
  BY <1>2 DEF Answered, Fine, LoopAts, Sound, Activity, SendLoop
<1>3. CASE d.at = "reporting"
  BY <1>3 DEF Answered, Fine, LoopAts, Select
<1>4. CASE d.at \notin {"sending", "resetting", "reporting"}
  BY <1>4 DEF Answered
<1> QED BY <1>1, <1>2, <1>3, <1>4

\* The select of n takes c: the caller of c is another node, and no other waits for it.
LEMMA TakeCalls ==
  ASSUME TypeInv, CallsInv, NEW n \in Node, NEW c \in calls, NEW kind, NEW next, NEW posted,
         Take(n, c, kind, next, posted), Fine(next),
         \A e \in posted : e.from = n /\ Waits(next, e),
         \A e, g \in posted : e = g,
         KnownOrigins(collabData')
  PROVE  CallsInv'
<1>1. /\ daemon[n].at = "select" /\ calls' = (calls \ {c}) \cup posted
      /\ daemon' = [Answer(c, TRUE) EXCEPT ![n] = next]
  BY DEF Take
<1>2. /\ daemon'[n] = next
      /\ \A m \in Node \ {n} :
           daemon'[m] = IF m = c.from THEN Answered(daemon[m], TRUE) ELSE daemon[m]
  BY <1>1 DEF Answer
<1>3. \A e \in calls : e.from \in Caller
  BY CallKinds DEF TypeInv
<1>4. \A e \in calls : e.from # n
  <2> SUFFICES ASSUME NEW e \in calls, e.from = n
               PROVE  FALSE
    OBVIOUS
  <2>1. Waits(daemon[n], e)
    BY ConstantsAssumption DEF CallsInv, Expected
  <2> QED BY <1>1, <2>1, WaitsAt DEF WaitAts
<1>5. \A m \in Node : Fine(daemon'[m])
  <2> SUFFICES ASSUME NEW m \in Node \ {n}
               PROVE  Fine(daemon'[m])
    BY <1>2
  <2>1. daemon[m] \in Sound /\ Fine(daemon[m])
    BY DEF TypeInv, CallsInv
  <2> QED BY <1>2, <2>1, AnsweredFine
<1>6. \A e \in calls' : Expected(daemon', e)
  <2> SUFFICES ASSUME NEW e \in calls'
               PROVE  Expected(daemon', e)
    OBVIOUS
  <2>1. CASE e \in posted
    BY <1>2, <2>1, ConstantsAssumption DEF Expected
  <2>2. CASE e \in calls \ {c} /\ e.from = Nobody
    BY <2>2 DEF Expected, CallsInv
  <2>3. CASE e \in calls \ {c} /\ e.from # Nobody
    <3>1. e.from # c.from
      BY <2>3 DEF CallsInv
    <3>2. e.from \in Node \ {n}
      BY <1>3, <1>4, <2>3 DEF Caller
    <3>3. daemon'[e.from] = daemon[e.from]
      BY <1>2, <3>1, <3>2
    <3> QED BY <2>3, <3>3 DEF Expected, CallsInv
  <2> QED BY <1>1, <2>1, <2>2, <2>3
<1>7. \A e, g \in calls' : e.from = g.from /\ e.from # Nobody => e = g
  BY <1>1, <1>4 DEF CallsInv
<1> QED BY <1>5, <1>6, <1>7 DEF CallsInv

\* A daemon that does not wait posts c: no node refuses it.
LEMMA PostCalls ==
  ASSUME TypeInv, CallsInv, NEW n \in Node, NEW c, NEW waiting, Post(n, c, waiting),
         c.to \in Node, c.from = n, daemon[n].at \notin WaitAts,
         Fine(waiting), Waits(waiting, c), UNCHANGED collabData
  PROVE  /\ CallsInv'
         /\ daemon' = [daemon EXCEPT ![n] = waiting] /\ calls' = calls \cup {c}
<1>1. daemon' = [daemon EXCEPT ![n] = waiting] /\ calls' = calls \cup {c}
  BY DEF Post, CallsInv, Fine
<1>2. daemon'[n] = waiting /\ \A m \in Node \ {n} : daemon'[m] = daemon[m]
  BY <1>1 DEF TypeInv
<1>3. \A e \in calls : e.from # n /\ e.from \in Caller
  <2> SUFFICES ASSUME NEW e \in calls, e.from = n
               PROVE  FALSE
    BY CallKinds DEF TypeInv
  <2>1. Waits(daemon[n], e)
    BY ConstantsAssumption DEF CallsInv, Expected
  <2> QED BY <2>1, WaitsAt
<1>4. \A e \in calls' : Expected(daemon', e)
  <2>1. Expected(daemon', c)
    BY <1>2, ConstantsAssumption DEF Expected
  <2>2. ASSUME NEW e \in calls
        PROVE  Expected(daemon', e)
    BY <1>2, <1>3 DEF Expected, CallsInv, Caller
  <2> QED BY <1>1, <2>1, <2>2
<1>5. \A m \in Node : Fine(daemon'[m])
  BY <1>2 DEF CallsInv
<1>6. \A e, g \in calls' : e.from = g.from /\ e.from # Nobody => e = g
  BY <1>1, <1>3 DEF CallsInv
<1>7. KnownOrigins(collabData')
  BY DEF CallsInv
<1> QED BY <1>1, <1>4, <1>5, <1>6, <1>7 DEF CallsInv

\* A daemon that does not wait goes on by itself.
LEMMA LocalCalls ==
  ASSUME TypeInv, CallsInv, NEW n \in Node, NEW next, UNCHANGED calls,
         daemon' = [daemon EXCEPT ![n] = next], daemon[n].at \notin WaitAts, Fine(next),
         KnownOrigins(collabData')
  PROVE  CallsInv'
<1>1. daemon'[n] = next /\ \A m \in Node \ {n} : daemon'[m] = daemon[m]
  BY DEF TypeInv
<1>2. \A e \in calls : e.from # n /\ e.from \in Caller
  <2> SUFFICES ASSUME NEW e \in calls, e.from = n
               PROVE  FALSE
    BY CallKinds DEF TypeInv
  <2>1. Waits(daemon[n], e)
    BY ConstantsAssumption DEF CallsInv, Expected
  <2> QED BY <2>1, WaitsAt
<1>3. \A e \in calls : Expected(daemon', e)
  BY <1>1, <1>2 DEF Expected, CallsInv, Caller
<1>4. \A m \in Node : Fine(daemon'[m])
  BY <1>1 DEF CallsInv
<1> QED BY <1>3, <1>4 DEF CallsInv

\* A client's request joins the calls.
LEMMA ClientCalls ==
  ASSUME CallsInv, NEW c, calls' = calls \cup {c}, UNCHANGED <<daemon, collabData>>,
         c.from = Nobody, FromClient(c)
  PROVE  CallsInv'
<1>1. \A e \in calls' : Expected(daemon', e)
  BY DEF CallsInv, Expected
<1> QED BY <1>1 DEF CallsInv

LEMMA OriginsKept ==
  ASSUME TypeInv, CallsInv, NEW n \in Node, NEW f \in File, NEW job, SetJob(n, f, job),
         job.origin \in Monitors[f] \cup {Nobody}
  PROVE  KnownOrigins(collabData')
BY SetJobEffect DEF CallsInv, KnownOrigins

LEMMA BeginOrigins ==
  ASSUME TypeInv, CallsInv, NEW n \in Node, NEW f \in File,
         NEW origin \in Monitors[f] \cup {Nobody}, BeginJob(n, f, origin)
  PROVE  KnownOrigins(collabData')
<1>1. CASE collabData[n][f].status = "PENDING"
  BY <1>1 DEF BeginJob, CallsInv
<1>2. CASE collabData[n][f].status # "PENDING"
  <2>1. [NoJob EXCEPT !.status = "PENDING", !.origin = origin].origin = origin
    BY DEF NoJob
  <2> QED BY <1>2, <2>1, OriginsKept DEF BeginJob
<1> QED BY <1>1, <1>2

LEMMA AfterBeginFine ==
  ASSUME NEW n, NEW f, NEW limit, limit # 0
  PROVE  Fine(AfterBegin(n, f, limit))
BY DEF Fine, AfterBegin, Select, LoopAts

\* The division of the leaves has a peer to divide by.
LEMMA SomeRequest ==
  ASSUME TypeInv, FaultFree, CallsInv, NEW n \in Node, NEW limit \in Nat \ {0},
         NEW found \in (SUBSET Leaf) \ {{}}, NEW listed \in AllPeers(n),
         NEW peers \in Orders(listed), NEW leaves \in InTreeOrder(found)
  PROVE  /\ NumPeers(limit, peers, leaves) \in Nat \ {0}
         /\ NumPeers(limit, peers, leaves) <= Len(peers)
         /\ NumPeers(limit, peers, leaves) <= Len(leaves)
         /\ peers \in Seq(listed) /\ leaves \in Seq(found)
         /\ Len(peers) = Cardinality(listed) /\ Len(leaves) = Cardinality(found)
<1>1. IsFiniteSet(listed) /\ listed # {}
  <2>1. PICK m \in Node : m # n
    BY DEF FaultFree
  <2>2. m \in listed
    BY <2>1 DEF AllPeers, CallsInv, Fine
  <2>3. listed \subseteq Node
    BY DEF AllPeers
  <2> QED BY <2>2, <2>3, FS_Subset, ConstantsAssumption
<1>2. IsFiniteSet(found) /\ found # {}
  <2>1. NumLeaves \in Int /\ 1 \in Int
    BY ConstantsAssumption
  <2>2. IsFiniteSet(Leaf)
    BY <2>1, FS_Interval DEF Leaf
  <2> QED BY <2>2, FS_Subset
<1>3. peers \in Seq(listed) /\ Len(peers) = Cardinality(listed)
  BY <1>1, OrdersType
<1>4. leaves \in Seq(found) /\ Len(leaves) = Cardinality(found)
  BY <1>2, OrdersType DEF InTreeOrder
<1>5. Cardinality(listed) \in Nat \ {0} /\ Cardinality(found) \in Nat \ {0}
  BY <1>1, <1>2, FS_EmptySet, FS_CardinalityType
<1> QED BY <1>3, <1>4, <1>5 DEF NumPeers, SmallerOf

\* The loop that PlanRequests starts, with all there is to know of its requests.
Planned(n, f, limit, found, loop) ==
  \E listed \in AllPeers(n) :
    \E leaves \in InTreeOrder(found), peers \in Orders(listed) :
      LET np == NumPeers(limit, peers, leaves) IN
      loop = [at |-> "send", file |-> f, peers |-> peers,
              reqs |-> [k \in 1..np |-> FailedIndices(leaves, np, k)],
              i |-> 1, sent |-> 0]

LEMMA PlanIs ==
  ASSUME TypeInv, FaultFree, CallsInv, NEW n \in Node, PlanRequests(n)
  PROVE  /\ daemon[n].at = "retrieve" /\ daemon[n].file \in File
         /\ daemon[n].limit \in Nat \ {0}
         /\ \E found \in (SUBSET Leaf) \ {{}} : \E loop :
              /\ SetJob(n, daemon[n].file,
                        [collabData[n][daemon[n].file] EXCEPT !.found = found])
              /\ daemon' = [daemon EXCEPT ![n] = loop]
              /\ Planned(n, daemon[n].file, daemon[n].limit, found, loop)
         /\ UNCHANGED <<strandData, calls, missing, triggers, faults>>
<1> DEFINE f == daemon[n].file
           limit == daemon[n].limit
<1>1. daemon[n].at = "retrieve"
  BY DEF PlanRequests
<1>2. f \in File /\ limit \in Nat \ {0}
  BY <1>1, RetrieveAt DEF CallsInv, Fine
<1>3. PICK found \in (SUBSET Leaf) \ {{}}, listed \in AllPeers(n) :
        \E leaves \in InTreeOrder(found), peers \in Orders(listed) :
          LET np == NumPeers(limit, peers, leaves)
          IN  /\ SetJob(n, f, [collabData[n][f] EXCEPT !.found = found])
              /\ daemon' = [daemon EXCEPT ![n] =
                   IF np = 0 THEN [at |-> "panic"]
                   ELSE [at |-> "send", file |-> f, peers |-> peers,
                         reqs |-> [k \in 1..np |-> FailedIndices(leaves, np, k)],
                         i |-> 1, sent |-> 0]]
  BY DEF PlanRequests
<1>4. PICK leaves \in InTreeOrder(found), peers \in Orders(listed) :
        LET np == NumPeers(limit, peers, leaves)
        IN  /\ SetJob(n, f, [collabData[n][f] EXCEPT !.found = found])
            /\ daemon' = [daemon EXCEPT ![n] =
                 IF np = 0 THEN [at |-> "panic"]
                 ELSE [at |-> "send", file |-> f, peers |-> peers,
                       reqs |-> [k \in 1..np |-> FailedIndices(leaves, np, k)],
                       i |-> 1, sent |-> 0]]
  BY <1>3
<1> DEFINE np == NumPeers(limit, peers, leaves)
           loop == [at |-> "send", file |-> f, peers |-> peers,
                    reqs |-> [k \in 1..np |-> FailedIndices(leaves, np, k)],
                    i |-> 1, sent |-> 0]
<1>5. np # 0
  BY <1>2, SomeRequest
<1>6. daemon' = [daemon EXCEPT ![n] = loop]
  BY <1>4, <1>5
<1>7. Planned(n, f, limit, found, loop)
  BY DEF Planned
<1>8. SetJob(n, f, [collabData[n][f] EXCEPT !.found = found])
  BY <1>4
<1> HIDE DEF loop
<1> QED BY <1>1, <1>2, <1>6, <1>7, <1>8 DEF PlanRequests

\* The requests of a loop split the leaves that were found between different peers.
SplitAmong(d, found) ==
  /\ \A j, k \in 1..Len(d.peers) : d.peers[j] = d.peers[k] => j = k
  /\ \A j, k \in 1..Len(d.reqs) : j # k => d.reqs[j] \cap d.reqs[k] = {}
  /\ found = UNION {d.reqs[k] : k \in 1..Len(d.reqs)}

\* What the loop starts with.
LEMMA PlannedLoop ==
  ASSUME TypeInv, FaultFree, CallsInv, NEW n \in Node, NEW f, NEW limit \in Nat \ {0},
         NEW found \in (SUBSET Leaf) \ {{}}, NEW loop, Planned(n, f, limit, found, loop)
  PROVE  /\ loop.at = "send" /\ loop.file = f /\ loop.i = 1 /\ loop.sent = 0
         /\ Len(loop.reqs) \in Nat \ {0}
         /\ SplitAmong(loop, found)
<1>1. PICK listed \in AllPeers(n) :
        \E leaves \in InTreeOrder(found), peers \in Orders(listed) :
          LET np == NumPeers(limit, peers, leaves) IN
          loop = [at |-> "send", file |-> f, peers |-> peers,
                  reqs |-> [k \in 1..np |-> FailedIndices(leaves, np, k)],
                  i |-> 1, sent |-> 0]
  BY DEF Planned
<1>2. PICK leaves \in InTreeOrder(found), peers \in Orders(listed) :
        LET np == NumPeers(limit, peers, leaves) IN
        loop = [at |-> "send", file |-> f, peers |-> peers,
                reqs |-> [k \in 1..np |-> FailedIndices(leaves, np, k)],
                i |-> 1, sent |-> 0]
  BY <1>1
<1> DEFINE np == NumPeers(limit, peers, leaves)
<1>3. /\ np \in Nat \ {0} /\ np <= Len(peers) /\ np <= Len(leaves)
      /\ peers \in Seq(listed) /\ leaves \in Seq(found)
      /\ Len(peers) = Cardinality(listed) /\ Len(leaves) = Cardinality(found)
  BY SomeRequest
<1> HIDE DEF np
<1>4. /\ loop.at = "send" /\ loop.file = f /\ loop.i = 1 /\ loop.sent = 0
      /\ loop.peers = peers /\ loop.reqs = [k \in 1..np |-> FailedIndices(leaves, np, k)]
  BY <1>2 DEF np
<1>5. Len(loop.reqs) = np /\ \A k \in 1..np : loop.reqs[k] = FailedIndices(leaves, np, k)
  BY <1>3, <1>4
<1>6. \A j, k \in 1..Len(peers) : peers[j] = peers[k] => j = k
  BY <1>3 DEF Orders
<1>7. /\ \A j, k \in 1..Len(leaves) : leaves[j] = leaves[k] => j = k
      /\ \A x \in found : \E j \in 1..Len(leaves) : leaves[j] = x
  <2>1. IsFiniteSet(found)
    <3>1. NumLeaves \in Int /\ 1 \in Int
      BY ConstantsAssumption
    <3>2. IsFiniteSet(Leaf)
      BY <3>1, FS_Interval DEF Leaf
    <3> QED BY <3>2, FS_Subset
  <2>2. leaves \in [1..Cardinality(found) -> found]
        /\ \A j, k \in 1..Cardinality(found) : leaves[j] = leaves[k] => j = k
    BY DEF InTreeOrder, Orders
  <2>3. leaves \in Surjection(1..Cardinality(found), found)
    <3>1. leaves \in Injection(1..Cardinality(found), found)
      BY <2>2 DEF Injection, IsInjective
    <3>2. Cardinality(found) \in Nat
      BY <2>1, FS_CardinalityType
    <3>3. Cardinality(1..Cardinality(found)) = Cardinality(found)
      BY <3>2, FS_Interval
    <3> QED BY <2>1, <3>1, <3>3, FS_Injection
  <2> QED BY <1>3, <2>2, <2>3 DEF Surjection
<1>8. np \in 1..Len(leaves)
  BY <1>3
<1>9. /\ \A j \in 1..Len(leaves) : \E k \in 1..np : leaves[j] \in FailedIndices(leaves, np, k)
      /\ \A k, l \in 1..np : k # l =>
           FailedIndices(leaves, np, k) \cap FailedIndices(leaves, np, l) = {}
  BY <1>3, <1>7, <1>8, RequestsSplitLeaves
<1>10. \A k \in 1..np : FailedIndices(leaves, np, k) \subseteq found
  BY <1>3, FailedIndicesType
<1>11. found = UNION {loop.reqs[k] : k \in 1..np}
  <2>1. \A x \in found : \E k \in 1..np : x \in loop.reqs[k]
    <3> SUFFICES ASSUME NEW x \in found
                 PROVE  \E k \in 1..np : x \in loop.reqs[k]
      OBVIOUS
    <3>1. PICK j \in 1..Len(leaves) : leaves[j] = x
      BY <1>7
    <3>2. PICK k \in 1..np : leaves[j] \in FailedIndices(leaves, np, k)
      BY <1>9, <3>1
    <3>3. x \in loop.reqs[k]
      BY <1>5, <3>1, <3>2
    <3> QED BY <3>3
  <2>2. \A k \in 1..np : loop.reqs[k] \subseteq found
    BY <1>5, <1>10
  <2> QED BY <2>1, <2>2
<1>12. \A j, k \in 1..np : j # k => loop.reqs[j] \cap loop.reqs[k] = {}
  BY <1>5, <1>9
<1>13. SplitAmong(loop, found)
  BY <1>4, <1>5, <1>6, <1>11, <1>12 DEF SplitAmong
<1> QED BY <1>3, <1>4, <1>5, <1>13

LEMMA CallsStep ==
  ASSUME FaultFree
  PROVE  TypeInv /\ CallsInv /\ [Next]_vars => CallsInv'
<1> SUFFICES ASSUME TypeInv, CallsInv, [Next]_vars
             PROVE  CallsInv'
  OBVIOUS
<1> USE DEF jobVars
<1>0. KnownOrigins(collabData)
  BY DEF CallsInv
<1>1. ASSUME NEW n \in Node, NEW c \in calls, StartCollabRepair(n, c)
      PROVE  CallsInv'
  <2>1. Take(n, c, "collab", AfterBegin(n, c.file, c.limit), {}) /\ BeginJob(n, c.file, c.origin)
    BY <1>1 DEF StartCollabRepair
  <2>2. c.kind = "collab" /\ c.file \in File
    BY <2>1, CallKinds DEF Take, TypeInv
  <2>3. FromClient(c)
    BY <2>2 DEF CallsInv, Expected, Waits
  <2>4. c.limit # 0 /\ c.origin \in Monitors[c.file] \cup {Nobody}
    BY <2>2, <2>3 DEF FromClient
  <2>5. Fine(AfterBegin(n, c.file, c.limit)) /\ KnownOrigins(collabData')
    BY <2>1, <2>2, <2>4, AfterBeginFine, BeginOrigins
  <2> QED BY <2>1, <2>5, TakeCalls
<1>2. ASSUME NEW n \in Node, NEW f \in File, RepairFile(n, f)
      PROVE  CallsInv'
  <2>1. /\ n \in Monitors[f] /\ daemon[n].at = "select" /\ UNCHANGED calls
        /\ daemon' = [daemon EXCEPT ![n] = AfterBegin(n, f, RepairNumPeers)]
        /\ BeginJob(n, f, n)
    BY <1>2 DEF RepairFile
  <2>2. Fine(AfterBegin(n, f, RepairNumPeers)) /\ KnownOrigins(collabData')
    BY <2>1, AfterBeginFine, BeginOrigins DEF RepairNumPeers
  <2> QED BY <2>1, <2>2, LocalCalls DEF WaitAts
<1>3. ASSUME NEW n \in Node, NEW c \in calls,
             \/ StartUnitRepair(n, c) \/ IgnoreReport(n, c) \/ StartStrandRepair(n, c)
             \/ ContinueStrandRepair(n, c) \/ ResetMonitor(n, c)
      PROVE  CallsInv'
  <2>1. \E kind, next : Take(n, c, kind, next, {}) /\ Fine(next)
    <3>1. CASE StartUnitRepair(n, c)
      BY <3>1 DEF StartUnitRepair, Fine, LoopAts
    <3>2. CASE IgnoreReport(n, c)
      BY <3>2 DEF IgnoreReport, Fine, LoopAts, Select
    <3>3. CASE StartStrandRepair(n, c)
      <4>1. Fine(AfterStrand(n, c.file))
        BY DEF AfterStrand, Fine, LoopAts, Select
      <4> QED BY <3>3, <4>1 DEF StartStrandRepair
    <3>4. CASE ContinueStrandRepair(n, c)
      <4>1. PICK todo \in SUBSET Monitors[c.file] :
               Take(n, c, "collabDone",
               IF strandData[n][c.file] = "PENDING" /\ ~c.ok THEN Select
               ELSE IF n \notin Monitors[c.file] THEN [at |-> "panic"]
               ELSE [at |-> "reset", file |-> c.file, todo |-> todo], {})
        BY <3>4 DEF ContinueStrandRepair
      <4>2. c.kind = "collabDone" /\ c.to = n
        BY <4>1 DEF Take
      <4>3. n \in Monitors[c.file]
        BY <4>2 DEF CallsInv, Expected, FromClient, Waits
      <4>4. Fine(IF strandData[n][c.file] = "PENDING" /\ ~c.ok THEN Select
                 ELSE IF n \notin Monitors[c.file] THEN [at |-> "panic"]
                 ELSE [at |-> "reset", file |-> c.file, todo |-> todo])
        BY <4>3 DEF Fine, LoopAts, Select
      <4> QED BY <4>1, <4>4
    <3>5. CASE ResetMonitor(n, c)
      BY <3>5 DEF ResetMonitor, Fine, LoopAts, Select
    <3> QED BY <1>3, <3>1, <3>2, <3>3, <3>4, <3>5
  <2>2. KnownOrigins(collabData')
    BY <1>0, <1>3 DEF StartUnitRepair, IgnoreReport, StartStrandRepair, ContinueStrandRepair,
                      ResetMonitor
  <2> QED BY <2>1, <2>2, TakeCalls
<1>4. ASSUME NEW n \in Node, NEW c \in calls, ReportUnitRepair(n, c)
      PROVE  CallsInv'
  <2> DEFINE f == c.file
             job == collabData[n][f]
             peers == [job.peers EXCEPT ![c.peer] = Reported(@, c)]
             new == [job EXCEPT !.peers = peers, !.status = Verdict(peers, job.status)]
             result == [kind |-> "collabDone", to |-> job.origin, from |-> n,
                        file |-> c.file, coordinator |-> n, ok |-> (c.repaired = c.leaves)]
             tell == /\ \A p \in Involved(peers) : peers[p].status # "PENDING"
                     /\ job.origin # Nobody
                     /\ daemon[job.origin].at # "down"
             next == IF tell THEN [at |-> "reporting"] ELSE Select
             posted == IF tell THEN {result} ELSE {}
  <2>1. f \in File /\ job \in Job
    BY CallKinds DEF TypeInv
  <2>2. SetJob(n, f, new) /\ Take(n, c, "unitDone", next, posted)
    BY <1>4, <2>1 DEF ReportUnitRepair, Job
  <2>3. new.origin = job.origin /\ job.origin \in Monitors[f] \cup {Nobody}
    BY <1>0, <2>1 DEF Job, KnownOrigins
  <2>4. /\ tell => Waits([at |-> "reporting"], result)
        /\ result.from = n
        /\ Fine([at |-> "reporting"]) /\ Fine(Select)
    BY <2>3 DEF Waits, Fine, Select, LoopAts
  <2> HIDE DEF tell, result
  <2>5. /\ \A e \in posted : e.from = n /\ Waits(next, e)
        /\ \A e, g \in posted : e = g
    BY <2>4
  <2>6. Fine(next)
    BY <2>4
  <2> HIDE DEF new, next, posted
  <2>7. KnownOrigins(collabData')
    BY <2>1, <2>2, <2>3, OriginsKept
  <2> QED BY <2>2, <2>5, <2>6, <2>7, TakeCalls
<1>5. ASSUME NEW n \in Node, RetrieveFails(n) \/ NothingToRepair(n)
      PROVE  CallsInv'
  <2> DEFINE f == daemon[n].file
             job == collabData[n][f]
  <2>1. /\ daemon[n].at = "retrieve" /\ UNCHANGED calls
        /\ daemon' = [daemon EXCEPT ![n] = Select]
        /\ \E st : SetJob(n, f, [job EXCEPT !.status = st])
    BY <1>5 DEF RetrieveFails, NothingToRepair
  <2>2. f \in File /\ job \in Job
    BY <2>1, RetrieveAt DEF TypeInv
  <2>3. \A st : [job EXCEPT !.status = st].origin = job.origin
    BY <2>2 DEF Job
  <2>4. KnownOrigins(collabData')
    BY <1>0, <2>1, <2>2, <2>3, OriginsKept DEF KnownOrigins
  <2> QED BY <2>1, <2>4, LocalCalls DEF Fine, Select, LoopAts, WaitAts
<1>6. ASSUME NEW n \in Node, PlanRequests(n)
      PROVE  CallsInv'
  <2> DEFINE f == daemon[n].file
             job == collabData[n][f]
  <2>1. /\ daemon[n].at = "retrieve" /\ f \in File /\ daemon[n].limit \in Nat \ {0}
        /\ UNCHANGED calls
    BY <1>6, PlanIs
  <2>0. PICK found \in (SUBSET Leaf) \ {{}} :
          \E loop : /\ SetJob(n, f, [job EXCEPT !.found = found])
                    /\ daemon' = [daemon EXCEPT ![n] = loop]
                    /\ Planned(n, f, daemon[n].limit, found, loop)
    BY <1>6, PlanIs
  <2>2. PICK loop : /\ SetJob(n, f, [job EXCEPT !.found = found])
                    /\ daemon' = [daemon EXCEPT ![n] = loop]
                    /\ Planned(n, f, daemon[n].limit, found, loop)
    BY <2>0
  <2>3. [job EXCEPT !.found = found].origin = job.origin
    BY <2>1 DEF TypeInv, Job
  <2>4. KnownOrigins(collabData')
    BY <1>0, <2>1, <2>2, <2>3, OriginsKept DEF KnownOrigins
  <2>5. /\ loop.at = "send" /\ loop.i = 1 /\ loop.sent = 0
        /\ Len(loop.reqs) \in Nat \ {0}
    BY <2>1, <2>2, PlannedLoop
  <2>6. Fine(loop)
    BY <2>5 DEF Fine, LoopAts
  <2> QED BY <2>1, <2>2, <2>4, <2>6, LocalCalls DEF WaitAts
<1>7. ASSUME NEW n \in Node, SendRequest(n)
      PROVE  CallsInv'
  <2> DEFINE d == daemon[n]
             c == [kind |-> "unit", to |-> d.peers[d.i], from |-> n, file |-> d.file,
                   origin |-> n, leaves |-> d.reqs[d.i]]
             waiting == [d EXCEPT !.at = "sending"]
  <2>1. d.at = "send" /\ UNCHANGED collabData
    BY <1>7 DEF SendRequest
  <2>2. d \in SendLoop("send") /\ InRange(d)
    BY <2>1, LoopAt
  <2>3. d.i <= Len(d.reqs) /\ d.i = d.sent + 1
    BY <2>1 DEF CallsInv, Fine, LoopAts
  <2>4. Post(n, c, waiting)
    BY <1>7, <2>2, <2>3 DEF SendRequest, SendLoop
  <2>5. c.to \in Node /\ c.from = n
    BY <2>1, <2>2, <2>3 DEF SendLoop, InRange
  <2>6. /\ waiting.at = "sending" /\ waiting.file = d.file /\ waiting.i = d.i
        /\ waiting.sent = d.sent /\ waiting.peers = d.peers /\ waiting.reqs = d.reqs
    BY <2>2 DEF SendLoop
  <2> HIDE DEF waiting
  <2>7. Fine(waiting)
    BY <2>3, <2>6 DEF Fine, LoopAts
  <2>8. Waits(waiting, c)
    BY <2>6 DEF Waits
  <2> HIDE DEF c
  <2> QED BY <2>1, <2>4, <2>5, <2>7, <2>8, PostCalls DEF WaitAts
<1>8. ASSUME NEW n \in Node, RequestAccepted(n)
      PROVE  CallsInv'
  <2> DEFINE d == daemon[n]
             f == d.file
             job == collabData[n][f]
             p == d.peers[d.i]
             info == Allocate(job.peers[p], d.reqs[d.i])
             new == [job EXCEPT !.peers[p] = info]
             on == [d EXCEPT !.at = "send", !.i = NextPeer(d), !.sent = @ + 1]
             next == IF d.sent + 1 < Len(d.reqs) THEN on ELSE Select
  <2>1. /\ d.at = "accepted" /\ SetJob(n, f, new) /\ UNCHANGED calls
        /\ daemon' = [daemon EXCEPT ![n] = next]
    BY <1>8 DEF RequestAccepted
  <2>2. d \in SendLoop("accepted") /\ InRange(d)
    BY <2>1, LoopAt
  <2>3. f \in File /\ job \in Job
    BY <2>2 DEF SendLoop, TypeInv
  <2>4. KnownOrigins(collabData')
    <3>1. new.origin = job.origin
      BY <2>3 DEF Job
    <3> HIDE DEF new
    <3> QED BY <1>0, <2>1, <2>3, <3>1, OriginsKept DEF KnownOrigins
  <2>5. d.i = d.sent + 1 /\ d.i \in Nat /\ d.sent \in Nat /\ Len(d.reqs) \in Nat
        /\ Len(d.peers) \in Nat /\ Len(d.reqs) <= Len(d.peers)
    BY <2>1, <2>2 DEF CallsInv, Fine, LoopAts, SendLoop, InRange
  <2>6. d.sent + 1 < Len(d.reqs) => NextPeer(d) = d.i + 1
    BY <2>5 DEF NextPeer
  <2>7. /\ on.at = "send" /\ on.i = NextPeer(d) /\ on.sent = d.sent + 1 /\ on.reqs = d.reqs
    BY <2>2 DEF SendLoop
  <2> HIDE DEF on
  <2>8. Fine(next)
    BY <2>5, <2>6, <2>7 DEF Fine, LoopAts, Select
  <2> HIDE DEF next
  <2> QED BY <2>1, <2>4, <2>8, LocalCalls DEF WaitAts
<1>9. ASSUME NEW n \in Node, FinishUnitRepair(n)
      PROVE  CallsInv'
  <2> DEFINE d == daemon[n]
  <2>1. d.at = "unit" /\ UNCHANGED collabData
    BY <1>9 DEF FinishUnitRepair
  <2>2. d.origin \in Node
    BY <2>1 DEF TypeInv, Sound, Activity, SendLoop
  <2>3. PICK repaired \in SUBSET d.leaves :
          Post(n, [kind |-> "unitDone", to |-> d.origin, from |-> n, file |-> d.file,
                   peer |-> n, leaves |-> d.leaves, repaired |-> repaired],
               [at |-> "reporting"])
    BY <1>9 DEF FinishUnitRepair
  <2> DEFINE c == [kind |-> "unitDone", to |-> d.origin, from |-> n, file |-> d.file,
                   peer |-> n, leaves |-> d.leaves, repaired |-> repaired]
             waiting == [at |-> "reporting"]
  <2>4. c.to \in Node /\ c.from = n /\ Waits(waiting, c) /\ Fine(waiting)
    BY <2>2 DEF Waits, Fine, LoopAts
  <2> HIDE DEF c, waiting
  <2>5. Post(n, c, waiting)
    BY <2>3 DEF c, waiting
  <2> QED BY <2>1, <2>4, <2>5, PostCalls DEF WaitAts
<1>10. ASSUME NEW n \in Node, PostReset(n)
       PROVE  CallsInv'
  <2> DEFINE d == daemon[n]
  <2>1. d.at = "reset" /\ UNCHANGED collabData
    BY <1>10 DEF PostReset
  <2>2. d \in [at : {"reset", "resetting"}, file : File, todo : SUBSET Node]
    BY <2>1 DEF TypeInv, Sound, Activity, SendLoop
  <2>3. PICK m \in d.todo :
       Post(n, [kind |-> "reset", to |-> m, from |-> n, file |-> d.file],
            [d EXCEPT !.at = "resetting", !.todo = @ \ {m}])
    BY <1>10 DEF PostReset
  <2> DEFINE c == [kind |-> "reset", to |-> m, from |-> n, file |-> d.file]
             waiting == [d EXCEPT !.at = "resetting", !.todo = @ \ {m}]
  <2>4. waiting.at = "resetting" /\ c.to \in Node /\ c.from = n /\ c.kind = "reset"
    BY <2>2, <2>3
  <2> HIDE DEF c, waiting
  <2>5. Waits(waiting, c) /\ Fine(waiting)
    BY <2>4 DEF Waits, Fine, LoopAts
  <2>6. Post(n, c, waiting)
    BY <2>3 DEF c, waiting
  <2> QED BY <2>1, <2>4, <2>5, <2>6, PostCalls DEF WaitAts
<1>11. ASSUME NEW n \in Node, ResetsDone(n)
       PROVE  CallsInv'
  <2>1. /\ daemon[n].at = "reset" /\ UNCHANGED <<calls, collabData>>
        /\ daemon' = [daemon EXCEPT ![n] = Select]
    BY <1>11 DEF ResetsDone
  <2> QED BY <1>0, <2>1, LocalCalls DEF Fine, Select, LoopAts, WaitAts
<1>12. ASSUME NEW n \in Node, NEW f \in File, RepairStrand(n, f)
       PROVE  CallsInv'
  <2>1. /\ daemon[n].at = "select" /\ UNCHANGED <<calls, collabData>>
        /\ daemon' = [daemon EXCEPT ![n] = AfterStrand(n, f)]
    BY <1>12 DEF RepairStrand
  <2>2. Fine(AfterStrand(n, f))
    BY DEF AfterStrand, Fine, Select, LoopAts
  <2> QED BY <1>0, <2>1, <2>2, LocalCalls DEF WaitAts
<1>13. ASSUME NEW n \in Node, NEW f \in File, TriggerCollabRepair(n, f)
       PROVE  CallsInv'
  <2>1. PICK origin \in Origins, limit \in PeerLimits :
          calls' = calls \cup {[kind |-> "collab", to |-> n, from |-> Nobody, file |-> f,
                                origin |-> origin, limit |-> limit]}
    BY <1>13 DEF TriggerCollabRepair
  <2> DEFINE c == [kind |-> "collab", to |-> n, from |-> Nobody, file |-> f,
                   origin |-> origin, limit |-> limit]
  <2>2. FromClient(c) /\ c.from = Nobody
    BY DEF FromClient, FaultFree
  <2>3. UNCHANGED <<daemon, collabData>>
    BY <1>13 DEF TriggerCollabRepair, ClientAsks
  <2> QED BY <2>1, <2>2, <2>3, ClientCalls
<1>14. ASSUME NEW n \in Node, NEW f \in File, TriggerStrandRepair(n, f)
       PROVE  CallsInv'
  <2> DEFINE c == [kind |-> "strand", to |-> n, from |-> Nobody, file |-> f]
  <2>1. calls' = calls \cup {c} /\ UNCHANGED <<daemon, collabData>>
    BY <1>14 DEF TriggerStrandRepair, ClientAsks
  <2>2. FromClient(c) /\ c.from = Nobody
    BY DEF FromClient
  <2> QED BY <2>1, <2>2, ClientCalls
<1>15. ASSUME \/ \E c \in calls : LoseRequest(c) \/ LoseAnswer(c)
              \/ \E n \in Node : RequestRefused(n) \/ Panic(n) \/ Crash(n) \/ Restart(n)
       PROVE  CallsInv'
  <2>1. ~(faults < MaxFaults)
    BY DEF FaultFree, TypeInv
  <2>2. \A n \in Node : Fine(daemon[n])
    BY DEF CallsInv
  <2> QED BY <1>15, <2>1, <2>2
          DEF LoseRequest, LoseAnswer, RequestRefused, Panic, Crash, Restart, Fine
<1>16. CASE UNCHANGED vars
  BY <1>16 DEF vars, CallsInv
<1>17. ASSUME NEW n \in Node, Daemon(n)
       PROVE  CallsInv'
  <2>1. CASE Runs(n)
    BY <2>1, <1>5, <1>6, <1>7, <1>8, <1>9, <1>10, <1>11, <1>15 DEF Runs
  <2>2. ASSUME NEW c \in calls, Receives(n, c)
        PROVE  CallsInv'
    BY <2>2, <1>1, <1>3, <1>4 DEF Receives
  <2> QED BY <1>17, <2>1, <2>2 DEF Daemon
<1>18. CASE Environment
  BY <1>18, <1>2, <1>12, <1>13, <1>14, <1>15 DEF Environment
<1> QED BY <1>16, <1>17, <1>18 DEF Next

LEMMA InitCalls == Init => CallsInv
BY DEF Init, CallsInv, Fine, LoopAts, Select, KnownOrigins, NoJob

-----------------------------------------------------------------------------
(* What the posts and the daemons hold of every repair *)

\* n has been told that p accepted its request and has not entered it yet.
Entering(n, f, p) ==
  LET d == daemon[n] IN d.at = "accepted" /\ d.file = f /\ d.peers[d.i] = p

\* The leaves p works on for n: those it was sent, and those it is entered with.
Share(n, f, p) ==
  IF Entering(n, f, p) THEN daemon[n].reqs[daemon[n].i] ELSE collabData[n][f].peers[p].alloc

Owes(n, f, p) == Repairing(n, f, p) # {} \/ Reports(n, f, p) # {}

\* The peers that owe n a report are those it waits for, and what they report on is
\* what n expects of them.
TaskInv(n, f, p) ==
  /\ Owes(n, f, p) <=> Entering(n, f, p) \/ collabData[n][f].peers[p].status = "PENDING"
  /\ \A d \in Repairing(n, f, p) : d.leaves = Share(n, f, p)
  /\ \A c \in Reports(n, f, p) :
       c.leaves = Share(n, f, p) /\ c.repaired \subseteq c.leaves /\ c.repaired \cap missing[f] = {}

\* The loop has handed the requests before i to the peers before i, and nobody else
\* has a part of the repair.
LoopInv(d, job) ==
  /\ SplitAmong(d, job.found)
  /\ \A k \in 1..(d.i - 1) :
       job.peers[d.peers[k]].status = "PENDING" /\ job.peers[d.peers[k]].alloc = d.reqs[k]
  /\ \A p \in Node : (\A k \in 1..(d.i - 1) : d.peers[k] # p) => job.peers[p] = NoPeer

Split(job) ==
  /\ \A p \in Node : job.peers[p].alloc \subseteq job.found
  /\ \A p, q \in Node : p # q => job.peers[p].alloc \cap job.peers[q].alloc = {}
  /\ \A p \in Node : job.peers[p].status = "NONE" => job.peers[p] = NoPeer

BroughtBack(job, lost) ==
  /\ job.status = "SUCCESS" => job.found \cap lost = {}
  /\ \A p \in Node : job.peers[p].status = "SUCCESS" => job.peers[p].alloc \cap lost = {}

Untouched(job) == job.found = {} /\ \A p \in Node : job.peers[p] = NoPeer

Covered(job) == \A x \in job.found : \E p \in Node : x \in job.peers[p].alloc

JobInv(n, f) ==
  LET d == daemon[n] job == collabData[n][f] IN
  /\ Split(job)
  /\ BroughtBack(job, missing[f])
  /\ d.at = "retrieve" /\ d.file = f => Untouched(job)
  /\ d.at \in LoopAts /\ d.file = f => LoopInv(d, job)
  /\ ~Starting(n, f) => Covered(job)

WorkInv ==
  \A n \in Node, f \in File :
    JobInv(n, f) /\ \A p \in Node : TaskInv(n, f, p)

\* What keeps them: less is missing, the job is as it was and its coordinator is where
\* it was in the loop, or neither before nor after inside StartCollabRepair for f.
SameLoop(d, e) ==
  /\ d.at \in LoopAts /\ e.at \in LoopAts
  /\ e.file = d.file /\ e.peers = d.peers /\ e.reqs = d.reqs /\ e.i = d.i

LEMMA JobKeeps ==
  ASSUME NEW n \in Node, NEW f \in File, JobInv(n, f),
         collabData'[n][f] = collabData[n][f], missing'[f] \subseteq missing[f],
         \/ daemon'[n] = daemon[n]
         \/ SameLoop(daemon[n], daemon'[n])
         \/ ~Starting(n, f) /\ ~Starting(n, f)'
  PROVE  JobInv(n, f)'
<1> DEFINE job == collabData[n][f]
           d == daemon[n]
           e == daemon'[n]
<1>1. Split(job) /\ BroughtBack(job, missing'[f])
  BY DEF JobInv, BroughtBack
<1>2. CASE e = d
  BY <1>1, <1>2 DEF JobInv, Starting
<1>3. CASE SameLoop(d, e)
  <2>1. d.file = f => LoopInv(d, job)
    BY <1>3 DEF JobInv, SameLoop
  <2>2. e.file = f => LoopInv(e, job)
    BY <1>3, <2>1 DEF SameLoop, LoopInv, SplitAmong
  <2>3. e.at # "retrieve" /\ (Starting(n, f)' <=> Starting(n, f))
    BY <1>3 DEF SameLoop, Starting, LoopAts
  <2> QED BY <1>1, <2>2, <2>3 DEF JobInv
<1>4. CASE ~Starting(n, f) /\ ~Starting(n, f)'
  BY <1>1, <1>4 DEF JobInv, Starting, LoopAts
<1> QED BY <1>2, <1>3, <1>4

LEMMA TaskKeeps ==
  ASSUME NEW n \in Node, NEW f \in File, NEW p \in Node, TaskInv(n, f, p),
         collabData'[n][f].peers[p] = collabData[n][f].peers[p],
         missing'[f] \subseteq missing[f],
         daemon'[n] = daemon[n] \/ (~Entering(n, f, p) /\ ~Entering(n, f, p)'),
         Repairing(n, f, p)' = Repairing(n, f, p), Reports(n, f, p)' = Reports(n, f, p)
  PROVE  TaskInv(n, f, p)'
<1>1. (Entering(n, f, p)' <=> Entering(n, f, p)) /\ Share(n, f, p)' = Share(n, f, p)
  BY DEF Entering, Share
<1>2. Owes(n, f, p)' <=> Owes(n, f, p)
  BY DEF Owes
<1> QED BY <1>1, <1>2 DEF TaskInv

\* The daemons that no repair is about.
Idle(d) == d.at \notin StartingAt \cup {"unit"}

LEMMA RepairingKeeps ==
  ASSUME NEW n \in Node, NEW f \in File, NEW p \in Node,
         daemon'[p] = daemon[p] \/ (daemon[p].at # "unit" /\ daemon'[p].at # "unit")
  PROVE  Repairing(n, f, p)' = Repairing(n, f, p)
BY DEF Repairing

LEMMA ReportsKeep ==
  ASSUME NEW n \in Node, NEW f \in File, NEW p \in Node,
         \A c : c.kind = "unitDone" => (c \in calls' <=> c \in calls)
  PROVE  Reports(n, f, p)' = Reports(n, f, p)
BY DEF Reports

\* A step that neither changes n's job for f nor what n does about it, nor the work on
\* its way.
Unaffected(n, f) ==
  /\ collabData'[n][f] = collabData[n][f]
  /\ missing'[f] \subseteq missing[f]
  /\ daemon'[n] = daemon[n] \/ (~Starting(n, f) /\ ~Starting(n, f)')
  /\ \A p \in Node : Repairing(n, f, p)' = Repairing(n, f, p)
  /\ \A p \in Node : Reports(n, f, p)' = Reports(n, f, p)

WorkFor(n, f) == JobInv(n, f) /\ \A p \in Node : TaskInv(n, f, p)

LEMMA UnaffectedKeeps ==
  ASSUME WorkInv, NEW n \in Node, NEW f \in File, Unaffected(n, f)
  PROVE  WorkFor(n, f)'
<1>1. JobInv(n, f)'
  BY JobKeeps DEF WorkInv, Unaffected
<1>2. ASSUME NEW p \in Node
      PROVE  TaskInv(n, f, p)'
  <2>1. daemon'[n] = daemon[n] \/ (~Entering(n, f, p) /\ ~Entering(n, f, p)')
    BY DEF Starting, Entering, Unaffected
  <2>2. TaskInv(n, f, p)
    BY DEF WorkInv
  <2>3. /\ collabData'[n][f].peers[p] = collabData[n][f].peers[p]
        /\ missing'[f] \subseteq missing[f]
        /\ Repairing(n, f, p)' = Repairing(n, f, p) /\ Reports(n, f, p)' = Reports(n, f, p)
    BY DEF Unaffected
  <2> QED BY <2>1, <2>2, <2>3, TaskKeeps
<1> QED BY <1>1, <1>2 DEF WorkFor

LEMMA QuietWork ==
  ASSUME WorkInv, UNCHANGED <<collabData, missing>>,
         \A m \in Node : daemon'[m] = daemon[m] \/ (Idle(daemon[m]) /\ Idle(daemon'[m])),
         \A c : c.kind = "unitDone" => (c \in calls' <=> c \in calls)
  PROVE  WorkInv'
<1> SUFFICES ASSUME NEW n \in Node, NEW f \in File
             PROVE  WorkFor(n, f)'
  BY DEF WorkInv, WorkFor
<1>1. daemon'[n] = daemon[n] \/ (~Starting(n, f) /\ ~Starting(n, f)')
  BY DEF Idle, Starting, StartingAt
<1>2. ASSUME NEW p \in Node
      PROVE  Repairing(n, f, p)' = Repairing(n, f, p) /\ Reports(n, f, p)' = Reports(n, f, p)
  <2>1. daemon'[p] = daemon[p] \/ (daemon[p].at # "unit" /\ daemon'[p].at # "unit")
    BY DEF Idle
  <2> QED BY <2>1, RepairingKeeps, ReportsKeep
<1> QED BY <1>1, <1>2, UnaffectedKeeps DEF Unaffected

\* Only a request that is accepted moves a daemon that a repair is about, besides the
\* one that takes the operation.
LEMMA TakeIdle ==
  ASSUME TypeInv, CallsInv, NEW n \in Node, NEW c \in calls, NEW kind, NEW next, NEW posted,
         Take(n, c, kind, next, posted), c.kind # "unit"
  PROVE  /\ daemon[n].at = "select" /\ daemon'[n] = next
         /\ \A m \in Node \ {n} :
              daemon'[m] = daemon[m] \/ (Idle(daemon[m]) /\ Idle(daemon'[m]))
<1>1. /\ daemon[n].at = "select" /\ daemon'[n] = next
      /\ \A m \in Node \ {n} :
           daemon'[m] = IF m = c.from THEN Answered(daemon[m], TRUE) ELSE daemon[m]
  BY DEF Take, Answer, TypeInv
<1>2. SUFFICES ASSUME c.from \in Node
               PROVE  Idle(daemon[c.from]) /\ Idle(Answered(daemon[c.from], TRUE))
  BY <1>1
<1> DEFINE d == daemon[c.from]
<1>3. d.at \in {"reporting", "resetting"} /\ d \in Sound
  BY <1>2, ConstantsAssumption DEF CallsInv, Expected, Waits, TypeInv
<1>4. CASE d.at = "reporting"
  BY <1>4 DEF Idle, Answered, Select, StartingAt
<1>5. CASE d.at = "resetting"
  <2>1. d \in [at : {"reset", "resetting"}, file : File, todo : SUBSET Node]
    BY <1>3, <1>5 DEF Sound, Activity, SendLoop
  <2>2. Answered(d, TRUE).at = "reset"
    BY <1>5, <2>1 DEF Answered
  <2> QED BY <1>5, <2>2 DEF Idle, StartingAt
<1> QED BY <1>3, <1>4, <1>5

\* An operation that is none of the repair's goes through the select.
LEMMA QuietTakeWork ==
  ASSUME TypeInv, CallsInv, WorkInv, NEW n \in Node, NEW c \in calls, NEW kind, NEW next,
         Take(n, c, kind, next, {}), UNCHANGED <<collabData, missing>>,
         c.kind \notin {"unit", "unitDone"}, Idle(next)
  PROVE  WorkInv'
<1>1. /\ daemon[n].at = "select" /\ daemon'[n] = next
      /\ \A m \in Node \ {n} :
           daemon'[m] = daemon[m] \/ (Idle(daemon[m]) /\ Idle(daemon'[m]))
  BY TakeIdle
<1>2. Idle(daemon[n])
  BY <1>1 DEF Idle, StartingAt
<1>3. \A e : e.kind = "unitDone" => (e \in calls' <=> e \in calls)
  BY DEF Take
<1> QED BY <1>1, <1>2, <1>3, QuietWork

\* A step of n that changes its job for f and its daemon: every other job is as it was.
LEMMA OneJobWork ==
  ASSUME TypeInv, CallsInv, WorkInv, NEW n \in Node, NEW f \in File, NEW job,
         SetJob(n, f, job), UNCHANGED missing,
         \A m \in Node \ {n} : daemon'[m] = daemon[m] \/ (Idle(daemon[m]) /\ Idle(daemon'[m])),
         \A g \in File \ {f} : ~Starting(n, g) /\ ~Starting(n, g)',
         daemon[n].at # "unit" /\ daemon'[n].at # "unit",
         \A c : c.kind = "unitDone" /\ ~(c.to = n /\ c.file = f) =>
                  (c \in calls' <=> c \in calls),
         WorkFor(n, f)'
  PROVE  WorkInv'
<1> SUFFICES ASSUME NEW m \in Node, NEW g \in File, ~(m = n /\ g = f)
             PROVE  WorkFor(m, g)'
  BY DEF WorkInv, WorkFor
<1>1. collabData'[m][g] = collabData[m][g]
  BY SetJobEffect
<1>2. daemon'[m] = daemon[m] \/ (~Starting(m, g) /\ ~Starting(m, g)')
  BY DEF Idle, Starting, StartingAt
<1>3. \A p \in Node : Repairing(m, g, p)' = Repairing(m, g, p)
  <2> SUFFICES ASSUME NEW p \in Node
               PROVE  Repairing(m, g, p)' = Repairing(m, g, p)
    OBVIOUS
  <2>1. daemon'[p] = daemon[p] \/ (daemon[p].at # "unit" /\ daemon'[p].at # "unit")
    BY DEF Idle
  <2> QED BY <2>1, RepairingKeeps
<1>4. \A p \in Node : Reports(m, g, p)' = Reports(m, g, p)
  BY DEF Reports
<1> QED BY <1>1, <1>2, <1>3, <1>4, UnaffectedKeeps DEF Unaffected

\* Nobody works for a job that no peer is pending in and that takes no peer in.
LEMMA NoTasks ==
  ASSUME WorkInv, NEW n \in Node, NEW f \in File,
         \A p \in Node : collabData[n][f].peers[p].status # "PENDING",
         daemon[n].at # "accepted"
  PROVE  \A p \in Node : Repairing(n, f, p) = {} /\ Reports(n, f, p) = {}
BY DEF WorkInv, TaskInv, Owes, Entering

LEMMA NoTasksThen ==
  ASSUME NEW n \in Node, NEW f \in File, NEW p \in Node,
         Repairing(n, f, p)' = {}, Reports(n, f, p)' = {}, daemon'[n].at # "accepted",
         collabData'[n][f].peers[p].status # "PENDING"
  PROVE  TaskInv(n, f, p)'
BY DEF TaskInv, Owes, Entering

\* A job that no peer has a part in, at the start of a repair.
LEMMA FreshJob ==
  ASSUME NEW job, NEW lost, Untouched(job)
  PROVE  Split(job) /\ BroughtBack(job, lost) /\ Covered(job)
BY DEF Untouched, Split, BroughtBack, Covered, NoPeer

LEMMA BeginWork ==
  ASSUME TypeInv, AwaitInv, CallsInv, WorkInv, NEW n \in Node, NEW f \in File, NEW origin,
         NEW limit,
         BeginJob(n, f, origin), daemon[n].at = "select", daemon'[n] = AfterBegin(n, f, limit),
         UNCHANGED missing,
         \A m \in Node \ {n} : daemon'[m] = daemon[m] \/ (Idle(daemon[m]) /\ Idle(daemon'[m])),
         \A c : c.kind = "unitDone" => (c \in calls' <=> c \in calls)
  PROVE  WorkInv'
<1>1. CASE collabData[n][f].status = "PENDING"
  <2>1. daemon'[n] = Select /\ UNCHANGED collabData
    BY <1>1 DEF AfterBegin, BeginJob
  <2>2. Idle(daemon[n]) /\ Idle(daemon'[n])
    BY <2>1 DEF Idle, Select, StartingAt
  <2> QED BY <2>1, <2>2, QuietWork
<1>2. CASE collabData[n][f].status # "PENDING"
  <2> DEFINE job == [NoJob EXCEPT !.status = "PENDING", !.origin = origin]
  <2>1. SetJob(n, f, job) /\ daemon'[n] = [at |-> "retrieve", file |-> f, limit |-> limit]
    BY <1>2 DEF BeginJob, AfterBegin
  <2>2. Untouched(job)
    BY DEF NoJob, Untouched
  <2> HIDE DEF job
  <2>3. \A p \in Node : collabData[n][f].peers[p].status # "PENDING"
    BY <1>2 DEF AwaitInv, Awaited, IsStarting, StartingAt, SomePeerPending
  <2>4. collabData'[n][f] = job
    BY <2>1, SetJobEffect
  <2>5. JobInv(n, f)'
    BY <2>1, <2>2, <2>4, FreshJob DEF JobInv, LoopAts
  <2>6. ASSUME NEW p \in Node
        PROVE  TaskInv(n, f, p)'
    <3>1. Repairing(n, f, p) = {} /\ Reports(n, f, p) = {}
      BY <2>3, NoTasks
    <3>2. daemon'[p] = daemon[p] \/ (daemon[p].at # "unit" /\ daemon'[p].at # "unit")
      BY <2>1 DEF Idle
    <3>3. Repairing(n, f, p)' = {} /\ Reports(n, f, p)' = {}
      BY <3>1, <3>2, RepairingKeeps, ReportsKeep
    <3>4. collabData'[n][f].peers[p].status # "PENDING"
      BY <2>2, <2>4 DEF Untouched, NoPeer
    <3> QED BY <2>1, <3>3, <3>4, NoTasksThen
  <2>7. \A g \in File \ {f} : ~Starting(n, g) /\ ~Starting(n, g)'
    BY <2>1 DEF Starting
  <2>8. WorkFor(n, f)'
    BY <2>5, <2>6 DEF WorkFor
  <2> QED BY <2>1, <2>7, <2>8, OneJobWork
<1> QED BY <1>1, <1>2

LEMMA RetrieveEndsWork ==
  ASSUME TypeInv, AwaitInv, CallsInv, WorkInv, NEW n \in Node,
         RetrieveFails(n) \/ NothingToRepair(n)
  PROVE  WorkInv'
<1>0. PICK f \in File : f = daemon[n].file
  BY RetrieveAt DEF RetrieveFails, NothingToRepair
<1> DEFINE job == collabData[n][f]
<1>1. /\ daemon[n].at = "retrieve" /\ UNCHANGED <<calls, missing>>
      /\ daemon' = [daemon EXCEPT ![n] = Select]
  BY DEF RetrieveFails, NothingToRepair
<1>2. PICK st : SetJob(n, f, [job EXCEPT !.status = st])
  BY <1>0 DEF RetrieveFails, NothingToRepair
<1>3. job \in Job
  BY DEF TypeInv
<1> DEFINE new == [job EXCEPT !.status = st]
<1>4. new.found = job.found /\ new.peers = job.peers
  BY <1>3 DEF Job
<1>5. Untouched(job)
  BY <1>0, <1>1 DEF WorkInv, JobInv
<1>6. Untouched(new)
  BY <1>4, <1>5 DEF Untouched
<1>7. SetJob(n, f, new)
  BY <1>2
<1> HIDE DEF new, job
<1>8. collabData'[n][f] = new
  BY <1>7, SetJobEffect
<1>9. /\ daemon'[n] = Select
      /\ \A m \in Node \ {n} : daemon'[m] = daemon[m]
  BY <1>1 DEF TypeInv
<1>10. JobInv(n, f)'
  BY <1>6, <1>8, <1>9, FreshJob DEF JobInv, LoopAts, Select
<1>11. ASSUME NEW p \in Node
       PROVE  TaskInv(n, f, p)'
  <2>1. \A q \in Node : collabData[n][f].peers[q].status # "PENDING"
    BY <1>5 DEF Untouched, NoPeer, job
  <2>2. Repairing(n, f, p) = {} /\ Reports(n, f, p) = {}
    BY <1>1, <2>1, NoTasks
  <2>3. daemon'[p] = daemon[p] \/ (daemon[p].at # "unit" /\ daemon'[p].at # "unit")
    BY <1>1, <1>9 DEF Select
  <2>4. Repairing(n, f, p)' = {} /\ Reports(n, f, p)' = {}
    BY <1>1, <2>2, <2>3, RepairingKeeps, ReportsKeep
  <2>5. collabData'[n][f].peers[p].status # "PENDING"
    BY <1>6, <1>8 DEF Untouched, NoPeer
  <2> QED BY <1>9, <2>4, <2>5, NoTasksThen DEF Select
<1>12. \A g \in File \ {f} : ~Starting(n, g) /\ ~Starting(n, g)'
  BY <1>0, <1>1, <1>9 DEF Starting, Select
<1>13. WorkFor(n, f)'
  BY <1>10, <1>11 DEF WorkFor
<1> QED BY <1>1, <1>7, <1>9, <1>12, <1>13, OneJobWork DEF Select

LEMMA PlanWork ==
  ASSUME TypeInv, AwaitInv, FaultFree, CallsInv, WorkInv, NEW n \in Node, PlanRequests(n)
  PROVE  WorkInv'
<1>0. PICK f \in File : f = daemon[n].file
  BY PlanIs
<1> DEFINE job == collabData[n][f]
<1>1. /\ daemon[n].at = "retrieve" /\ daemon[n].limit \in Nat \ {0}
      /\ UNCHANGED <<calls, missing>>
  BY PlanIs
<1>2. PICK found \in (SUBSET Leaf) \ {{}} :
        \E loop : /\ SetJob(n, f, [job EXCEPT !.found = found])
                  /\ daemon' = [daemon EXCEPT ![n] = loop]
                  /\ Planned(n, f, daemon[n].limit, found, loop)
  BY <1>0, PlanIs
<1>3. PICK loop : /\ SetJob(n, f, [job EXCEPT !.found = found])
                  /\ daemon' = [daemon EXCEPT ![n] = loop]
                  /\ Planned(n, f, daemon[n].limit, found, loop)
  BY <1>2
<1>4. /\ loop.at = "send" /\ loop.file = f /\ loop.i = 1
      /\ SplitAmong(loop, found)
  BY <1>1, <1>3, PlannedLoop
<1> DEFINE new == [job EXCEPT !.found = found]
<1>5. job \in Job /\ Untouched(job)
  BY <1>0, <1>1 DEF TypeInv, WorkInv, JobInv
<1>6. new.found = found /\ new.peers = job.peers /\ new.status = job.status
  BY <1>5 DEF Job
<1>7. SetJob(n, f, new)
  BY <1>3
<1>8. job.status = "PENDING"
  BY <1>0, <1>1, StartingJob DEF StartingAt
<1> HIDE DEF new, job
<1>9. collabData'[n][f] = new
  BY <1>1, <1>7, SetJobEffect
<1>10. daemon'[n] = loop /\ \A m \in Node \ {n} : daemon'[m] = daemon[m]
  BY <1>3 DEF TypeInv
<1>11. JobInv(n, f)'
  <2>1. \A p \in Node : new.peers[p] = NoPeer
    BY <1>5, <1>6 DEF Untouched
  <2>2. Split(new) /\ BroughtBack(new, missing'[f])
    BY <1>6, <1>8, <2>1 DEF Split, BroughtBack, NoPeer
  <2>3. LoopInv(loop, new)
    BY <1>4, <1>6, <2>1 DEF LoopInv
  <2>4. Starting(n, f)' /\ loop.at # "retrieve"
    BY <1>4, <1>10 DEF Starting
  <2> QED BY <1>9, <1>10, <2>2, <2>3, <2>4 DEF JobInv
<1>12. ASSUME NEW p \in Node
       PROVE  TaskInv(n, f, p)'
  <2>1. \A q \in Node : collabData[n][f].peers[q].status # "PENDING"
    BY <1>5 DEF Untouched, NoPeer, job
  <2>2. Repairing(n, f, p) = {} /\ Reports(n, f, p) = {}
    BY <1>1, <2>1, NoTasks
  <2>3. daemon'[p] = daemon[p] \/ (daemon[p].at # "unit" /\ daemon'[p].at # "unit")
    BY <1>1, <1>4, <1>10
  <2>4. Repairing(n, f, p)' = {} /\ Reports(n, f, p)' = {}
    BY <1>1, <2>2, <2>3, RepairingKeeps, ReportsKeep
  <2>5. collabData'[n][f].peers[p].status # "PENDING"
    BY <1>5, <1>6, <1>9 DEF Untouched, NoPeer
  <2> QED BY <1>1, <1>4, <1>10, <2>4, <2>5, NoTasksThen
<1>13. \A g \in File \ {f} : ~Starting(n, g) /\ ~Starting(n, g)'
  BY <1>0, <1>1, <1>4, <1>10 DEF Starting
<1>14. WorkFor(n, f)'
  BY <1>11, <1>12 DEF WorkFor
<1> QED BY <1>1, <1>4, <1>7, <1>10, <1>13, <1>14, OneJobWork

LEMMA SendWork ==
  ASSUME TypeInv, CallsInv, WorkInv, NEW n \in Node, SendRequest(n)
  PROVE  WorkInv'
<1> DEFINE d == daemon[n]
           waiting == [d EXCEPT !.at = "sending"]
           c == [kind |-> "unit", to |-> d.peers[d.i], from |-> n, file |-> d.file,
                 origin |-> n, leaves |-> d.reqs[d.i]]
<1>1. /\ d.at = "send" /\ UNCHANGED <<collabData, missing>>
  BY DEF SendRequest, jobVars
<1>2. d \in SendLoop("send") /\ InRange(d) /\ d.i <= Len(d.reqs)
  BY <1>1, LoopAt DEF CallsInv, Fine, LoopAts
<1>3. Post(n, c, waiting) /\ c.to \in Node
  BY <1>1, <1>2 DEF SendRequest, SendLoop, InRange
<1>4. calls' = calls \cup {c} /\ daemon' = [daemon EXCEPT ![n] = waiting]
  BY <1>3 DEF Post, CallsInv, Fine
<1>5. /\ waiting.at = "sending" /\ waiting.file = d.file /\ waiting.peers = d.peers
      /\ waiting.reqs = d.reqs /\ waiting.i = d.i
  BY <1>2 DEF SendLoop
<1>6. \A e : e.kind = "unitDone" => (e \in calls' <=> e \in calls)
  BY <1>4
<1> HIDE DEF waiting, c
<1>7. daemon'[n] = waiting /\ \A m \in Node \ {n} : daemon'[m] = daemon[m]
  BY <1>4 DEF TypeInv
<1> SUFFICES ASSUME NEW m \in Node, NEW f \in File
             PROVE  WorkFor(m, f)'
  BY DEF WorkInv, WorkFor
<1>8. daemon'[m] = daemon[m] \/ SameLoop(daemon[m], daemon'[m])
  BY <1>1, <1>5, <1>7 DEF SameLoop, LoopAts
<1>9. JobInv(m, f)'
  BY <1>1, <1>8, JobKeeps DEF WorkInv
<1>10. ASSUME NEW p \in Node
       PROVE  TaskInv(m, f, p)'
  <2>1. daemon'[m] = daemon[m] \/ (~Entering(m, f, p) /\ ~Entering(m, f, p)')
    BY <1>1, <1>5, <1>7 DEF Entering
  <2>2. daemon'[p] = daemon[p] \/ (daemon[p].at # "unit" /\ daemon'[p].at # "unit")
    BY <1>1, <1>5, <1>7
  <2>3. Repairing(m, f, p)' = Repairing(m, f, p) /\ Reports(m, f, p)' = Reports(m, f, p)
    BY <1>6, <2>2, RepairingKeeps, ReportsKeep
  <2>4. TaskInv(m, f, p)
    BY DEF WorkInv
  <2> QED BY <1>1, <2>1, <2>3, <2>4, TaskKeeps
<1> QED BY <1>9, <1>10 DEF WorkFor

\* The daemon of n takes the request m posted: m is about to enter n's part.
LEMMA UnitWork ==
  ASSUME TypeInv, CallsInv, WorkInv, NEW n \in Node, NEW c \in calls, StartUnitRepair(n, c)
  PROVE  WorkInv'
<1> DEFINE next == [at |-> "unit", file |-> c.file, origin |-> c.origin, leaves |-> c.leaves]
<1>1. Take(n, c, "unit", next, {}) /\ UNCHANGED <<collabData, missing>>
  BY DEF StartUnitRepair, jobVars
<1>2. c \in UnitOp /\ c.kind = "unit" /\ c.to = n /\ c.from \in Caller
  BY <1>1, CallKinds DEF Take, TypeInv
<1>3. PICK m \in Node : m = c.from
  <2>1. c.from # Nobody
    BY <1>2 DEF CallsInv, Expected, FromClient
  <2> QED BY <1>2, <2>1 DEF Caller
<1> DEFINE d == daemon[m]
           on == [d EXCEPT !.at = "accepted"]
<1>4. /\ d.at = "sending" /\ d.file = c.file /\ c.origin = m /\ n = d.peers[d.i]
      /\ c.leaves = d.reqs[d.i]
  BY <1>2, <1>3, ConstantsAssumption DEF CallsInv, Expected, Waits
<1>5. /\ daemon[n].at = "select" /\ daemon'[n] = next /\ m # n
      /\ daemon'[m] = Answered(d, TRUE)
      /\ \A k \in Node \ {n, m} : daemon'[k] = daemon[k]
  BY <1>1, <1>3, <1>4 DEF Take, Answer, TypeInv
<1>6. d \in SendLoop("sending") /\ InRange(d)
  BY <1>4, LoopAt
<1>7. Answered(d, TRUE) = on
  BY <1>4 DEF Answered
<1>8. /\ on.at = "accepted" /\ on.file = d.file /\ on.peers = d.peers
      /\ on.reqs = d.reqs /\ on.i = d.i
  BY <1>6 DEF SendLoop
<1> HIDE DEF on
<1>9. daemon'[m] = on
  BY <1>5, <1>7
<1>10. \A e : e.kind = "unitDone" => (e \in calls' <=> e \in calls)
  BY <1>1, <1>2 DEF Take
<1>11. ASSUME NEW k \in Node, NEW g \in File
       PROVE  JobInv(k, g)'
  <2>1. \/ daemon'[k] = daemon[k] \/ SameLoop(daemon[k], daemon'[k])
        \/ ~Starting(k, g) /\ ~Starting(k, g)'
    BY <1>4, <1>5, <1>8, <1>9 DEF SameLoop, LoopAts, Starting
  <2> QED BY <1>1, <2>1, JobKeeps DEF WorkInv
<1>12. PICK f \in File : f = d.file
  BY <1>6 DEF SendLoop
<1>13. ASSUME NEW k \in Node, NEW g \in File, NEW p \in Node, ~(k = m /\ g = f /\ p = n)
       PROVE  TaskInv(k, g, p)'
  <2>1. daemon'[k] = daemon[k] \/ (~Entering(k, g, p) /\ ~Entering(k, g, p)')
    BY <1>4, <1>5, <1>8, <1>9, <1>12, <1>13 DEF Entering
  <2>2. Repairing(k, g, p)' = Repairing(k, g, p)
    <3>1. CASE p = n
      <4>1. Repairing(k, g, p) = {}
        BY <1>5, <3>1 DEF Repairing
      <4>2. daemon'[p].at = "unit" /\ daemon'[p].origin = m /\ daemon'[p].file = f
        BY <1>4, <1>5, <1>12, <3>1
      <4>3. Repairing(k, g, p)' = {}
        BY <1>13, <3>1, <4>2 DEF Repairing
      <4> QED BY <4>1, <4>3
    <3>2. CASE p # n
      <4>1. daemon'[p] = daemon[p] \/ (daemon[p].at # "unit" /\ daemon'[p].at # "unit")
        BY <1>4, <1>5, <1>8, <1>9, <3>2
      <4> QED BY <4>1, RepairingKeeps
    <3> QED BY <3>1, <3>2
  <2>3. Reports(k, g, p)' = Reports(k, g, p)
    BY <1>10, ReportsKeep
  <2>4. TaskInv(k, g, p)
    BY DEF WorkInv
  <2> QED BY <1>1, <2>1, <2>2, <2>3, <2>4, TaskKeeps
<1>14. TaskInv(m, f, n)'
  <2>1. collabData[m][f].peers[n] = NoPeer
    <3>1. LoopInv(d, collabData[m][f])
      BY <1>4, <1>12 DEF WorkInv, JobInv, LoopAts
    <3>2. d.i \in Nat /\ d.i <= Len(d.peers) /\ Len(d.peers) \in Nat /\ d.i # 0
      BY <1>4, <1>6 DEF SendLoop, InRange
    <3>3. \A k \in 1..(d.i - 1) : d.peers[k] # n
      BY <1>4, <3>1, <3>2 DEF LoopInv, SplitAmong
    <3> QED BY <3>1, <3>3 DEF LoopInv
  <2>2. Repairing(m, f, n) = {} /\ Reports(m, f, n) = {}
    BY <1>4, <2>1 DEF WorkInv, TaskInv, Owes, Entering, NoPeer
  <2>3. Reports(m, f, n)' = {}
    BY <1>10, <2>2, ReportsKeep
  <2>4. Repairing(m, f, n)' = {next}
    BY <1>4, <1>5, <1>12 DEF Repairing
  <2>5. Entering(m, f, n)'
    BY <1>4, <1>8, <1>9, <1>12 DEF Entering
  <2>6. Share(m, f, n)' = d.reqs[d.i]
    BY <1>8, <1>9, <2>5 DEF Share
  <2> QED BY <1>4, <2>3, <2>4, <2>5, <2>6 DEF TaskInv, Owes
<1> QED BY <1>11, <1>13, <1>14 DEF WorkInv

\* n enters the part of the peer that accepted it, and goes on or has sent all parts.
LEMMA AcceptedWork ==
  ASSUME TypeInv, AwaitInv, CallsInv, WorkInv, NEW n \in Node, RequestAccepted(n)
  PROVE  WorkInv'
<1>0. PICK f \in File : f = daemon[n].file
  BY LoopAt DEF RequestAccepted, SendLoop
<1> DEFINE d == daemon[n]
<1>1. d.at = "accepted" /\ d \in SendLoop("accepted") /\ InRange(d)
  BY LoopAt DEF RequestAccepted
<1>2. /\ d.i \in Nat \ {0} /\ d.i <= Len(d.reqs) /\ d.i = d.sent + 1 /\ d.sent \in Nat
      /\ Len(d.reqs) <= Len(d.peers) /\ Len(d.reqs) \in Nat /\ Len(d.peers) \in Nat
  BY <1>1 DEF SendLoop, InRange, CallsInv, Fine, LoopAts
<1>3. PICK q \in Node : q = d.peers[d.i]
  BY <1>1, <1>2 DEF SendLoop
<1>4. PICK share : share = d.reqs[d.i]
  OBVIOUS
<1> DEFINE job == collabData[n][f]
           info == Allocate(job.peers[q], share)
           new == [job EXCEPT !.peers[q] = info]
           on == [d EXCEPT !.at = "send", !.i = NextPeer(d), !.sent = @ + 1]
           next == IF d.sent + 1 < Len(d.reqs) THEN on ELSE Select
<1>5. /\ SetJob(n, f, new) /\ UNCHANGED <<calls, missing>>
      /\ daemon' = [daemon EXCEPT ![n] = next]
  BY <1>0, <1>3, <1>4 DEF RequestAccepted
<1>6. LoopInv(d, job) /\ job \in Job /\ job.status = "PENDING"
  BY <1>0, <1>1, StartingJob DEF WorkInv, JobInv, LoopAts, StartingAt
<1>7. job.peers[q] = NoPeer
  <2>1. \A j, k \in 1..Len(d.peers) : d.peers[j] = d.peers[k] => j = k
    <3>1. SplitAmong(d, job.found)
      BY <1>6 DEF LoopInv
    <3> HIDE DEF job, d
    <3> QED BY <3>1 DEF SplitAmong
  <2>2. \A k \in 1..(d.i - 1) : k \in 1..Len(d.peers) /\ k # d.i /\ d.i \in 1..Len(d.peers)
    <3> DEFINE i == d.i
               len == Len(d.peers)
    <3>1. i \in Nat \ {0} /\ len \in Nat /\ i <= len
      BY <1>2
    <3> HIDE DEF i, len
    <3>2. \A k \in 1..(i - 1) : k \in 1..len /\ k # i /\ i \in 1..len
      BY <3>1
    <3> QED BY <3>2 DEF i, len
  <2>3. \A k \in 1..(d.i - 1) : d.peers[k] # q
    BY <1>3, <2>1, <2>2
  <2> QED BY <1>6, <2>3 DEF LoopInv
<1>8. info = [status |-> "PENDING", alloc |-> share, repaired |-> {}]
  BY <1>7 DEF Allocate, NoPeer
<1>9. /\ new.found = job.found /\ new.status = job.status
      /\ new.peers[q] = info /\ \A p \in Node \ {q} : new.peers[p] = job.peers[p]
  BY <1>6 DEF Job
<1>10. d.sent + 1 < Len(d.reqs) =>
         /\ on.at = "send" /\ on.file = f /\ on.i = d.i + 1 /\ on.peers = d.peers
         /\ on.reqs = d.reqs
  <2>1. /\ on.at = "send" /\ on.file = f /\ on.i = NextPeer(d) /\ on.peers = d.peers
        /\ on.reqs = d.reqs
    BY <1>0, <1>1 DEF SendLoop
  <2>2. d.sent + 1 < Len(d.reqs) => NextPeer(d) = d.i + 1
    BY <1>2 DEF NextPeer
  <2> QED BY <2>1, <2>2
<1> HIDE DEF new, info, on
<1>11. /\ daemon'[n] = next /\ \A m \in Node \ {n} : daemon'[m] = daemon[m]
       /\ collabData'[n][f] = new
  BY <1>5, SetJobEffect DEF TypeInv
<1>12. \A k \in 1..d.i :
         new.peers[d.peers[k]].status = "PENDING" /\ new.peers[d.peers[k]].alloc = d.reqs[k]
  <2> SUFFICES ASSUME NEW k \in 1..d.i
               PROVE  /\ new.peers[d.peers[k]].status = "PENDING"
                      /\ new.peers[d.peers[k]].alloc = d.reqs[k]
    OBVIOUS
  <2>1. CASE k = d.i
    BY <1>3, <1>4, <1>8, <1>9, <2>1
  <2>2. CASE k # d.i
    <3>1. k \in 1..(d.i - 1) /\ k \in 1..Len(d.peers) /\ d.i \in 1..Len(d.peers)
      BY <1>2, <2>2, SMTT(30)
    <3>2. d.peers[k] \in Node
      BY <1>1, <3>1 DEF SendLoop
    <3>3. \A j, l \in 1..Len(d.peers) : d.peers[j] = d.peers[l] => j = l
      BY <1>6 DEF LoopInv, SplitAmong
    <3>4. d.peers[k] # q
      <4> DEFINE i == d.i
                 ps == d.peers
      <4>1. /\ k \in 1..Len(ps) /\ i \in 1..Len(ps) /\ k # i /\ q = ps[i]
            /\ \A j, l \in 1..Len(ps) : ps[j] = ps[l] => j = l
        BY <1>3, <2>2, <3>1, <3>3
      <4> HIDE DEF i, ps
      <4>2. ps[k] # q
        BY <4>1
      <4> QED BY <4>2 DEF ps
    <3>5. new.peers[d.peers[k]] = job.peers[d.peers[k]]
      BY <1>9, <3>2, <3>4
    <3> QED BY <1>6, <3>1, <3>5 DEF LoopInv
  <2> QED BY <2>1, <2>2
<1>13. \A p \in Node : (\A k \in 1..d.i : d.peers[k] # p) => new.peers[p] = NoPeer
  <2> SUFFICES ASSUME NEW p \in Node, \A k \in 1..d.i : d.peers[k] # p
               PROVE  new.peers[p] = NoPeer
    OBVIOUS
  <2>1. p # q /\ \A k \in 1..(d.i - 1) : d.peers[k] # p
    BY <1>2, <1>3
  <2> QED BY <1>6, <1>9, <2>1 DEF LoopInv
<1>14. SplitAmong(d, new.found)
  BY <1>6, <1>9 DEF LoopInv
<1>15. Split(new)
  <2>1. \A p \in Node : new.peers[p] = NoPeer \/ \E k \in 1..d.i : d.peers[k] = p
    BY <1>13
  <2>2. \A p \in Node : new.peers[p] = NoPeer
          \/ \E k \in 1..Len(d.reqs) : d.peers[k] = p /\ new.peers[p].alloc = d.reqs[k]
                                       /\ new.peers[p].status = "PENDING"
    <3> SUFFICES ASSUME NEW p \in Node, NEW k \in 1..d.i, d.peers[k] = p
                 PROVE  /\ k \in 1..Len(d.reqs)
                        /\ new.peers[p].alloc = d.reqs[k] /\ new.peers[p].status = "PENDING"
      BY <2>1
    <3>1. k \in 1..Len(d.reqs)
      BY <1>2
    <3> QED BY <1>12, <3>1
  <2>3. \A p \in Node : new.peers[p].alloc \subseteq new.found
    BY <1>14, <2>2 DEF SplitAmong, NoPeer
  <2>4. \A p, r \in Node : p # r => new.peers[p].alloc \cap new.peers[r].alloc = {}
    <3> SUFFICES ASSUME NEW p \in Node, NEW r \in Node, p # r
                 PROVE  new.peers[p].alloc \cap new.peers[r].alloc = {}
      OBVIOUS
    <3>1. CASE new.peers[p] = NoPeer \/ new.peers[r] = NoPeer
      BY <3>1 DEF NoPeer
    <3>2. CASE ~(new.peers[p] = NoPeer \/ new.peers[r] = NoPeer)
      <4>1. PICK j \in 1..Len(d.reqs) : d.peers[j] = p /\ new.peers[p].alloc = d.reqs[j]
        BY <2>2, <3>2
      <4>2. PICK k \in 1..Len(d.reqs) : d.peers[k] = r /\ new.peers[r].alloc = d.reqs[k]
        BY <2>2, <3>2
      <4> QED BY <1>14, <4>1, <4>2 DEF SplitAmong
    <3> QED BY <3>1, <3>2
  <2>5. \A p \in Node : new.peers[p].status = "NONE" => new.peers[p] = NoPeer
    BY <2>2
  <2> QED BY <2>3, <2>4, <2>5 DEF Split
<1>16. BroughtBack(new, missing'[f])
  <2>1. \A p \in Node : new.peers[p].status # "SUCCESS"
    BY <1>12, <1>13 DEF NoPeer
  <2> QED BY <1>6, <1>9, <2>1 DEF BroughtBack
<1>17. JobInv(n, f)'
  <2>1. CASE d.sent + 1 < Len(d.reqs)
    <3>1. LoopInv(on, new)
      <4>1. on.i - 1 = d.i
        BY <1>2, <1>10, <2>1
      <4>2. SplitAmong(on, new.found)
        BY <1>10, <1>14, <2>1 DEF SplitAmong
      <4> QED BY <1>10, <1>12, <1>13, <2>1, <4>1, <4>2 DEF LoopInv
    <3>2. Starting(n, f)' /\ daemon'[n] = on /\ on.at # "retrieve"
      BY <1>10, <1>11, <2>1 DEF Starting
    <3> QED BY <1>11, <1>15, <1>16, <3>1, <3>2 DEF JobInv
  <2>2. CASE ~(d.sent + 1 < Len(d.reqs))
    <3>1. d.i = Len(d.reqs)
      BY <1>2, <2>2
    <3>2. Covered(new)
      <4> SUFFICES ASSUME NEW x \in new.found
                   PROVE  \E p \in Node : x \in new.peers[p].alloc
        BY DEF Covered
      <4>1. PICK k \in 1..Len(d.reqs) : x \in d.reqs[k]
        BY <1>14 DEF SplitAmong
      <4>2. d.peers[k] \in Node
        BY <1>1, <1>2, <4>1 DEF SendLoop
      <4> QED BY <1>12, <3>1, <4>1, <4>2
    <3>3. daemon'[n] = Select
      BY <1>11, <2>2
    <3> QED BY <1>11, <1>15, <1>16, <3>2, <3>3 DEF JobInv, Select, LoopAts
  <2> QED BY <2>1, <2>2
<1>18. next.at \in {"send", "select"}
  BY <1>10 DEF Select
<1>19. ASSUME NEW p \in Node
       PROVE  TaskInv(n, f, p)'
  <2>1. daemon'[p] = daemon[p] \/ (daemon[p].at # "unit" /\ daemon'[p].at # "unit")
    BY <1>1, <1>11, <1>18
  <2>2. Repairing(n, f, p)' = Repairing(n, f, p) /\ Reports(n, f, p)' = Reports(n, f, p)
    BY <1>5, <2>1, RepairingKeeps, ReportsKeep
  <2>3. TaskInv(n, f, p)
    BY DEF WorkInv
  <2>4. ~Entering(n, f, p)'
    BY <1>11, <1>18 DEF Entering
  <2>5. CASE p # q
    <3>1. ~Entering(n, f, p)
      BY <1>3, <2>5 DEF Entering
    <3>2. collabData'[n][f].peers[p] = collabData[n][f].peers[p]
      BY <1>9, <1>11, <2>5
    <3> QED BY <1>5, <2>2, <2>3, <2>4, <3>1, <3>2, TaskKeeps
  <2>6. CASE p = q
    <3>1. Entering(n, f, p) /\ Share(n, f, p) = share
      BY <1>0, <1>1, <1>3, <1>4, <2>6 DEF Entering, Share
    <3>2. collabData'[n][f].peers[p].status = "PENDING" /\ Share(n, f, p)' = share
      BY <1>8, <1>9, <1>11, <2>4, <2>6 DEF Share
    <3> QED BY <1>5, <2>2, <2>3, <3>1, <3>2 DEF TaskInv, Owes
  <2> QED BY <2>5, <2>6
<1>20. \A g \in File \ {f} : ~Starting(n, g) /\ ~Starting(n, g)'
  BY <1>0, <1>10, <1>11 DEF Starting, Select
<1>21. WorkFor(n, f)'
  BY <1>17, <1>19 DEF WorkFor
<1> QED BY <1>1, <1>5, <1>11, <1>18, <1>20, <1>21, OneJobWork

\* n's repair of its part turns into its report, and less is missing.
LEMMA FinishWork ==
  ASSUME TypeInv, CallsInv, WorkInv, NEW n \in Node, FinishUnitRepair(n)
  PROVE  WorkInv'
<1> DEFINE d == daemon[n]
<1>0. PICK f \in File, m \in Node : f = d.file /\ m = d.origin
  BY DEF FinishUnitRepair, TypeInv, Sound, Activity, SendLoop
<1>1. d.at = "unit" /\ d.leaves \subseteq Leaf /\ UNCHANGED collabData
  BY DEF FinishUnitRepair, TypeInv, Sound, Activity, SendLoop, jobVars
<1>2. PICK repaired \in SUBSET d.leaves :
        /\ missing' = [missing EXCEPT ![f] = @ \ repaired]
        /\ Post(n, [kind |-> "unitDone", to |-> m, from |-> n, file |-> f,
                    peer |-> n, leaves |-> d.leaves, repaired |-> repaired],
                [at |-> "reporting"])
  BY <1>0 DEF FinishUnitRepair
<1> DEFINE c == [kind |-> "unitDone", to |-> m, from |-> n, file |-> f,
                 peer |-> n, leaves |-> d.leaves, repaired |-> repaired]
<1>3. calls' = calls \cup {c} /\ daemon' = [daemon EXCEPT ![n] = [at |-> "reporting"]]
  BY <1>2 DEF Post, CallsInv, Fine
<1>4. /\ daemon'[n] = [at |-> "reporting"] /\ \A k \in Node \ {n} : daemon'[k] = daemon[k]
      /\ missing'[f] = missing[f] \ repaired
      /\ \A g \in File \ {f} : missing'[g] = missing[g]
  BY <1>2, <1>3 DEF TypeInv
<1>5. c.kind = "unitDone" /\ c.to = m /\ c.file = f /\ c.peer = n /\ c.leaves = d.leaves
      /\ c.repaired = repaired
  OBVIOUS
<1> HIDE DEF c
<1>6. ASSUME NEW k \in Node, NEW g \in File
      PROVE  JobInv(k, g)'
  <2>1. daemon'[k] = daemon[k] \/ (~Starting(k, g) /\ ~Starting(k, g)')
    BY <1>1, <1>4 DEF Starting
  <2> QED BY <1>1, <1>4, <2>1, JobKeeps DEF WorkInv
<1>7. ASSUME NEW k \in Node, NEW g \in File, NEW p \in Node, ~(k = m /\ g = f /\ p = n)
      PROVE  TaskInv(k, g, p)'
  <2>1. daemon'[k] = daemon[k] \/ (~Entering(k, g, p) /\ ~Entering(k, g, p)')
    BY <1>1, <1>4 DEF Entering
  <2>2. Repairing(k, g, p)' = Repairing(k, g, p)
    <3>1. CASE p = n
      BY <1>0, <1>1, <1>4, <1>7, <3>1 DEF Repairing
    <3>2. CASE p # n
      BY <1>4, <3>2, RepairingKeeps
    <3> QED BY <3>1, <3>2
  <2>3. Reports(k, g, p)' = Reports(k, g, p)
    BY <1>3, <1>5, <1>7 DEF Reports
  <2>4. TaskInv(k, g, p)
    BY DEF WorkInv
  <2>5. missing'[g] \subseteq missing[g] /\ collabData'[k][g].peers[p] = collabData[k][g].peers[p]
    BY <1>1, <1>4
  <2> QED BY <2>1, <2>2, <2>3, <2>4, <2>5, TaskKeeps
<1>8. TaskInv(m, f, n)'
  <2>1. TaskInv(m, f, n)
    BY DEF WorkInv
  <2>2. Repairing(m, f, n) = {d}
    BY <1>0, <1>1 DEF Repairing
  <2>3. Repairing(m, f, n)' = {}
    BY <1>4 DEF Repairing
  <2>4. Reports(m, f, n)' = Reports(m, f, n) \cup {c}
    BY <1>3, <1>5 DEF Reports
  <2>5. (Entering(m, f, n)' <=> Entering(m, f, n)) /\ Share(m, f, n)' = Share(m, f, n)
    BY <1>1, <1>4 DEF Entering, Share
  <2>6. Owes(m, f, n) /\ Owes(m, f, n)'
    BY <2>2, <2>4 DEF Owes
  <2>7. \A e \in Reports(m, f, n)' :
          /\ e.leaves = Share(m, f, n) /\ e.repaired \subseteq e.leaves
          /\ e.repaired \cap missing'[f] = {}
    BY <1>2, <1>4, <1>5, <2>1, <2>2, <2>4 DEF TaskInv
  <2> QED BY <1>1, <2>1, <2>3, <2>5, <2>6, <2>7 DEF TaskInv
<1> QED BY <1>6, <1>7, <1>8 DEF WorkInv

\* n takes the report of a peer it waits for, and decides when no other is left.
LEMMA ReportWork ==
  ASSUME TypeInv, AwaitInv, CallsInv, WorkInv, NEW n \in Node, NEW c \in calls,
         ReportUnitRepair(n, c)
  PROVE  WorkInv'
<1>0. c \in UnitDone /\ c.kind = "unitDone" /\ c.to = n
  BY CallKinds DEF ReportUnitRepair, Take, TypeInv
<1>1. PICK f \in File, q \in Node : f = c.file /\ q = c.peer
  BY <1>0 DEF UnitDone
<1> DEFINE job == collabData[n][f]
           peers == [job.peers EXCEPT ![q] = Reported(@, c)]
           verdict == Verdict(peers, job.status)
           new == [job EXCEPT !.peers = peers, !.status = verdict]
           tell == /\ \A p \in Involved(peers) : peers[p].status # "PENDING"
                   /\ job.origin # Nobody
                   /\ daemon[job.origin].at # "down"
           next == IF tell THEN [at |-> "reporting"] ELSE Select
<1>2. job \in Job
  BY DEF TypeInv
<1>3. SetJob(n, f, new) /\ UNCHANGED missing
  BY <1>1, <1>2 DEF ReportUnitRepair, Job
<1>4. /\ daemon[n].at = "select" /\ daemon'[n] = next
      /\ \A m \in Node \ {n} :
           daemon'[m] = daemon[m] \/ (Idle(daemon[m]) /\ Idle(daemon'[m]))
      /\ \A e : e.kind = "unitDone" => (e \in calls' <=> e \in calls \ {c})
  <2> DEFINE result == [kind |-> "collabDone", to |-> job.origin, from |-> n,
                        file |-> f, coordinator |-> n, ok |-> (c.repaired = c.leaves)]
             posted == IF tell THEN {result} ELSE {}
  <2>1. Take(n, c, "unitDone", next, posted)
    BY <1>1 DEF ReportUnitRepair
  <2>2. \A e \in posted : e.kind # "unitDone"
    OBVIOUS
  <2> HIDE DEF next, posted
  <2>3. /\ daemon[n].at = "select" /\ daemon'[n] = next
        /\ \A m \in Node \ {n} :
             daemon'[m] = daemon[m] \/ (Idle(daemon[m]) /\ Idle(daemon'[m]))
    BY <1>0, <2>1, TakeIdle
  <2>4. calls' = (calls \ {c}) \cup posted
    BY <2>1 DEF Take
  <2> QED BY <2>2, <2>3, <2>4
<1>5. next.at \in {"reporting", "select"}
  BY DEF Select
<1>6. c \in Reports(n, f, q)
  BY <1>0, <1>1 DEF Reports
<1>7. /\ job.peers[q].status = "PENDING" /\ c.leaves = job.peers[q].alloc
      /\ c.repaired \subseteq c.leaves /\ c.repaired \cap missing[f] = {}
  BY <1>4, <1>6 DEF WorkInv, TaskInv, Owes, Entering, Share
<1>8. /\ peers[q].alloc = job.peers[q].alloc
      /\ peers[q].status = (IF c.repaired = c.leaves THEN "SUCCESS" ELSE "FAILURE")
      /\ \A p \in Node \ {q} : peers[p] = job.peers[p]
  BY <1>2, <1>7 DEF Job, Reported
<1>9. new.peers = peers /\ new.status = verdict /\ new.found = job.found
  BY <1>2 DEF Job
<1>10. job.status = "PENDING"
  BY <1>4, <1>7 DEF AwaitInv, Awaited, IsStarting, StartingAt, SomePeerPending
<1>11. verdict = "SUCCESS" => \A p \in Node : peers[p].status \in {"NONE", "SUCCESS"}
  BY <1>10 DEF Verdict, Involved
<1>12. Split(job) /\ BroughtBack(job, missing[f]) /\ Covered(job)
  BY <1>4 DEF WorkInv, JobInv, Starting
<1> HIDE DEF new, next, peers, verdict, tell
<1>13. collabData'[n][f] = new
  BY <1>3, SetJobEffect
<1>14. Split(new) /\ Covered(new)
  <2>1. \A p \in Node : new.peers[p].alloc = job.peers[p].alloc
    BY <1>8, <1>9
  <2>2. \A p \in Node : new.peers[p].status = "NONE" => new.peers[p] = NoPeer
    BY <1>8, <1>9, <1>12 DEF Split
  <2> QED BY <1>9, <1>12, <2>1, <2>2 DEF Split, Covered
<1>15. BroughtBack(new, missing[f])
  <2>1. \A p \in Node : new.peers[p].status = "SUCCESS" => new.peers[p].alloc \cap missing[f] = {}
    BY <1>7, <1>8, <1>9, <1>12 DEF BroughtBack
  <2>2. ASSUME new.status = "SUCCESS"
        PROVE  new.found \cap missing[f] = {}
    <3> SUFFICES ASSUME NEW x \in new.found
                 PROVE  x \notin missing[f]
      OBVIOUS
    <3>1. PICK p \in Node : x \in new.peers[p].alloc
      BY <1>14 DEF Covered
    <3>2. new.peers[p].status # "NONE"
      BY <1>14, <3>1 DEF Split, NoPeer
    <3>3. new.peers[p].status = "SUCCESS"
      BY <1>9, <1>11, <2>2, <3>2
    <3> QED BY <2>1, <3>1, <3>3
  <2> QED BY <2>1, <2>2 DEF BroughtBack
<1>16. JobInv(n, f)'
  BY <1>3, <1>4, <1>5, <1>13, <1>14, <1>15 DEF JobInv, LoopAts
<1>17. ASSUME NEW p \in Node
       PROVE  TaskInv(n, f, p)'
  <2>1. daemon'[p] = daemon[p] \/ (daemon[p].at # "unit" /\ daemon'[p].at # "unit")
    BY <1>4, <1>5 DEF Idle
  <2>2. Repairing(n, f, p)' = Repairing(n, f, p)
    BY <2>1, RepairingKeeps
  <2>3. TaskInv(n, f, p)
    BY DEF WorkInv
  <2>4. CASE p # q
    <3>1. Reports(n, f, p)' = Reports(n, f, p)
      BY <1>1, <1>4, <2>4 DEF Reports
    <3>2. ~Entering(n, f, p) /\ ~Entering(n, f, p)'
      BY <1>4, <1>5 DEF Entering
    <3>3. collabData'[n][f].peers[p] = collabData[n][f].peers[p]
      BY <1>8, <1>9, <1>13, <2>4
    <3> QED BY <1>3, <2>2, <2>3, <3>1, <3>2, <3>3, TaskKeeps
  <2>5. CASE p = q
    <3>1. \A e \in Reports(n, f, p) : e.from = p /\ daemon[p].at = "reporting"
      BY ConstantsAssumption DEF Reports, CallsInv, Expected, FromClient, Waits
    <3>2. \A e \in Reports(n, f, p) : e = c
      BY <1>6, <2>5, <3>1, ConstantsAssumption DEF CallsInv, Reports
    <3>3. Reports(n, f, p)' = {}
      BY <1>4, <3>2 DEF Reports
    <3>4. Repairing(n, f, p)' = {}
      BY <1>6, <2>2, <2>5, <3>1 DEF Repairing
    <3>5. collabData'[n][f].peers[p].status # "PENDING"
      BY <1>8, <1>9, <1>13, <2>5
    <3> QED BY <1>4, <1>5, <3>3, <3>4, <3>5, NoTasksThen
  <2> QED BY <2>4, <2>5
<1>18. \A g \in File \ {f} : ~Starting(n, g) /\ ~Starting(n, g)'
  BY <1>4, <1>5 DEF Starting
<1>19. WorkFor(n, f)'
  BY <1>16, <1>17 DEF WorkFor
<1>20. \A e : e.kind = "unitDone" /\ ~(e.to = n /\ e.file = f) => (e \in calls' <=> e \in calls)
  BY <1>0, <1>1, <1>4
<1> QED BY <1>3, <1>4, <1>5, <1>18, <1>19, <1>20, OneJobWork

LEMMA WorkStep ==
  ASSUME FaultFree
  PROVE  TypeInv /\ AwaitInv /\ CallsInv /\ WorkInv /\ [Next]_vars => WorkInv'
<1> SUFFICES ASSUME TypeInv, AwaitInv, CallsInv, WorkInv, [Next]_vars
             PROVE  WorkInv'
  OBVIOUS
<1> USE DEF jobVars
<1>1. ASSUME NEW n \in Node, NEW c \in calls, StartCollabRepair(n, c)
      PROVE  WorkInv'
  <2>1. /\ Take(n, c, "collab", AfterBegin(n, c.file, c.limit), {})
        /\ BeginJob(n, c.file, c.origin) /\ UNCHANGED missing
    BY <1>1 DEF StartCollabRepair
  <2>2. c.kind = "collab" /\ c.file \in File
    BY <2>1, CallKinds DEF Take, TypeInv
  <2>3. PICK f \in File : f = c.file
    BY <2>2
  <2>4. /\ daemon[n].at = "select" /\ daemon'[n] = AfterBegin(n, f, c.limit)
        /\ \A m \in Node \ {n} :
             daemon'[m] = daemon[m] \/ (Idle(daemon[m]) /\ Idle(daemon'[m]))
    BY <2>1, <2>2, <2>3, TakeIdle
  <2>5. \A e : e.kind = "unitDone" => (e \in calls' <=> e \in calls)
    BY <2>1, <2>2 DEF Take
  <2> QED BY <2>1, <2>3, <2>4, <2>5, BeginWork
<1>2. ASSUME NEW n \in Node, NEW f \in File, RepairFile(n, f)
      PROVE  WorkInv'
  <2>1. /\ daemon[n].at = "select" /\ UNCHANGED <<calls, missing>>
        /\ daemon' = [daemon EXCEPT ![n] = AfterBegin(n, f, RepairNumPeers)]
        /\ BeginJob(n, f, n)
    BY <1>2 DEF RepairFile
  <2>2. /\ daemon'[n] = AfterBegin(n, f, RepairNumPeers)
        /\ \A m \in Node \ {n} : daemon'[m] = daemon[m]
    BY <2>1 DEF TypeInv
  <2> QED BY <2>1, <2>2, BeginWork
<1>3. ASSUME NEW n \in Node, NEW c \in calls, IgnoreReport(n, c)
      PROVE  FALSE
  <2>1. /\ daemon[n].at = "select" /\ c.kind = "unitDone" /\ c.to = n
        /\ collabData[n][c.file].peers[c.peer].status = "NONE"
    BY <1>3 DEF IgnoreReport, Take
  <2>2. c.file \in File /\ c.peer \in Node
    BY <2>1, CallKinds DEF TypeInv, UnitDone
  <2>3. TaskInv(n, c.file, c.peer) /\ c \in Reports(n, c.file, c.peer)
    BY <2>1, <2>2 DEF WorkInv, Reports
  <2> QED BY <2>1, <2>3 DEF TaskInv, Owes, Entering
<1>4. ASSUME NEW n \in Node, NEW c \in calls,
             \/ StartStrandRepair(n, c) \/ ContinueStrandRepair(n, c) \/ ResetMonitor(n, c)
      PROVE  WorkInv'
  <2>1. CASE StartStrandRepair(n, c)
    <3>1. Take(n, c, "strand", AfterStrand(n, c.file), {}) /\ UNCHANGED <<collabData, missing>>
      BY <2>1 DEF StartStrandRepair
    <3>2. Idle(AfterStrand(n, c.file))
      BY DEF AfterStrand, Idle, Select, StartingAt
    <3>3. c.kind \notin {"unit", "unitDone"}
      BY <3>1 DEF Take
    <3> QED BY <3>1, <3>2, <3>3, QuietTakeWork
  <2>2. CASE ContinueStrandRepair(n, c)
    <3>1. PICK todo \in SUBSET Monitors[c.file] :
            Take(n, c, "collabDone",
                 IF strandData[n][c.file] = "PENDING" /\ ~c.ok THEN Select
                 ELSE IF n \notin Monitors[c.file] THEN [at |-> "panic"]
                 ELSE [at |-> "reset", file |-> c.file, todo |-> todo], {})
      BY <2>2 DEF ContinueStrandRepair
    <3>2. Idle(IF strandData[n][c.file] = "PENDING" /\ ~c.ok THEN Select
               ELSE IF n \notin Monitors[c.file] THEN [at |-> "panic"]
               ELSE [at |-> "reset", file |-> c.file, todo |-> todo])
      BY DEF Idle, Select, StartingAt
    <3>3. c.kind \notin {"unit", "unitDone"} /\ UNCHANGED <<collabData, missing>>
      BY <2>2, <3>1 DEF Take, ContinueStrandRepair
    <3> QED BY <3>1, <3>2, <3>3, QuietTakeWork
  <2>3. CASE ResetMonitor(n, c)
    <3>1. Take(n, c, "reset", Select, {}) /\ UNCHANGED <<collabData, missing>>
      BY <2>3 DEF ResetMonitor
    <3>2. Idle(Select) /\ c.kind \notin {"unit", "unitDone"}
      BY <3>1 DEF Take, Idle, Select, StartingAt
    <3> QED BY <3>1, <3>2, QuietTakeWork
  <2> QED BY <1>4, <2>1, <2>2, <2>3
<1>5. ASSUME NEW n \in Node, PostReset(n)
      PROVE  WorkInv'
  <2>1. PICK m \in daemon[n].todo :
          Post(n, [kind |-> "reset", to |-> m, from |-> n, file |-> daemon[n].file],
               [daemon[n] EXCEPT !.at = "resetting", !.todo = @ \ {m}])
    BY <1>5 DEF PostReset
  <2> DEFINE waiting == [daemon[n] EXCEPT !.at = "resetting", !.todo = @ \ {m}]
             c == [kind |-> "reset", to |-> m, from |-> n, file |-> daemon[n].file]
  <2>2. daemon[n].at = "reset" /\ UNCHANGED <<collabData, missing>>
    BY <1>5 DEF PostReset
  <2>3. daemon[n] \in [at : {"reset", "resetting"}, file : File, todo : SUBSET Node]
    BY <2>2 DEF TypeInv, Sound, Activity, SendLoop
  <2>4. waiting.at = "resetting" /\ m \in Node
    BY <2>3
  <2> HIDE DEF waiting
  <2>5. daemon[m].at # "down"
    BY <2>4 DEF CallsInv, Fine
  <2>6. daemon' = [daemon EXCEPT ![n] = waiting] /\ calls' = calls \cup {c}
    BY <2>1, <2>5 DEF Post, waiting
  <2>7. \A k \in Node : daemon'[k] = daemon[k] \/ (Idle(daemon[k]) /\ Idle(daemon'[k]))
    BY <2>2, <2>4, <2>6 DEF TypeInv, Idle, StartingAt
  <2>8. \A e : e.kind = "unitDone" => (e \in calls' <=> e \in calls)
    BY <2>6
  <2> QED BY <2>2, <2>7, <2>8, QuietWork
<1>6. ASSUME NEW n \in Node, ResetsDone(n)
      PROVE  WorkInv'
  <2>1. /\ daemon[n].at = "reset" /\ UNCHANGED <<calls, collabData, missing>>
        /\ daemon' = [daemon EXCEPT ![n] = Select]
    BY <1>6 DEF ResetsDone
  <2>2. \A k \in Node : daemon'[k] = daemon[k] \/ (Idle(daemon[k]) /\ Idle(daemon'[k]))
    BY <2>1 DEF TypeInv, Idle, StartingAt, Select
  <2> QED BY <2>1, <2>2, QuietWork
<1>7. ASSUME NEW n \in Node, NEW f \in File, RepairStrand(n, f)
      PROVE  WorkInv'
  <2>1. /\ daemon[n].at = "select" /\ UNCHANGED <<calls, collabData, missing>>
        /\ daemon' = [daemon EXCEPT ![n] = AfterStrand(n, f)]
    BY <1>7 DEF RepairStrand
  <2>2. \A k \in Node : daemon'[k] = daemon[k] \/ (Idle(daemon[k]) /\ Idle(daemon'[k]))
    BY <2>1 DEF TypeInv, Idle, StartingAt, Select, AfterStrand
  <2> QED BY <2>1, <2>2, QuietWork
<1>8. ASSUME NEW n \in Node, NEW f \in File,
             TriggerCollabRepair(n, f) \/ TriggerStrandRepair(n, f)
      PROVE  WorkInv'
  <2>1. UNCHANGED <<daemon, collabData, missing>>
    BY <1>8 DEF TriggerCollabRepair, TriggerStrandRepair, ClientAsks
  <2>2. \A e : e.kind = "unitDone" => (e \in calls' <=> e \in calls)
    BY <1>8 DEF TriggerCollabRepair, TriggerStrandRepair
  <2> QED BY <2>1, <2>2, QuietWork
<1>9. ASSUME \/ \E c \in calls : LoseRequest(c) \/ LoseAnswer(c)
             \/ \E n \in Node : RequestRefused(n) \/ Panic(n) \/ Crash(n) \/ Restart(n)
      PROVE  FALSE
  <2>1. ~(faults < MaxFaults)
    BY DEF FaultFree, TypeInv
  <2>2. \A n \in Node : Fine(daemon[n])
    BY DEF CallsInv
  <2> QED BY <1>9, <2>1, <2>2
          DEF LoseRequest, LoseAnswer, RequestRefused, Panic, Crash, Restart, Fine
<1>10. CASE UNCHANGED vars
  <2>1. UNCHANGED <<daemon, collabData, missing, calls>>
    BY <1>10 DEF vars
  <2> QED BY <2>1, QuietWork
<1>11. ASSUME NEW n \in Node, Daemon(n)
       PROVE  WorkInv'
  <2>1. CASE Runs(n)
    BY <2>1, <1>5, <1>6, <1>9, RetrieveEndsWork, PlanWork, SendWork, AcceptedWork, FinishWork
       DEF Runs
  <2>2. ASSUME NEW c \in calls, Receives(n, c)
        PROVE  WorkInv'
    BY <2>2, <1>1, <1>3, <1>4, UnitWork, ReportWork DEF Receives
  <2> QED BY <1>11, <2>1, <2>2 DEF Daemon
<1>12. CASE Environment
  BY <1>12, <1>2, <1>7, <1>8, <1>9 DEF Environment
<1> QED BY <1>10, <1>11, <1>12 DEF Next

LEMMA InitWork == Init => WorkInv
<1> SUFFICES ASSUME Init, NEW n \in Node, NEW f \in File
             PROVE  JobInv(n, f) /\ \A p \in Node : TaskInv(n, f, p)
  BY DEF WorkInv
<1>1. daemon[n] = Select /\ calls = {} /\ collabData[n][f] = NoJob
  BY DEF Init
<1>2. Untouched(NoJob) /\ Covered(NoJob)
  BY DEF Untouched, Covered, NoJob
<1>3. JobInv(n, f)
  BY <1>1, <1>2, FreshJob DEF JobInv, Select, LoopAts
<1>4. ASSUME NEW p \in Node
      PROVE  TaskInv(n, f, p)
  <2>1. Repairing(n, f, p) = {} /\ Reports(n, f, p) = {}
    BY <1>1 DEF Init, Repairing, Reports, Select
  <2> QED BY <1>1, <2>1 DEF TaskInv, Owes, Entering, Select, NoJob, NoPeer
<1> QED BY <1>3, <1>4

-----------------------------------------------------------------------------
(* The properties *)

\* A request for a unit repair waits in a handler only while its coordinator posts it.
LEMMA NoneRequested ==
  ASSUME TypeInv, CallsInv, NEW n \in Node, NEW f \in File, NEW p \in Node, ~Starting(n, f)
  PROVE  Requested(n, f, p) = {}
<1> SUFFICES ASSUME NEW c \in calls, c.kind = "unit", c.origin = n, c.file = f
             PROVE  FALSE
  BY DEF Requested
<1>1. c.from # Nobody
  BY DEF CallsInv, Expected, FromClient
<1>2. daemon[c.from].at = "sending" /\ daemon[c.from].file = f /\ c.from = n
  BY <1>1 DEF CallsInv, Expected, Waits
<1> QED BY <1>2 DEF Starting

\* A daemon repairs for one coordinator at a time and waits for the answer to its
\* report, so that a peer owes at most one.
LEMMA OweOne ==
  ASSUME TypeInv, CallsInv, NEW n \in Node, NEW f \in File, NEW p \in Node
  PROVE  /\ Repairing(n, f, p) = {} \/ Reports(n, f, p) = {}
         /\ Repairing(n, f, p) = {} \/ \E d : Repairing(n, f, p) = {d}
         /\ Reports(n, f, p) = {} \/ \E c : Reports(n, f, p) = {c}
<1>1. \A c \in Reports(n, f, p) : c.from = p /\ daemon[p].at = "reporting"
  <2> SUFFICES ASSUME NEW c \in Reports(n, f, p)
               PROVE  c.from = p /\ daemon[p].at = "reporting"
    OBVIOUS
  <2>1. c \in calls /\ c.kind = "unitDone" /\ c.peer = p
    BY DEF Reports
  <2>2. c.from # Nobody
    BY <2>1 DEF CallsInv, Expected, FromClient
  <2> QED BY <2>1, <2>2 DEF CallsInv, Expected, Waits
<1>2. \A c, e \in Reports(n, f, p) : c = e
  BY <1>1, ConstantsAssumption DEF Reports, CallsInv
<1>3. Reports(n, f, p) = {} \/ \E c : Reports(n, f, p) = {c}
  BY <1>2
<1>4. Repairing(n, f, p) = {} \/ Repairing(n, f, p) = {daemon[p]}
  BY DEF Repairing
<1>5. Repairing(n, f, p) # {} => daemon[p].at = "unit"
  BY DEF Repairing
<1> QED BY <1>1, <1>3, <1>4, <1>5

LEMMA CountOfOne ==
  ASSUME NEW S, S = {} \/ \E x : S = {x}
  PROVE  Cardinality(S) = IF S = {} THEN 0 ELSE 1
BY FS_EmptySet, FS_Singleton

LEMMA OneReportEach == TypeInv /\ CallsInv /\ WorkInv => PeersOweOneReport
<1> SUFFICES ASSUME TypeInv, CallsInv, WorkInv,
                    NEW n \in Node, NEW f \in File, NEW p \in Node, ~Starting(n, f)
             PROVE  WorkOnItsWay(n, f, p) =
                      IF collabData[n][f].peers[p].status = "PENDING" THEN 1 ELSE 0
  BY DEF PeersOweOneReport
<1>1. Owes(n, f, p) <=> collabData[n][f].peers[p].status = "PENDING"
  BY DEF WorkInv, TaskInv, Entering, Starting
<1>2. Cardinality(Requested(n, f, p)) = 0
  BY NoneRequested, FS_EmptySet
<1>3. /\ Cardinality(Repairing(n, f, p)) = IF Repairing(n, f, p) = {} THEN 0 ELSE 1
      /\ Cardinality(Reports(n, f, p)) = IF Reports(n, f, p) = {} THEN 0 ELSE 1
      /\ Repairing(n, f, p) = {} \/ Reports(n, f, p) = {}
  BY OweOne, CountOfOne
<1> QED BY <1>1, <1>2, <1>3 DEF WorkOnItsWay, Owes

LEMMA AllBroughtBack == WorkInv => SuccessMeansRepaired
BY DEF WorkInv, JobInv, BroughtBack, SuccessMeansRepaired

LEMMA NoLeafTwice == WorkInv => LeavesSplit
BY DEF WorkInv, JobInv, Split, LeavesSplit

\* The invariant of a system where nothing fails.
FaultFreeInv == TypeInv /\ AwaitInv /\ CallsInv /\ WorkInv

LEMMA FaultFreeInit == Init => FaultFreeInv
<1>1. Init => AwaitInv
  BY DEF Init, AwaitInv, Awaited, IsStarting, StartingAt, Select, NoJob, NoPeer,
         SomePeerPending
<1> QED BY <1>1, InitType, InitCalls, InitWork DEF FaultFreeInv

LEMMA FaultFreeStep ==
  ASSUME FaultFree
  PROVE  FaultFreeInv /\ [Next]_vars => FaultFreeInv'
BY TypeStep, AwaitStep, CallsStep, WorkStep DEF FaultFreeInv

\* When nothing fails, every peer that a coordinator waits for owes it exactly one
\* report and every other node none: no report of an earlier repair of the file is left
\* to be taken for one of this repair (reports carry no identity of the repair).
THEOREM OneReportOwed ==
  ASSUME FaultFree
  PROVE  Spec => []PeersOweOneReport
<1>1. FaultFreeInv => PeersOweOneReport
  BY OneReportEach DEF FaultFreeInv
<1> QED BY <1>1, FaultFreeInit, FaultFreeStep, PTL DEF Spec

\* When nothing fails, a repair that ends in SUCCESS has brought back every leaf it
\* found missing: each was handed to a peer, each peer reported, and all in full.
THEOREM SuccessRepairs ==
  ASSUME FaultFree
  PROVE  Spec => []SuccessMeansRepaired
<1>1. FaultFreeInv => SuccessMeansRepaired
  BY AllBroughtBack DEF FaultFreeInv
<1> QED BY <1>1, FaultFreeInit, FaultFreeStep, PTL DEF Spec

\* When nothing fails, no leaf is handed to two peers of a repair, and only leaves that
\* were found missing are, whatever the numbers of leaves and peers (the slices that
\* StartCollabRepair cuts with an integer division).
THEOREM LeavesAreSplit ==
  ASSUME FaultFree
  PROVE  Spec => []LeavesSplit
<1>1. FaultFreeInv => LeavesSplit
  BY NoLeafTwice DEF FaultFreeInv
<1> QED BY <1>1, FaultFreeInit, FaultFreeStep, PTL DEF Spec

-----------------------------------------------------------------------------
(* The repair that was promised *)

\* What RepairJob sees of the coordinators.
StatusSeen == [n \in Node |-> [f \in File |-> collabData[n][f].status]]
FoundSeen == [n \in Node |-> [f \in File |-> collabData[n][f].found]]

LEMMA SeenThrough ==
  ASSUME TypeInv, NEW n \in Node, NEW f \in File, NEW job, SetJob(n, f, job)
  PROVE  /\ StatusSeen' = [StatusSeen EXCEPT ![n][f] = job.status]
         /\ FoundSeen' = [FoundSeen EXCEPT ![n][f] = job.found]
<1>1. /\ collabData'[n][f] = job
      /\ \A g \in File \ {f} : collabData'[n][g] = collabData[n][g]
      /\ \A m \in Node \ {n} : collabData'[m] = collabData[m]
  BY SetJobEffect
<1>2. StatusSeen' = [m \in Node |-> [g \in File |-> collabData'[m][g].status]]
  BY DEF StatusSeen
<1>3. FoundSeen' = [m \in Node |-> [g \in File |-> collabData'[m][g].found]]
  BY DEF FoundSeen
<1>4. [StatusSeen EXCEPT ![n][f] = job.status] =
        [m \in Node |-> [g \in File |-> collabData'[m][g].status]]
  <2>1. StatusSeen[n] = [g \in File |-> collabData[n][g].status]
    BY DEF StatusSeen
  <2>2. [StatusSeen[n] EXCEPT ![f] = job.status] = [g \in File |-> collabData'[n][g].status]
    BY <1>1, <2>1
  <2>3. \A m \in Node \ {n} : StatusSeen[m] = [g \in File |-> collabData'[m][g].status]
    BY <1>1 DEF StatusSeen
  <2>4. StatusSeen = [m \in Node |-> StatusSeen[m]]
    BY DEF StatusSeen
  <2> QED BY <2>2, <2>3, <2>4
<1>5. [FoundSeen EXCEPT ![n][f] = job.found] =
        [m \in Node |-> [g \in File |-> collabData'[m][g].found]]
  <2>1. FoundSeen[n] = [g \in File |-> collabData[n][g].found]
    BY DEF FoundSeen
  <2>2. [FoundSeen[n] EXCEPT ![f] = job.found] = [g \in File |-> collabData'[n][g].found]
    BY <1>1, <2>1
  <2>3. \A m \in Node \ {n} : FoundSeen[m] = [g \in File |-> collabData'[m][g].found]
    BY <1>1 DEF FoundSeen
  <2>4. FoundSeen = [m \in Node |-> FoundSeen[m]]
    BY DEF FoundSeen
  <2> QED BY <2>2, <2>3, <2>4
<1> QED BY <1>2, <1>3, <1>4, <1>5

LEMMA SeenUnchanged ==
  ASSUME UNCHANGED <<collabData, missing>>
  PROVE  UNCHANGED Promised!vars
BY DEF Promised!vars

LEMMA SeenAt ==
  ASSUME NEW n \in Node, NEW f \in File
  PROVE  /\ StatusSeen[n][f] = collabData[n][f].status
         /\ FoundSeen[n][f] = collabData[n][f].found
BY DEF StatusSeen, FoundSeen

LEMMA SeenSame ==
  ASSUME TypeInv, NEW n \in Node, NEW f \in File, NEW job, SetJob(n, f, job), UNCHANGED missing,
         job.status = collabData[n][f].status, job.found = collabData[n][f].found
  PROVE  UNCHANGED Promised!vars
<1>1. \A m \in Node, g \in File :
        /\ collabData'[m][g].status = collabData[m][g].status
        /\ collabData'[m][g].found = collabData[m][g].found
  BY SetJobEffect
<1> QED BY <1>1 DEF Promised!vars

\* The steps of a coordinator are those of the repair it coordinates.
LEMMA BeginPromised ==
  ASSUME TypeInv, NEW n \in Node, NEW f \in File, NEW origin, BeginJob(n, f, origin),
         UNCHANGED missing
  PROVE  Promised!Begin(n, f) \/ UNCHANGED Promised!vars
<1>1. CASE collabData[n][f].status = "PENDING"
  BY <1>1, SeenUnchanged DEF BeginJob
<1>2. CASE collabData[n][f].status # "PENDING"
  <2> DEFINE job == [NoJob EXCEPT !.status = "PENDING", !.origin = origin]
  <2>1. SetJob(n, f, job)
    BY <1>2 DEF BeginJob
  <2>2. job.status = "PENDING" /\ job.found = {}
    BY DEF NoJob
  <2> HIDE DEF job
  <2>3. /\ StatusSeen' = [StatusSeen EXCEPT ![n][f] = "PENDING"]
        /\ FoundSeen' = [FoundSeen EXCEPT ![n][f] = {}]
    BY <2>1, <2>2, SeenThrough
  <2> QED BY <1>2, <2>3, SeenAt DEF Promised!Begin, StatusSeen, FoundSeen
<1> QED BY <1>1, <1>2

LEMMA EndPromised ==
  ASSUME TypeInv, WorkInv', NEW n \in Node, NEW f \in File, NEW job, SetJob(n, f, job),
         UNCHANGED missing, collabData[n][f].status = "PENDING",
         job.status \in {"SUCCESS", "FAILURE"}, job.found = collabData[n][f].found
  PROVE  Promised!End(n, f)
<1>1. collabData'[n][f] = job
  BY SetJobEffect
<1>2. job.status = "SUCCESS" => collabData[n][f].found \cap missing[f] = {}
  BY <1>1 DEF WorkInv, JobInv, BroughtBack
<1>3. StatusSeen' = [StatusSeen EXCEPT ![n][f] = job.status]
  BY SeenThrough
<1>4. FoundSeen' = FoundSeen
  <2>1. \A m \in Node, g \in File : collabData'[m][g].found = collabData[m][g].found
    BY <1>1, SetJobEffect
  <2> QED BY <2>1 DEF FoundSeen
<1> QED BY <1>2, <1>3, <1>4, SeenAt DEF Promised!End, StatusSeen, FoundSeen

LEMMA RetrieveEndsPromised ==
  ASSUME TypeInv, AwaitInv, WorkInv', NEW n \in Node, RetrieveFails(n) \/ NothingToRepair(n)
  PROVE  \E f \in File : Promised!End(n, f)
<1>0. PICK f \in File : f = daemon[n].file
  BY RetrieveAt DEF RetrieveFails, NothingToRepair
<1> DEFINE job == collabData[n][f]
<1>1. daemon[n].at = "retrieve" /\ UNCHANGED missing
  BY DEF RetrieveFails, NothingToRepair
<1>2. PICK st \in {"SUCCESS", "FAILURE"} : SetJob(n, f, [job EXCEPT !.status = st])
  BY <1>0 DEF RetrieveFails, NothingToRepair
<1> DEFINE new == [job EXCEPT !.status = st]
<1>3. new.status = st /\ new.found = job.found
  BY DEF TypeInv, Job
<1>4. job.status = "PENDING"
  BY <1>0, <1>1 DEF AwaitInv, Awaited, IsStarting, StartingAt
<1>5. SetJob(n, f, new)
  BY <1>2
<1> HIDE DEF new
<1> QED BY <1>1, <1>3, <1>4, <1>5, EndPromised

LEMMA PlanPromised ==
  ASSUME TypeInv, AwaitInv, WorkInv, NEW n \in Node, PlanRequests(n)
  PROVE  \E f \in File : Promised!Find(n, f)
<1>0. PICK f \in File : f = daemon[n].file
  BY RetrieveAt DEF PlanRequests
<1> DEFINE job == collabData[n][f]
<1>1. daemon[n].at = "retrieve" /\ UNCHANGED missing
  BY DEF PlanRequests
<1>2. PICK found \in (SUBSET Leaf) \ {{}} : SetJob(n, f, [job EXCEPT !.found = found])
  BY <1>0 DEF PlanRequests
<1> DEFINE new == [job EXCEPT !.found = found]
<1>3. new.status = job.status /\ new.found = found
  BY DEF TypeInv, Job
<1>4. job.status = "PENDING" /\ job.found = {}
  BY <1>0, <1>1 DEF AwaitInv, Awaited, IsStarting, StartingAt, WorkInv, JobInv, Untouched
<1>5. SetJob(n, f, new)
  BY <1>2
<1> HIDE DEF new
<1>6. FoundSeen' = [FoundSeen EXCEPT ![n][f] = found]
  BY <1>3, <1>5, SeenThrough
<1>7. StatusSeen' = StatusSeen
  <2>1. StatusSeen' = [StatusSeen EXCEPT ![n][f] = StatusSeen[n][f]]
    BY <1>3, <1>5, SeenThrough, SeenAt
  <2> QED BY <2>1 DEF StatusSeen
<1> QED BY <1>1, <1>4, <1>6, <1>7, SeenAt DEF Promised!Find, StatusSeen, FoundSeen

\* A leaf that a peer brings back is one of the repair it works for, which has no
\* verdict as long as the peer owes it a report.
LEMMA FinishPromised ==
  ASSUME TypeInv, AwaitInv, CallsInv, WorkInv, NEW n \in Node, FinishUnitRepair(n)
  PROVE  \E m \in Node, f \in File : Promised!BringBack(m, f)
<1> DEFINE d == daemon[n]
<1>0. PICK f \in File, m \in Node : f = d.file /\ m = d.origin
  BY DEF FinishUnitRepair, TypeInv, Sound, Activity, SendLoop
<1>1. d.at = "unit" /\ UNCHANGED collabData
  BY DEF FinishUnitRepair, jobVars
<1>2. PICK repaired \in SUBSET d.leaves : missing' = [missing EXCEPT ![f] = @ \ repaired]
  BY <1>0 DEF FinishUnitRepair
<1>3. d \in Repairing(m, f, n)
  BY <1>0, <1>1 DEF Repairing
<1>4. d.leaves = Share(m, f, n) /\ (Entering(m, f, n) \/ collabData[m][f].peers[n].status = "PENDING")
  BY <1>3 DEF WorkInv, TaskInv, Owes
<1>5. collabData[m][f].status = "PENDING"
  BY <1>4 DEF AwaitInv, Awaited, IsStarting, StartingAt, Entering, SomePeerPending, CallsInv, Fine
<1>6. Share(m, f, n) \subseteq collabData[m][f].found
  <2>1. CASE Entering(m, f, n)
    <3>1. daemon[m].at = "accepted" /\ daemon[m].file = f
      BY <2>1 DEF Entering
    <3>2. SplitAmong(daemon[m], collabData[m][f].found)
      BY <3>1 DEF WorkInv, JobInv, LoopAts, LoopInv
    <3>3. daemon[m].i \in Nat \ {0} /\ daemon[m].reqs \in Seq(SUBSET Leaf)
      BY <3>1, LoopAt DEF SendLoop
    <3>4. daemon[m].i <= Len(daemon[m].reqs)
      BY <3>1 DEF CallsInv, Fine, LoopAts
    <3>5. daemon[m].i \in 1..Len(daemon[m].reqs)
      BY <3>3, <3>4
    <3> QED BY <2>1, <3>2, <3>5 DEF Share, SplitAmong
  <2>2. CASE ~Entering(m, f, n)
    BY <2>2 DEF Share, WorkInv, JobInv, Split
  <2> QED BY <2>1, <2>2
<1>7. UNCHANGED <<StatusSeen, FoundSeen>>
  BY <1>1 DEF StatusSeen, FoundSeen
<1> HIDE DEF d
<1>8. repaired \in SUBSET FoundSeen[m][f] /\ StatusSeen[m][f] = "PENDING"
  BY <1>2, <1>4, <1>5, <1>6, SeenAt
<1>9. Promised!BringBack(m, f)
  BY <1>2, <1>7, <1>8 DEF Promised!BringBack, StatusSeen, FoundSeen
<1> QED BY <1>9

LEMMA ReportPromised ==
  ASSUME TypeInv, AwaitInv, WorkInv, WorkInv', NEW n \in Node, NEW c \in calls,
         ReportUnitRepair(n, c)
  PROVE  (\E f \in File : Promised!End(n, f)) \/ UNCHANGED Promised!vars
<1>0. c \in UnitDone /\ c.kind = "unitDone" /\ c.to = n
  BY CallKinds DEF ReportUnitRepair, Take, TypeInv
<1>1. PICK f \in File, q \in Node : f = c.file /\ q = c.peer
  BY <1>0 DEF UnitDone
<1> DEFINE job == collabData[n][f]
           peers == [job.peers EXCEPT ![q] = Reported(@, c)]
           verdict == Verdict(peers, job.status)
           new == [job EXCEPT !.peers = peers, !.status = verdict]
<1>2. job \in Job
  BY DEF TypeInv
<1>3. SetJob(n, f, new) /\ UNCHANGED missing /\ daemon[n].at = "select"
  BY <1>1, <1>2 DEF ReportUnitRepair, Job, Take
<1>4. new.status = verdict /\ new.found = job.found
  BY <1>2 DEF Job
<1>5. c \in Reports(n, f, q)
  BY <1>0, <1>1 DEF Reports
<1>6. job.peers[q].status = "PENDING"
  BY <1>3, <1>5 DEF WorkInv, TaskInv, Owes, Entering
<1>7. job.status = "PENDING"
  BY <1>3, <1>6 DEF AwaitInv, Awaited, IsStarting, StartingAt, SomePeerPending
<1>8. verdict \in {"PENDING", "SUCCESS", "FAILURE"}
  BY <1>7 DEF Verdict
<1> HIDE DEF new, verdict
<1>9. CASE verdict # "PENDING"
  <2>1. Promised!End(n, f)
    BY <1>3, <1>4, <1>7, <1>8, <1>9, EndPromised
  <2> QED BY <2>1
<1>10. CASE verdict = "PENDING"
  BY <1>3, <1>4, <1>7, <1>10, SeenSame
<1> QED BY <1>9, <1>10

LEMMA PromiseStep ==
  ASSUME FaultFree
  PROVE  FaultFreeInv /\ FaultFreeInv' /\ [Next]_vars => [Promised!Next]_(Promised!vars)
<1> SUFFICES ASSUME TypeInv, AwaitInv, CallsInv, WorkInv, WorkInv', [Next]_vars
             PROVE  Promised!Next \/ UNCHANGED Promised!vars
  BY DEF FaultFreeInv
<1> USE DEF jobVars
<1>1. ASSUME NEW n \in Node, NEW c \in calls, StartCollabRepair(n, c)
      PROVE  Promised!Next \/ UNCHANGED Promised!vars
  <2>1. c.file \in File /\ BeginJob(n, c.file, c.origin) /\ UNCHANGED missing
    BY <1>1, CallKinds DEF StartCollabRepair, TypeInv
  <2> QED BY <2>1, BeginPromised DEF Promised!Next
<1>2. ASSUME NEW n \in Node, NEW f \in File, RepairFile(n, f)
      PROVE  Promised!Next \/ UNCHANGED Promised!vars
  BY <1>2, BeginPromised DEF RepairFile, Promised!Next
<1>3. ASSUME NEW n \in Node, NEW c \in calls, ReportUnitRepair(n, c)
      PROVE  Promised!Next \/ UNCHANGED Promised!vars
  BY <1>3, ReportPromised DEF Promised!Next
<1>4. ASSUME NEW n \in Node, RetrieveFails(n) \/ NothingToRepair(n)
      PROVE  Promised!Next
  BY <1>4, RetrieveEndsPromised DEF Promised!Next
<1>5. ASSUME NEW n \in Node, PlanRequests(n)
      PROVE  Promised!Next
  BY <1>5, PlanPromised DEF Promised!Next
<1>6. ASSUME NEW n \in Node, RequestAccepted(n)
      PROVE  UNCHANGED Promised!vars
  <2> DEFINE d == daemon[n]
             job == collabData[n][d.file]
             p == d.peers[d.i]
             new == [job EXCEPT !.peers[p] = Allocate(job.peers[p], d.reqs[d.i])]
  <2>1. d.file \in File
    BY <1>6, LoopAt DEF RequestAccepted, SendLoop
  <2>2. PICK f \in File : f = d.file
    BY <2>1
  <2>3. SetJob(n, f, new) /\ UNCHANGED missing
    BY <1>6, <2>2 DEF RequestAccepted
  <2>4. new.status = collabData[n][f].status /\ new.found = collabData[n][f].found
    BY <2>2 DEF TypeInv, Job
  <2> HIDE DEF new
  <2> QED BY <2>3, <2>4, SeenSame
<1>7. ASSUME NEW n \in Node, FinishUnitRepair(n)
      PROVE  Promised!Next
  BY <1>7, FinishPromised DEF Promised!Next
<1>8. ASSUME NEW n \in Node, SendRequest(n) \/ PostReset(n) \/ ResetsDone(n)
      PROVE  UNCHANGED Promised!vars
  BY <1>8, SeenUnchanged DEF SendRequest, PostReset, ResetsDone
<1>9. ASSUME NEW n \in Node, NEW c \in calls,
             \/ StartUnitRepair(n, c) \/ IgnoreReport(n, c) \/ StartStrandRepair(n, c)
             \/ ContinueStrandRepair(n, c) \/ ResetMonitor(n, c)
      PROVE  UNCHANGED Promised!vars
  BY <1>9, SeenUnchanged
     DEF StartUnitRepair, IgnoreReport, StartStrandRepair, ContinueStrandRepair, ResetMonitor
<1>10. ASSUME NEW n \in Node, NEW f \in File,
              TriggerCollabRepair(n, f) \/ TriggerStrandRepair(n, f) \/ RepairStrand(n, f)
       PROVE  UNCHANGED Promised!vars
  BY <1>10, SeenUnchanged
     DEF TriggerCollabRepair, TriggerStrandRepair, ClientAsks, RepairStrand
<1>11. ASSUME \/ \E c \in calls : LoseRequest(c) \/ LoseAnswer(c)
              \/ \E n \in Node : RequestRefused(n) \/ Panic(n) \/ Crash(n) \/ Restart(n)
       PROVE  FALSE
  <2>1. ~(faults < MaxFaults)
    BY DEF FaultFree, TypeInv
  <2>2. \A n \in Node : Fine(daemon[n])
    BY DEF CallsInv
  <2> QED BY <1>11, <2>1, <2>2
          DEF LoseRequest, LoseAnswer, RequestRefused, Panic, Crash, Restart, Fine
<1>12. CASE UNCHANGED vars
  BY <1>12, SeenUnchanged DEF vars
<1>13. ASSUME NEW n \in Node, Daemon(n)
       PROVE  Promised!Next \/ UNCHANGED Promised!vars
  <2>1. CASE Runs(n)
    BY <2>1, <1>4, <1>5, <1>6, <1>7, <1>8, <1>11 DEF Runs
  <2>2. ASSUME NEW c \in calls, Receives(n, c)
        PROVE  Promised!Next \/ UNCHANGED Promised!vars
    BY <2>2, <1>1, <1>3, <1>9 DEF Receives
  <2> QED BY <1>13, <2>1, <2>2 DEF Daemon
<1>14. CASE Environment
  BY <1>14, <1>2, <1>10, <1>11 DEF Environment
<1> QED BY <1>12, <1>13, <1>14 DEF Next

LEMMA PromiseInit == Init => Promised!Init
<1> SUFFICES ASSUME Init
             PROVE  Promised!Init
  OBVIOUS
<1>1. \A n \in Node, f \in File :
        collabData[n][f].status = "NONE" /\ collabData[n][f].found = {}
  BY DEF Init, NoJob
<1> QED BY <1>1 DEF Init, Promised!Init

\* When nothing fails, the daemons, the posts and the reports together do what RepairJob
\* says of a repair, whatever the number of nodes, files, leaves and repairs at a time:
\* one verdict for each repair that began, none early, none withdrawn, SUCCESS only when
\* every leaf it found is back, and no leaf brought back for a repair that is over.
THEOREM PromiseKept ==
  ASSUME FaultFree
  PROVE  Spec => RepairsAsPromised
<1>1. Init => Promised!Init
  BY PromiseInit
<1>2. FaultFreeInv /\ FaultFreeInv' /\ [Next]_vars => [Promised!Next]_(Promised!vars)
  BY PromiseStep
<1> QED BY <1>1, <1>2, FaultFreeInit, FaultFreeStep, PTL DEF Spec, RepairsAsPromised, Promised!Spec
=============================================================================
