-------------------------------- MODULE Monitor --------------------------------
(***************************************************************************)
(* A community node as its clients see it: its daemon (Server/daemon.go),  *)
(* the inspections and the shared views the daemon makes from its two      *)
(* timers (Server/inspector.go, Server/viewshare.go), the HTTP handlers    *)
(* (Server/server.go), the mutex over the table of monitored files and the *)
(* unbuffered channels from the handlers to the daemon.                    *)
(*                                                                         *)
(* Of a repair (Server/repair.go) there is what it does to the node: it    *)
(* occupies the daemon, with the mutex if an inspection has begun it, and  *)
(* comes back, ends the process or never comes back. What passes between   *)
(* the nodes meanwhile is CollabRepair.                                    *)
(***************************************************************************)
EXTENDS Naturals, FiniteSets, FiniteSetsExt

CONSTANTS
  File,             \* the files there are
  Sizes,            \* the numbers of blocks a file may have, and each of its strands
  Handler,          \* the requests the node may be serving at a time
  SampleSize,       \* HealthSampleSize
  NumericAddress    \* whether the nodes announce numbers, not names, as their addresses

VARIABLES
  size,             \* [file]: how many it has
  mux,              \* who holds stateMux
  daemon,           \* where the daemon is
  handler,          \* [handler]: where it is
  monitored,        \* the keys of state.files
  view,             \* [file]: the statistics, those of Fresh when it is not monitored
  collabData,       \* [file]: the repair of it this node coordinates
  died,             \* why the process has ended, if it has
  settled           \* history: the files whose START was answered, with no STOP asked since

table == <<monitored, view>>
vars == <<size, mux, daemon, handler, table, collabData, died, settled>>

ASSUME MonitorAssumption ==
  /\ Sizes \subseteq Nat \ {0}
  /\ {"daemon", "free"} \cap Handler = {}
  /\ SampleSize \in Nat \ {0}
  /\ NumericAddress \in BOOLEAN

-----------------------------------------------------------------------------
Block(f) == 0..(size[f] - 1)

Operations == {"start", "stop", "reset"}

\* What the daemon has channels of their own for: a collaborative repair, a part of one, the
\* report of a part, the result of a repair, a strand.
Repairs == {"collab", "unit", "report", "result", "strand"}
Locking == {"view", "list", "health"}
Reading == {"status", "cluster"}      \* checkFileStatus, checkClusterStatus
Timed == {"inspect", "share"}

\* What a request is for. Which file's statistics a handler reads without the lock makes no
\* difference: they are in one table.
Job(kinds) == [kind : kinds \ {"list"}, file : File] \cup [kind : kinds \cap {"list"}]
Asked(kind, f) ==
  IF kind \in {"list", "status", "cluster"} THEN [kind |-> kind] ELSE [kind |-> kind, file |-> f]

NoSteps == [at |-> "select"]
Idle == [at |-> "idle"]

DaemonStates ==
  {NoSteps}
    \cup [at : {"lock", "held"}, job : Job(Operations \cup {"view"})]
    \cup [at : {"lock"}, job : [kind : Timed]]
    \cup [at : {"held"}, job : [kind : Timed], todo : SUBSET File]
    \cup [at : {"repair"}, job : Job(Repairs)]
    \cup [at : {"repair"}, job : Job({"inspect"}), todo : SUBSET File]
    \cup [at : {"stuck"}, inspecting : BOOLEAN]

HandlerStates ==
  {Idle}
    \cup [at : {"send"}, job : Job(Operations \cup Repairs)]
    \cup [at : {"lock", "held"}, job : Job(Locking)]
    \cup [at : {"sendheld"}, job : Job({"view"})]
    \cup [at : {"read"}, job : [kind : Reading]]

\* A file's statistics: the blocks of it that are missing. The regions where some are
\* (potentialFailedRegions) and the blocks that were seen there only make some blocks the
\* likelier to be inspected, as does the estimated probability.
View(f) == [data : SUBSET Block(f), parity : SUBSET Block(f)]
Fresh == [data |-> {}, parity |-> {}]

Init ==
  /\ size \in [File -> Sizes]
  /\ mux = "free" /\ daemon = NoSteps /\ handler = [h \in Handler |-> Idle]
  /\ monitored = {} /\ view = [f \in File |-> Fresh]
  /\ collabData = [f \in File |-> "none"] /\ died = "no"
  /\ settled = {}

-----------------------------------------------------------------------------
(* The mutex, and what happens to the process.                              *)

\* Mutant: the lock is taken whoever has it.
LockAnyway(p) == mux' = p

Lock(p) == mux = "free" /\ mux' = p

Unlock == mux' = "free"

\* With the process end the requests it serves; the rest of its state is left as it was.
Dies(cause) == died' = cause /\ handler' = [h \in Handler |-> Idle]

Survives == died' = "no" /\ UNCHANGED handler

\* The runtime ends the process when it notices that a map is written while a handler
\* that took no lock reads it. It need not notice.
Racing(kinds) == \E h \in Handler : handler[h].at = "read" /\ handler[h].job.kind \in kinds

MayRace(racing) == Survives \/ (racing /\ Dies("race"))

DaemonReturns == daemon' = NoSteps /\ Unlock

-----------------------------------------------------------------------------
(* The handlers.                                                            *)

Entry(kind) ==
  CASE kind \in Operations \cup Repairs -> "send"
    [] kind \in Locking                 -> "lock"
    [] OTHER                            -> "read"

\* A request comes in.
Request(h, kind, f) ==
  /\ handler[h] = Idle
  /\ handler' = [handler EXCEPT ![h] = [at |-> Entry(kind), job |-> Asked(kind, f)]]
  /\ UNCHANGED <<mux, daemon, table, collabData, died>>

Answer(h) == handler' = [handler EXCEPT ![h] = Idle]

\* checkFileStatus, checkClusterStatus: what they read, they read without the lock.
ReadStatus(h) ==
  /\ handler[h].at = "read"
  /\ Answer(h)
  /\ UNCHANGED <<mux, daemon, table, collabData, died>>

HandlerLocks(h) ==
  /\ handler[h].at = "lock"
  /\ Lock(h)
  /\ handler' = [handler EXCEPT ![h].at = "held"]
  /\ UNCHANGED <<daemon, table, collabData, died>>

\* A handler with the lock that has come to its job; deferred, the Unlock comes last.
Serving(h, kind) == handler[h].at = "held" /\ handler[h].job.kind = kind

\* Mutant: a return before the Unlock.
ServedUnreleased(h) == Answer(h) /\ UNCHANGED <<mux, daemon, monitored, collabData, died>>

ServedAndUnlocked(h) == Answer(h) /\ Unlock /\ UNCHANGED <<daemon, monitored, collabData, died>>

ListMonitor(h) ==
  /\ Serving(h, "list")
  /\ ServedAndUnlocked(h)
  /\ UNCHANGED view

\* UpdateView of a monitored file: the blocks another node misses are missed here too.
MergeView(h) ==
  /\ Serving(h, "view")
  /\ LET f == handler[h].job.file IN
       /\ f \in monitored
       /\ \E data \in SUBSET Block(f), parity \in SUBSET Block(f) :
            view' = [view EXCEPT ![f].data = @ \cup data, ![f].parity = @ \cup parity]
  /\ ServedAndUnlocked(h)

\* UpdateView of another: the daemon is to start with it. The lock is held meanwhile.
ViewStarts(h) ==
  /\ Serving(h, "view") /\ handler[h].job.file \notin monitored
  /\ handler' = [handler EXCEPT ![h].at = "sendheld"]
  /\ UNCHANGED <<mux, daemon, table, collabData, died>>

\* ComputeHealth asks the lattice for a sample of the data blocks; of those it does not
\* get it knows the CID or not. It panics when there are too few.
CanSample(f) == size[f] >= SampleSize
ComputeHealth(f, v) ==
  \E sample \in kSubset(SampleSize, Block(f)) :
    \E valid \in SUBSET sample :
      \E named \in SUBSET (sample \ valid) :
        view' = [view EXCEPT ![f] = [v EXCEPT !.data = (@ \ valid) \cup named]]

\* recomputeHealth. Without the file or its lattice nothing is done; a panic is gin's to
\* recover from and the lock is released all the same.
RecomputeHealth(h) ==
  /\ Serving(h, "health")
  /\ LET f == handler[h].job.file IN
       \/ UNCHANGED view
       \/ /\ f \in monitored /\ CanSample(f)
          /\ ComputeHealth(f, view[f])
  /\ ServedAndUnlocked(h)

-----------------------------------------------------------------------------
(* The daemon's select, and the operations it receives.                      *)

\* The rendezvous with a handler that sends, which answers then. Repairs are done without
\* the mutex.
Receive(h) ==
  /\ daemon = NoSteps /\ handler[h].at \in {"send", "sendheld"}
  /\ daemon' = [at  |-> IF handler[h].job.kind \in Repairs THEN "repair" ELSE "lock",
                job |-> handler[h].job]
  /\ mux' = IF handler[h].at = "sendheld" THEN "free" ELSE mux
  /\ Answer(h)
  /\ UNCHANGED <<table, collabData, died>>

Timer(kind) ==
  /\ daemon = NoSteps
  /\ daemon' = [at |-> "lock", job |-> [kind |-> kind]]
  /\ UNCHANGED <<mux, handler, table, collabData, died>>

\* Mutant: the daemon drops the operation when the mutex is taken.
DaemonLocksOrDrops ==
  /\ daemon.at = "lock"
  /\ \/ /\ Lock("daemon")
        /\ daemon' = IF daemon.job.kind \in Timed
                     THEN [at |-> "held", job |-> daemon.job, todo |-> monitored]
                     ELSE [daemon EXCEPT !.at = "held"]
     \/ mux # "free" /\ daemon' = NoSteps /\ UNCHANGED mux
  /\ UNCHANGED <<handler, table, collabData, died>>

\* Both timers' branches go over all the files.
DaemonLocks ==
  /\ daemon.at = "lock"
  /\ Lock("daemon")
  /\ daemon' = IF daemon.job.kind \in Timed
               THEN [at |-> "held", job |-> daemon.job, todo |-> monitored]
               ELSE [daemon EXCEPT !.at = "held"]
  /\ UNCHANGED <<handler, table, collabData, died>>

DaemonDoes(kinds) == daemon.at = "held" /\ daemon.job.kind \in kinds

StartKnown ==
  /\ DaemonDoes({"start", "view"}) /\ daemon.job.file \in monitored
  /\ DaemonReturns
  /\ UNCHANGED <<handler, table, collabData, died>>

\* A view names no metadata: prepareUpdateView has not kept it.
HasMetadata == daemon.job.kind = "start"

Start ==
  /\ DaemonDoes({"start", "view"}) /\ daemon.job.file \notin monitored
  /\ HasMetadata
  /\ monitored' = monitored \cup {daemon.job.file}
  /\ DaemonReturns
  /\ MayRace(Racing({"status", "list"}))
  /\ UNCHANGED <<view, collabData>>

\* Without the metadata the branch is left before its Unlock.
StartFails ==
  /\ DaemonDoes({"start", "view"}) /\ daemon.job.file \notin monitored
  /\ daemon' = NoSteps
  /\ UNCHANGED <<mux, handler, table, collabData, died>>

Stop ==
  /\ DaemonDoes({"stop"})
  /\ monitored' = monitored \ {daemon.job.file}
  /\ view' = [view EXCEPT ![daemon.job.file] = Fresh]
  /\ DaemonReturns
  /\ MayRace(monitored # {} /\ Racing({"status", "list"}))
  /\ UNCHANGED collabData

ResetView(v, isData) == IF isData THEN [v EXCEPT !.data = {}] ELSE [v EXCEPT !.parity = {}]

Reset ==
  /\ DaemonDoes({"reset"}) /\ daemon.job.file \in monitored
  /\ \E isData \in BOOLEAN : view' = [view EXCEPT ![daemon.job.file] = ResetView(@, isData)]
  /\ DaemonReturns
  /\ MayRace(Racing({"status", "list"}))
  /\ UNCHANGED <<monitored, collabData>>

\* The file is not in the table: a nil pointer is dereferenced.
ResetPanics ==
  /\ DaemonDoes({"reset"}) /\ daemon.job.file \notin monitored
  /\ Dies("lookup")
  /\ UNCHANGED <<mux, daemon, table, collabData>>

-----------------------------------------------------------------------------
(* InspectFile, for each file in turn, with the lock.                        *)

\* selectBlockHeuristic: any block, those in a region where some are missing and those that
\* are missing themselves the likelier; or, once one is missing, the Index of a neighbour of
\* a block (pickNeighbour), which counts from one.
Missing(f, isData) == IF isData THEN view[f].data ELSE view[f].parity
Candidates(f, isData) ==
  Block(f) \cup (IF Missing(f, isData) = {} THEN {} ELSE 1..size[f])

\* Mutant: without the safeguard.
UnsafeguardedBlock(f, n) == n

\* The safeguard of InspectFile.
Safeguarded(f, n) == IF n < size[f] - 1 THEN n ELSE size[f] - 1

InspectionOf(f) ==
  /\ DaemonDoes({"inspect"}) /\ f \in daemon.todo

Inspected(f) ==
  /\ daemon' = [daemon EXCEPT !.todo = @ \ {f}]
  /\ UNCHANGED <<mux, monitored, collabData>>

\* repairFile: StartCollabRepair for this node, here and now.
RepairsFile(f) ==
  /\ daemon' = [at |-> "repair", job |-> [kind |-> "inspect", file |-> f], todo |-> daemon.todo \ {f}]
  /\ UNCHANGED <<mux, monitored, collabData>>

\* PrepareRepair fails, or a missing parity's peer is not to be had.
InspectNothing(f) ==
  /\ InspectionOf(f)
  /\ Inspected(f)
  /\ Survives /\ UNCHANGED view

\* An inner node above the data block cannot be had.
InspectUnreachable(f) ==
  /\ InspectionOf(f)
  /\ RepairsFile(f)
  /\ Survives /\ UNCHANGED view

\* An inner node above the parity cannot be had: StartStrandRepair, on the daemon, sends on
\* a channel that only the daemon receives from.
RepairStrandBlocks(f) ==
  /\ InspectionOf(f)
  /\ daemon' = [at |-> "stuck", inspecting |-> TRUE]
  /\ UNCHANGED <<mux, handler, table, collabData, died>>

\* The block is there.
InspectFound(f) ==
  /\ InspectionOf(f)
  /\ \E isData \in BOOLEAN : \E n \in Candidates(f, isData) :
       view' = IF isData THEN [view EXCEPT ![f].data = @ \ {Safeguarded(f, n)}]
               ELSE [view EXCEPT ![f].parity = @ \ {Safeguarded(f, n)}]
  /\ Inspected(f)
  /\ Survives

\* handleMissingBlock, then a new estimate of the health if the estimated probability of
\* a block has got low, and a repair of the file if that has got low.
HealthChecked(f, v, wroteRegions) ==
  \/ /\ view' = [view EXCEPT ![f] = v]
     /\ MayRace(wroteRegions /\ Racing({"cluster"}))
     /\ Inspected(f)
  \/ /\ CanSample(f) /\ ComputeHealth(f, v)
     /\ MayRace(wroteRegions /\ Racing({"cluster"}))
     /\ Inspected(f) \/ RepairsFile(f)
  \/ /\ ~CanSample(f)
     /\ view' = [view EXCEPT ![f] = v]
     /\ Dies("panic")
     /\ Inspected(f)

InspectDataMissing(f) ==
  /\ InspectionOf(f)
  /\ \E n \in Candidates(f, TRUE) :
       HealthChecked(f, [view[f] EXCEPT !.data = @ \cup {Safeguarded(f, n)}], FALSE)

\* A parity's peer is looked up in the cluster, and without an answer that is all; its
\* region, if it has one, is a failed one from now on.
InspectParityMissing(f) ==
  /\ InspectionOf(f)
  /\ \E n \in Candidates(f, FALSE) :
       \/ /\ Safeguarded(f, n) \in view[f].parity
          /\ HealthChecked(f, view[f], FALSE)
       \/ /\ Safeguarded(f, n) \notin view[f].parity
          /\ \E hasRegion \in BOOLEAN :
               HealthChecked(f, [view[f] EXCEPT !.parity = @ \cup {Safeguarded(f, n)}], hasRegion)

\* Both timers' branches end when all files are done.
TimerDone ==
  /\ DaemonDoes(Timed) /\ daemon.todo = {}
  /\ DaemonReturns
  /\ UNCHANGED <<handler, table, collabData, died>>

\* ShareView posts to addresses without "http://": http.Client refuses a name's, and the
\* request cannot be made of a number's, where PostJSON goes on with the nil.
ShareView(f) ==
  /\ DaemonDoes({"share"}) /\ f \in daemon.todo
  /\ daemon' = [daemon EXCEPT !.todo = @ \ {f}]
  /\ Survives \/ (NumericAddress /\ Dies("panic"))
  /\ UNCHANGED <<mux, table, collabData>>

-----------------------------------------------------------------------------
(* What a repair does to the daemon.                                         *)

Repairing(kinds) == daemon.at = "repair" /\ daemon.job.kind \in kinds
Collab == {"collab", "inspect"}

\* A repair with its requests out and reports owed; a finished one has its peers entered
\* still ("ended"), and one that failed before, or found no leaf, none ("none").
Pending(f) == collabData[f] \in {"own", "other"}

\* On with the inspections, or back to the select.
ComesBack ==
  /\ daemon' = IF daemon.job.kind = "inspect"
               THEN [at |-> "held", job |-> [kind |-> "inspect"], todo |-> daemon.todo]
               ELSE NoSteps
  /\ UNCHANGED <<mux, handler, table, died>>

\* StartCollabRepair of a file under repair; or it cannot tell the failed leaves or the
\* peers, or there is no such leaf.
CollabEndsEarly ==
  /\ Repairing(Collab)
  /\ LET f == daemon.job.file IN
       collabData' = IF Pending(f) THEN collabData ELSE [collabData EXCEPT ![f] = "none"]
  /\ ComesBack

\* Or all its requests are out. The Origin of an inspection's is this node; of another, this
\* node too, another, or none.
CollabSent ==
  /\ Repairing(Collab) /\ ~Pending(daemon.job.file)
  /\ \E origin \in IF daemon.job.kind = "inspect" THEN {"own"} ELSE {"own", "other"} :
       collabData' = [collabData EXCEPT ![daemon.job.file] = origin]
  /\ ComesBack

\* Or there is no peer to divide the leaves by, or after a refusal no request left for the
\* peer the loop has come to.
CollabPanics ==
  /\ Repairing(Collab) /\ ~Pending(daemon.job.file)
  /\ Dies("panic")
  /\ UNCHANGED <<mux, daemon, table, collabData>>

\* StartUnitRepair, with its report posted.
UnitRepaired ==
  /\ Repairing({"unit"})
  /\ ComesBack
  /\ UNCHANGED collabData

\* ReportUnitRepair ignores the report, or waits for more of them; or the report is the
\* last, and the Origin, another node or none, has been told. Of a repair that has ended,
\* any further report is the last one again.
UnitReported ==
  /\ Repairing({"report"})
  /\ \/ UNCHANGED collabData
     \/ collabData[daemon.job.file] = "other" /\ collabData' = [collabData EXCEPT ![daemon.job.file] = "ended"]
  /\ ComesBack

\* ContinueStrandRepair, for no strand is ever being repaired when a result comes: the
\* statistics of the file are reset on the nodes that monitor it.
ResultTaken ==
  /\ Repairing({"result"}) /\ daemon.job.file \in monitored
  /\ ComesBack
  /\ UNCHANGED collabData

\* Whose metadata is looked up in this node's table: without the file, a nil pointer.
ResultPanics ==
  /\ Repairing({"result"}) /\ daemon.job.file \notin monitored
  /\ Dies("lookup")
  /\ UNCHANGED <<mux, daemon, table, collabData>>

\* The repairs that post to nodes, or send to the daemon's own channel.
Sends(job) ==
  CASE job.kind \in Collab   -> ~Pending(job.file)
    [] job.kind = "report"   -> collabData[job.file] # "none"
    [] job.kind = "result"   -> job.file \in monitored
    [] OTHER                 -> TRUE

\* A node never answers a post, or refuses it and is asked again for ever; or the post is
\* to this node itself, as is the verdict of its own repair and the reset of a file it
\* monitors; or a strand's repair sends on the channel of the collaborative ones.
NeverComesBack ==
  /\ Repairing(Repairs \cup {"inspect"}) /\ Sends(daemon.job)
  /\ daemon' = [at |-> "stuck", inspecting |-> daemon.job.kind = "inspect"]
  /\ UNCHANGED <<mux, handler, table, collabData, died>>

\* RefreshClient leaves nil for a client when the cluster does not answer, whichever
\* goroutine was the last to refresh it; the daemon's next use of it ends the process.
UsesClient ==
  \/ DaemonDoes({"start", "view"}) /\ daemon.job.file \notin monitored
  \/ DaemonDoes({"inspect"})
  \/ DaemonDoes({"share"}) /\ daemon.todo # {}
  \/ Repairing(Collab \cup {"unit", "strand"})
  \/ Repairing({"result"}) /\ daemon.job.file \in monitored

NoClient ==
  /\ UsesClient
  /\ Dies("panic")
  /\ UNCHANGED <<mux, daemon, table, collabData>>

-----------------------------------------------------------------------------
Inspect(f) ==
  \/ InspectNothing(f) \/ InspectUnreachable(f) \/ RepairStrandBlocks(f)
  \/ InspectFound(f) \/ InspectDataMissing(f) \/ InspectParityMissing(f)

DaemonWithLock ==
  \/ StartKnown \/ Start \/ StartFails \/ Stop \/ Reset \/ ResetPanics \/ TimerDone
  \/ \E f \in File : Inspect(f) \/ ShareView(f)

DaemonRepairs ==
  \/ CollabEndsEarly \/ CollabSent \/ CollabPanics \/ UnitRepaired \/ UnitReported
  \/ ResultTaken \/ ResultPanics \/ NeverComesBack

DaemonStep ==
  \/ DaemonLocks \/ DaemonWithLock \/ DaemonRepairs \/ NoClient
  \/ \E kind \in Timed : Timer(kind)
  \/ \E h \in Handler : Receive(h)

HandlerWithLock(h) == ListMonitor(h) \/ MergeView(h) \/ ViewStarts(h) \/ RecomputeHealth(h)

HandlerStep(h) == HandlerLocks(h) \/ HandlerWithLock(h) \/ ReadStatus(h)

Step ==
  \/ DaemonStep
  \/ \E h \in Handler :
       \/ HandlerStep(h)
       \/ \E kind \in Operations \cup Repairs \cup Locking \cup Reading, f \in File :
            Request(h, kind, f)

\* The daemon takes a START of the file, and its handler answers; a STOP of it is asked for.
StartTaken(f) == daemon = NoSteps /\ daemon'.at = "lock" /\ daemon'.job = Asked("start", f)
StopAsked(f) == \E h \in Handler : handler[h] = [at |-> "send", job |-> Asked("stop", f)]

\* Nothing but a property reads `settled'.
Observe == settled' = {f \in File : (f \in settled \/ StartTaken(f)) /\ ~StopAsked(f)'}

\* With the process everything ends.
Alive(action) == died = "no" /\ action /\ UNCHANGED size /\ Observe

Next == Alive(Step)

\* The select takes any of the channels that are ready and the mutex whoever waits first:
\* nobody waits for ever for what is there again and again. A repair ends one way or
\* another. No fairness of the timers, nor of the requests.
Fairness ==
  /\ SF_vars(Alive(DaemonLocks \/ DaemonWithLock \/ DaemonRepairs))
  /\ \A h \in Handler : SF_vars(Alive(HandlerStep(h) \/ Receive(h)))

Spec == Init /\ [][Next]_vars /\ Fairness

-----------------------------------------------------------------------------
\* The blocks that count as missing, or as seen, are blocks of the file's lattice whatever
\* the inspections and the views of others add; the statistics of a file that is not
\* monitored are gone.
TypeOK ==
  /\ size \in [File -> Sizes]
  /\ mux \in Handler \cup {"free", "daemon"}
  /\ daemon \in DaemonStates
  /\ handler \in [Handler -> HandlerStates]
  /\ monitored \subseteq File
  /\ \A f \in File : view[f] \in View(f) /\ (f \notin monitored => view[f] = Fresh)
  /\ DOMAIN view = File
  /\ collabData \in [File -> {"none", "own", "other", "ended"}]
  /\ died \in {"no", "lookup", "panic", "race"}
  /\ settled \subseteq File

InTable(h) == handler[h].at \in {"held", "sendheld"}

\* The daemon is in a branch that takes the mutex, in a repair begun there if need be.
DaemonHolds ==
  \/ daemon.at = "held"
  \/ daemon.at = "repair" /\ daemon.job.kind = "inspect"
  \/ daemon.at = "stuck" /\ daemon.inspecting

\* The table of monitored files is changed under stateMux alone: never by the daemon while
\* a handler works on it, nor by two handlers.
TableGuarded ==
  /\ DaemonHolds => \A h \in Handler : ~InTable(h)
  /\ \A g, h \in Handler : InTable(g) /\ InTable(h) => g = h

\* The mutex was kept by a daemon that has left its branch.
LockLeaked == mux = "daemon" /\ ~DaemonHolds

\* A handler holds it and waits for the daemon, which waits for the mutex.
Embraced == daemon.at = "lock" /\ mux \in Handler /\ handler[mux].at = "sendheld"

Wedged == LockLeaked \/ Embraced \/ daemon.at = "stuck" \/ died # "no"

StartsNow(f) == daemon.at \in {"lock", "held"} /\ daemon.job = Asked("start", f)

\* A START that was answered takes effect before anything else is done: until a STOP of the
\* file is asked for, the file is monitored, unless the START failed and leaked the mutex. So
\* no RESET and no result of a repair finds such a file missing from the table and ends the
\* process (daemon.go:96, server.go:293), whatever was waiting when the START was taken.
AnsweredStartHolds ==
  /\ \A f \in settled : f \in monitored \/ StartsNow(f) \/ LockLeaked
  /\ died = "lookup" /\ daemon.job.file \in settled => LockLeaked

\* There is no way out of a wedged node but to restart it: no request, timer or answer
\* brings one back that leaked its mutex, holds it against its own daemon, waits in a repair
\* for itself or for a node that never answers, or is dead (daemon.go, viewshare.go:97,
\* repair.go:436, 477, server.go:320: nothing times out and nothing is undone).
WedgedForGood == [][Wedged => Wedged']_vars

\* Each request is answered in the end, unless the node gets wedged: the lock leaked by a
\* START without metadata, a view and the daemon waiting for each other, the daemon in a
\* repair it never comes back from, or the process dead.
RequestsServed == \A h \in Handler : handler[h] # Idle ~> (handler[h] = Idle \/ Wedged)
=============================================================================
