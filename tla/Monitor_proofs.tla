----------------------------- MODULE Monitor_proofs -----------------------------
(***************************************************************************)
(* The safety properties of the monitoring node, proved for every number   *)
(* of files, of blocks and of requests at a time.                          *)
(***************************************************************************)
EXTENDS Monitor, TLAPS

\* Whoever works on the table holds the mutex.
Guard ==
  /\ DaemonHolds => mux = "daemon"
  /\ \A h \in Handler : InTable(h) => mux = h

\* The files a timer's branch has left are still monitored: only the daemon removes one.
TodoMonitored ==
  /\ daemon.at = "held" /\ daemon.job.kind \in Timed => daemon.todo \subseteq monitored
  /\ daemon.at = "repair" /\ daemon.job.kind = "inspect" => daemon.todo \subseteq monitored

\* No START is answered past a STOP that waits or is under way.
StopsNow(f) == daemon.at \in {"lock", "held"} /\ daemon.job = Asked("stop", f)
NoStop == \A f \in settled : ~StopAsked(f) /\ ~StopsNow(f)

IInv == TypeOK /\ Guard /\ TodoMonitored /\ NoStop /\ AnsweredStartHolds

-----------------------------------------------------------------------------
(* What the states of the daemon and of the handlers are made of.            *)

LEMMA DaemonFields ==
  ASSUME daemon \in DaemonStates
  PROVE  /\ daemon.at \in {"select", "lock", "held", "repair", "stuck"}
         /\ daemon.at = "select" => daemon = NoSteps
         /\ daemon.at \in {"lock", "held"} /\ daemon.job.kind \notin Timed =>
              daemon \in [at : {"lock", "held"}, job : Job(Operations \cup {"view"})]
         /\ daemon.at = "held" /\ daemon.job.kind \in Timed =>
              daemon \in [at : {"held"}, job : [kind : Timed], todo : SUBSET File]
         /\ daemon.at = "lock" /\ daemon.job.kind \in Timed =>
              daemon \in [at : {"lock"}, job : [kind : Timed]]
         /\ daemon.at = "repair" /\ daemon.job.kind # "inspect" =>
              daemon \in [at : {"repair"}, job : Job(Repairs)]
         /\ daemon.at = "repair" /\ daemon.job.kind = "inspect" =>
              daemon \in [at : {"repair"}, job : Job({"inspect"}), todo : SUBSET File]
  BY DEF DaemonStates, NoSteps, Job, Operations, Timed, Repairs

LEMMA HandlerFields ==
  ASSUME NEW h \in Handler, handler[h] \in HandlerStates
  PROVE  /\ handler[h].at \in {"idle", "send", "lock", "held", "sendheld", "read"}
         /\ handler[h].at = "send" =>
              handler[h] \in [at : {"send"}, job : Job(Operations \cup Repairs)]
         /\ handler[h].at \in {"lock", "held"} =>
              handler[h] \in [at : {"lock", "held"}, job : Job(Locking)]
         /\ handler[h].at = "sendheld" =>
              handler[h] \in [at : {"sendheld"}, job : Job({"view"})]
         /\ handler[h].at = "read" => handler[h].job.kind \in Reading
  BY DEF HandlerStates, Idle

LEMMA InitInv == Init => IInv
  <1> SUFFICES ASSUME Init PROVE IInv
    OBVIOUS
  <1>1. TypeOK
    BY MonitorAssumption
    DEF Init, TypeOK, DaemonStates, HandlerStates, NoSteps, Idle, View, Block, Fresh
  <1>2. Guard /\ TodoMonitored /\ NoStop /\ AnsweredStartHolds
    BY DEF Init, Guard, TodoMonitored, NoStop, AnsweredStartHolds, DaemonHolds, InTable, NoSteps, Idle
  <1> QED
    BY <1>1, <1>2 DEF IInv

-----------------------------------------------------------------------------
(* Steps in general. Live is what every step starts from.                    *)

Live == IInv /\ died = "no" /\ Observe /\ UNCHANGED size

\* The handlers go on, or end with the process.
HandlersStay == UNCHANGED handler \/ handler' = [h \in Handler |-> Idle]

\* The process goes on or ends, over no file that is looked up.
Ending == Survives \/ Dies("panic") \/ Dies("race")

\* A step that takes no START and begins no STOP keeps the answered ones in force if it
\* keeps the table, the START under way and the leak.
LEMMA Settling ==
  ASSUME Live,
         \A f \in File : ~StartTaken(f) /\ (StopsNow(f)' => StopsNow(f)),
         \A f \in settled : f \in monitored \/ StartsNow(f) \/ LockLeaked
                              => f \in monitored' \/ StartsNow(f)' \/ LockLeaked',
         died' = "lookup" => daemon' = daemon /\ (daemon.job.file \notin settled \/ LockLeaked')
  PROVE  settled' \subseteq File /\ NoStop' /\ AnsweredStartHolds'
  <1>1. \A f \in settled' : f \in File /\ f \in settled /\ ~StopAsked(f)'
    BY DEF Live, Observe
  <1> QED
    BY <1>1 DEF Live, IInv, NoStop, AnsweredStartHolds

\* A step of one handler that keeps the rest of the state in order.
LEMMA HandlerMoves ==
  ASSUME Live, NEW h \in Handler, NEW s \in HandlerStates,
         handler' = [handler EXCEPT ![h] = s],
         UNCHANGED <<daemon, monitored, collabData, died>>,
         mux' \in Handler \cup {"free", "daemon"},
         \A f \in File : view'[f] \in View(f) /\ (f \notin monitored => view'[f] = Fresh),
         DOMAIN view' = File,
         s.at \in {"held", "sendheld"} => mux' = h,
         mux' = mux \/ (mux = "free" /\ mux' = h) \/ (mux = h /\ mux' = "free")
  PROVE  IInv'
  <1> USE MonitorAssumption DEF IInv, Live
  <1>1. settled' \subseteq File /\ NoStop' /\ AnsweredStartHolds'
    <2>1. \A f \in File : ~StartTaken(f) /\ (StopsNow(f)' => StopsNow(f))
      BY DEF StartTaken, StopsNow, NoSteps
    <2>2. (LockLeaked => LockLeaked') /\ \A f \in File : StartsNow(f) => StartsNow(f)'
      BY DEF LockLeaked, DaemonHolds, StartsNow
    <2> QED
      BY <2>1, <2>2, Settling DEF TypeOK
  <1>2. TypeOK'
    BY <1>1 DEF TypeOK, View, Block
  <1>3. Guard'
    BY DEF TypeOK, Guard, InTable, DaemonHolds
  <1>4. TodoMonitored'
    BY DEF TodoMonitored
  <1> QED
    BY <1>1, <1>2, <1>3, <1>4

\* A step of the daemon that leaves the mutex and the files monitored alone.
LEMMA DaemonMoves ==
  ASSUME Live, UNCHANGED <<mux, monitored>>, HandlersStay,
         \A f \in File : view'[f] \in View(f) /\ (f \notin monitored => view'[f] = Fresh),
         DOMAIN view' = File,
         collabData' \in [File -> {"none", "own", "other", "ended"}],
         died' \in {"no", "lookup", "panic", "race"},
         daemon' \in DaemonStates, DaemonHolds' <=> DaemonHolds, TodoMonitored',
         \A f \in File : /\ ~StartTaken(f)
                         /\ StartsNow(f) => StartsNow(f)'
                         /\ StopsNow(f)' => StopsNow(f),
         died' = "lookup" => /\ daemon' = daemon /\ daemon.job.file \notin monitored
                             /\ \A f \in File : ~StartsNow(f)
  PROVE  IInv'
  <1> USE MonitorAssumption DEF IInv, Live
  <1>1. settled' \subseteq File /\ NoStop' /\ AnsweredStartHolds'
    <2>1. LockLeaked => LockLeaked'
      BY DEF LockLeaked
    <2>2. ASSUME died' = "lookup", daemon.job.file \in settled PROVE LockLeaked'
      BY <2>1, <2>2 DEF AnsweredStartHolds, TypeOK
    <2> QED
      BY <2>1, <2>2, Settling DEF TypeOK
  <1>2. TypeOK'
    BY <1>1 DEF TypeOK, View, Block, HandlersStay, HandlerStates
  <1>3. Guard'
    BY DEF Guard, InTable, HandlersStay, Idle
  <1> QED
    BY <1>1, <1>2, <1>3

-----------------------------------------------------------------------------
(* The handlers.                                                             *)

LEMMA RequestInv ==
  ASSUME Live, NEW h \in Handler, NEW f \in File,
         NEW kind \in Operations \cup Repairs \cup Locking \cup Reading, Request(h, kind, f)
  PROVE  IInv'
  <1>1. [at |-> Entry(kind), job |-> Asked(kind, f)] \in HandlerStates
    BY DEF Entry, Asked, Job, HandlerStates, Operations, Repairs, Locking, Reading
  <1>2. Entry(kind) \notin {"held", "sendheld"}
    BY DEF Entry
  <1> QED
    BY <1>1, <1>2, HandlerMoves DEF Live, IInv, TypeOK, Request, table

LEMMA ReadStatusInv ==
  ASSUME Live, NEW h \in Handler, ReadStatus(h) PROVE IInv'
  <1>1. Idle \in HandlerStates /\ Idle.at = "idle"
    BY DEF HandlerStates, Idle
  <1> QED
    BY <1>1, HandlerMoves DEF Live, IInv, TypeOK, ReadStatus, Answer, table

LEMMA HandlerLocksInv ==
  ASSUME Live, NEW h \in Handler, HandlerLocks(h) PROVE IInv'
  <1>1. handler[h] \in [at : {"lock", "held"}, job : Job(Locking)]
    BY HandlerFields DEF Live, IInv, TypeOK, HandlerLocks
  <1> DEFINE s == [handler[h] EXCEPT !.at = "held"]
  <1>2. s \in HandlerStates /\ s.at = "held"
    BY <1>1 DEF HandlerStates
  <1>3. handler' = [handler EXCEPT ![h] = s] /\ mux = "free" /\ mux' = h
    BY DEF HandlerLocks, Lock
  <1> HIDE DEF s
  <1> QED
    BY <1>2, <1>3, HandlerMoves DEF Live, IInv, TypeOK, HandlerLocks, table

\* A handler that answers and releases the mutex.
LEMMA ServedInv ==
  ASSUME Live, NEW h \in Handler, handler[h].at = "held", ServedAndUnlocked(h),
         \A f \in File : view'[f] \in View(f) /\ (f \notin monitored => view'[f] = Fresh),
         DOMAIN view' = File
  PROVE  IInv'
  <1>1. Idle \in HandlerStates /\ Idle.at = "idle"
    BY DEF HandlerStates, Idle
  <1>2. mux = h
    BY DEF Live, IInv, Guard, InTable
  <1> QED
    BY <1>1, <1>2, HandlerMoves DEF Live, IInv, TypeOK, ServedAndUnlocked, Answer, Unlock

LEMMA ListMonitorInv ==
  ASSUME Live, NEW h \in Handler, ListMonitor(h) PROVE IInv'
  BY ServedInv DEF Live, IInv, TypeOK, ListMonitor, Serving

LEMMA MergeViewInv ==
  ASSUME Live, NEW h \in Handler, MergeView(h) PROVE IInv'
  <1> DEFINE f == handler[h].job.file
  <1>1. f \in monitored /\ f \in File
    BY DEF MergeView, Live, IInv, TypeOK
  <1>2. PICK data \in SUBSET Block(f), parity \in SUBSET Block(f) :
          view' = [view EXCEPT ![f].data = @ \cup data, ![f].parity = @ \cup parity]
    BY DEF MergeView
  <1>3. /\ \A g \in File : view'[g] \in View(g) /\ (g \notin monitored => view'[g] = Fresh)
        /\ DOMAIN view' = File
    BY <1>1, <1>2 DEF Live, IInv, TypeOK, View
  <1> QED
    BY <1>3, ServedInv DEF MergeView, Serving

LEMMA ViewStartsInv ==
  ASSUME Live, NEW h \in Handler, ViewStarts(h) PROVE IInv'
  <1>1. handler[h] \in [at : {"lock", "held"}, job : Job(Locking)] /\ handler[h].job.kind = "view"
    BY HandlerFields DEF Live, IInv, TypeOK, ViewStarts, Serving
  <1> DEFINE s == [handler[h] EXCEPT !.at = "sendheld"]
  <1>2. s \in HandlerStates /\ s.at = "sendheld"
    BY <1>1 DEF HandlerStates, Job, Locking
  <1>3. handler' = [handler EXCEPT ![h] = s] /\ mux' = h /\ mux' = mux
    BY DEF ViewStarts, Serving, Live, IInv, Guard, InTable
  <1> HIDE DEF s
  <1> QED
    BY <1>2, <1>3, HandlerMoves DEF Live, IInv, TypeOK, ViewStarts, table

\* ComputeHealth changes the data blocks noted as missing of one file, to blocks it has.
LEMMA ComputeHealthView ==
  ASSUME TypeOK, NEW f \in monitored, NEW v \in View(f), ComputeHealth(f, v)
  PROVE  /\ \A g \in File : view'[g] \in View(g) /\ (g \notin monitored => view'[g] = Fresh)
         /\ DOMAIN view' = File
  <1>1. PICK sample \in kSubset(SampleSize, Block(f)) :
          \E valid \in SUBSET sample : \E named \in SUBSET (sample \ valid) :
            view' = [view EXCEPT ![f] = [v EXCEPT !.data = (@ \ valid) \cup named]]
    BY DEF ComputeHealth
  <1>a. PICK valid \in SUBSET sample : \E named \in SUBSET (sample \ valid) :
          view' = [view EXCEPT ![f] = [v EXCEPT !.data = (@ \ valid) \cup named]]
    BY <1>1
  <1>b. PICK named \in SUBSET (sample \ valid) :
          view' = [view EXCEPT ![f] = [v EXCEPT !.data = (@ \ valid) \cup named]]
    BY <1>a
  <1>2. [v EXCEPT !.data = (@ \ valid) \cup named] \in View(f)
    BY <1>1 DEF View, kSubset
  <1> QED
    BY <1>b, <1>2 DEF TypeOK

LEMMA RecomputeHealthInv ==
  ASSUME Live, NEW h \in Handler, RecomputeHealth(h) PROVE IInv'
  <1>1. handler[h].at = "held" /\ ServedAndUnlocked(h)
    BY DEF RecomputeHealth, Serving
  <1>2. CASE UNCHANGED view
    BY <1>1, <1>2, ServedInv DEF Live, IInv, TypeOK
  <1>3. CASE handler[h].job.file \in monitored /\ ComputeHealth(handler[h].job.file, view[handler[h].job.file])
    <2>1. view[handler[h].job.file] \in View(handler[h].job.file)
      BY <1>3 DEF Live, IInv, TypeOK
    <2>2. /\ \A g \in File : view'[g] \in View(g) /\ (g \notin monitored => view'[g] = Fresh)
          /\ DOMAIN view' = File
      BY <1>3, <2>1, ComputeHealthView DEF Live, IInv
    <2> QED
      BY <1>1, <2>2, ServedInv
  <1> QED
    BY <1>2, <1>3 DEF RecomputeHealth

-----------------------------------------------------------------------------
(* The daemon at its select and at the mutex.                                *)

LEMMA ReceiveInv ==
  ASSUME Live, NEW h \in Handler, Receive(h) PROVE IInv'
  <1> USE MonitorAssumption DEF IInv, Live
  <1> DEFINE job == handler[h].job
  <1>0. \/ /\ handler[h].at = "send" /\ job \in Job(Operations \cup Repairs)
           /\ handler[h] = [at |-> "send", job |-> job]
        \/ handler[h].at = "sendheld" /\ job \in Job({"view"}) /\ mux = h
    BY HandlerFields DEF TypeOK, Receive, Guard, InTable
  <1>1. /\ daemon' \in DaemonStates /\ daemon'.at \in {"lock", "repair"} /\ daemon'.job = job
        /\ job.kind # "inspect" /\ ~DaemonHolds'
    BY <1>0 DEF Receive, DaemonStates, DaemonHolds, Job, Operations, Repairs
  <1>2. handler' = [handler EXCEPT ![h] = Idle] /\ Idle \in HandlerStates
    BY DEF Receive, Answer, HandlerStates
  <1>3. \A f \in settled' : f \in File /\ (f \in settled \/ StartTaken(f)) /\ ~StopAsked(f)'
    BY DEF Observe
  <1>4. TypeOK'
    BY <1>1, <1>2, <1>3 DEF TypeOK, Receive, View, Block, table
  <1>5. Guard' /\ TodoMonitored'
    BY <1>0, <1>1, <1>2 DEF TypeOK, Guard, TodoMonitored, InTable, Receive, Idle
  <1>6. ASSUME NEW f \in settled', StopsNow(f)' PROVE FALSE
    <2>1. handler[h] = [at |-> "send", job |-> Asked("stop", f)]
      BY <1>0, <1>1, <1>6 DEF StopsNow, Asked, Job
    <2>2. StopAsked(f)
      BY <2>1 DEF StopAsked
    <2>3. StartTaken(f)
      BY <1>3, <2>2 DEF NoStop
    <2> QED
      BY <1>6, <2>3 DEF StartTaken, StopsNow, Asked
  <1>7. ASSUME NEW f \in settled' PROVE f \in monitored' \/ StartsNow(f)' \/ LockLeaked'
    <2>1. CASE StartTaken(f)
      BY <2>1 DEF StartTaken, StartsNow, Asked
    <2>2. CASE f \in settled
      <3>1. ~StartsNow(f)
        BY DEF Receive, NoSteps, StartsNow
      <3>2. LockLeaked => LockLeaked'
        BY <1>0, <1>1 DEF LockLeaked, Receive
      <3> QED
        BY <2>2, <3>1, <3>2 DEF AnsweredStartHolds, Receive, table
    <2> QED
      BY <1>3, <2>1, <2>2
  <1>8. NoStop' /\ AnsweredStartHolds'
    BY <1>3, <1>6, <1>7 DEF NoStop, AnsweredStartHolds, Receive
  <1> QED
    BY <1>4, <1>5, <1>8

LEMMA TimerInv ==
  ASSUME Live, NEW kind \in Timed, Timer(kind) PROVE IInv'
  <1> USE DEF IInv, Live
  <1>1. daemon = NoSteps /\ daemon' = [at |-> "lock", job |-> [kind |-> kind]]
    BY DEF Timer
  <1>2. /\ daemon' \in DaemonStates /\ ~DaemonHolds /\ ~DaemonHolds' /\ TodoMonitored'
        /\ \A f \in File : ~StartTaken(f) /\ ~StartsNow(f) /\ ~StopsNow(f)'
    BY <1>1 DEF DaemonStates, DaemonHolds, TodoMonitored, StartTaken, StartsNow, StopsNow,
                NoSteps, Asked, Timed
  <1> QED
    BY <1>2, DaemonMoves DEF TypeOK, Timer, HandlersStay, table

LEMMA DaemonLocksInv ==
  ASSUME Live, DaemonLocks PROVE IInv'
  <1> USE MonitorAssumption DEF IInv, Live
  <1>1. /\ daemon' \in DaemonStates /\ daemon'.at = "held" /\ daemon'.job = daemon.job
        /\ daemon'.job.kind \in Timed => daemon'.todo = monitored
    <2>1. CASE daemon.job.kind \in Timed
      BY <2>1, DaemonFields DEF TypeOK, DaemonLocks, DaemonStates
    <2>2. CASE daemon.job.kind \notin Timed
      BY <2>2, DaemonFields DEF TypeOK, DaemonLocks, DaemonStates
    <2> QED
      BY <2>1, <2>2
  <1>2. /\ daemon.at = "lock" /\ mux = "free" /\ mux' = "daemon"
        /\ UNCHANGED <<handler, monitored, view, collabData, died>>
    BY DEF DaemonLocks, Lock, table
  <1>3. settled' \subseteq File /\ NoStop' /\ AnsweredStartHolds'
    <2>1. ~LockLeaked
      BY <1>2 DEF LockLeaked
    <2>2. \A f \in File : /\ ~StartTaken(f) /\ (StopsNow(f)' => StopsNow(f))
                          /\ StartsNow(f) => StartsNow(f)'
      BY <1>1, <1>2 DEF StartTaken, StopsNow, StartsNow, NoSteps
    <2> QED
      BY <1>2, <2>1, <2>2, Settling DEF TypeOK
  <1>4. TypeOK'
    BY <1>1, <1>2, <1>3 DEF TypeOK, View, Block
  <1>5. Guard' /\ TodoMonitored'
    BY <1>1, <1>2 DEF TypeOK, Guard, InTable, DaemonHolds, TodoMonitored
  <1> QED
    BY <1>3, <1>4, <1>5

-----------------------------------------------------------------------------
(* The operations.                                                           *)

\* The daemon returns to its select with the table in order, having written it or not.
LEMMA ReturnsInv ==
  ASSUME Live, daemon.at = "held", daemon' = NoSteps,
         mux' \in {"free", mux}, UNCHANGED collabData,
         monitored' \subseteq File,
         \A f \in File : view'[f] \in View(f) /\ (f \notin monitored' => view'[f] = Fresh),
         DOMAIN view' = File,
         \A f \in settled : f \in monitored \/ StartsNow(f) => f \in monitored' \/ mux' = mux,
         MayRace(Racing({"status", "list"}))
  PROVE  IInv'
  <1> USE MonitorAssumption DEF IInv, Live
  <1>1. mux = "daemon" /\ ~LockLeaked /\ ~DaemonHolds'
    BY DEF Guard, DaemonHolds, LockLeaked, NoSteps
  <1>2. settled' \subseteq File /\ NoStop' /\ AnsweredStartHolds'
    <2>1. \A f \in File : ~StartTaken(f) /\ ~StopsNow(f)'
      BY DEF StartTaken, StopsNow, NoSteps
    <2>2. mux' = mux => LockLeaked'
      BY <1>1 DEF LockLeaked
    <2>3. died' # "lookup"
      BY DEF MayRace, Survives, Dies
    <2> QED
      BY <1>1, <2>1, <2>2, <2>3, Settling
  <1>3. TypeOK'
    BY <1>2 DEF TypeOK, MayRace, Survives, Dies, HandlerStates, DaemonStates, View, Block
  <1>4. Guard' /\ TodoMonitored'
    BY <1>1 DEF TypeOK, Guard, InTable, TodoMonitored, NoSteps, MayRace, Survives, Dies, Idle
  <1> QED
    BY <1>2, <1>3, <1>4

LEMMA OperationInv ==
  ASSUME Live, StartKnown \/ Start \/ StartFails \/ Stop \/ Reset \/ TimerDone PROVE IInv'
  <1> USE DEF Live, IInv
  <1>0. daemon.at = "held" /\ daemon.job.kind \notin Timed => daemon.job.file \in File
    BY DaemonFields DEF TypeOK, Job, Operations, Timed
  <1>1. \A f \in settled : StartsNow(f) => daemon.job.kind = "start" /\ daemon.job.file = f
    BY DEF StartsNow, Asked
  <1>2. CASE StartKnown \/ TimerDone
    <2>1. \A f \in settled : f \in monitored \/ StartsNow(f) => f \in monitored'
      BY <1>1, <1>2 DEF StartKnown, TimerDone, DaemonDoes, table, Timed
    <2> QED
      BY <1>2, <2>1, ReturnsInv
      DEF StartKnown, TimerDone, DaemonDoes, DaemonReturns, Unlock, MayRace, Survives, TypeOK, table
  <1>3. CASE StartFails
    BY <1>3, ReturnsInv DEF StartFails, DaemonDoes, MayRace, Survives, TypeOK, table
  <1>4. CASE Start
    <2>1. \A f \in settled : f \in monitored \/ StartsNow(f) => f \in monitored'
      BY <1>1, <1>4 DEF Start
    <2> QED
      BY <1>0, <1>4, <2>1, ReturnsInv DEF Start, DaemonDoes, DaemonReturns, Unlock, TypeOK, Timed
  <1>5. CASE Stop
    <2>1. /\ monitored' \subseteq File /\ DOMAIN view' = File
          /\ \A f \in File : view'[f] \in View(f) /\ (f \notin monitored' => view'[f] = Fresh)
      BY <1>0, <1>5 DEF Stop, DaemonDoes, TypeOK, Timed, View, Fresh
    <2>2. ASSUME NEW f \in settled, f \in monitored \/ StartsNow(f) PROVE f \in monitored'
      <3>1. daemon.at = "held" /\ daemon.job \in Job(Operations \cup {"view"})
            /\ daemon.job.kind = "stop"
        BY <1>5, DaemonFields DEF Stop, DaemonDoes, TypeOK, Timed
      <3>2. daemon.job = Asked("stop", daemon.job.file)
        BY <3>1 DEF Job, Asked
      <3>3. f # daemon.job.file
        BY <3>1, <3>2 DEF NoStop, StopsNow
      <3> QED
        BY <1>1, <1>5, <2>2, <3>1, <3>3 DEF Stop
    <2> QED
      BY <1>5, <2>1, <2>2, ReturnsInv DEF Stop, DaemonDoes, DaemonReturns, Unlock, MayRace
  <1>6. CASE Reset
    <2> DEFINE g == daemon.job.file
    <2>a. PICK isData \in BOOLEAN : view' = [view EXCEPT ![g] = ResetView(view[g], isData)]
      BY <1>6 DEF Reset
    <2>b. g \in monitored /\ g \in File /\ monitored' = monitored
      BY <1>6 DEF Reset, TypeOK
    <2>c. \A f \in settled : ~StartsNow(f)
      BY <1>1, <1>6 DEF Reset, DaemonDoes
    <2> HIDE DEF g
    <2>d. ResetView(view[g], isData) \in View(g)
      BY <2>b DEF ResetView, TypeOK, View
    <2>1. /\ DOMAIN view' = File
          /\ \A f \in File : view'[f] \in View(f) /\ (f \notin monitored' => view'[f] = Fresh)
      BY <2>a, <2>b, <2>d DEF TypeOK
    <2> QED
      BY <1>6, <2>b, <2>c, <2>1, ReturnsInv DEF Reset, DaemonDoes, DaemonReturns, Unlock, TypeOK
  <1> QED
    BY <1>2, <1>3, <1>4, <1>5, <1>6

\* A step that only ends the process, over a file that is looked up in vain or not.
LEMMA EndsInv ==
  ASSUME Live, UNCHANGED <<mux, daemon, table, collabData>>,
         daemon # NoSteps,
         \/ Dies("panic")
         \/ /\ Dies("lookup") /\ daemon.job.file \notin monitored
            /\ daemon.job.kind # "start"
  PROVE  IInv'
  <1> USE DEF Live, IInv
  <1>1. /\ DaemonHolds' <=> DaemonHolds
        /\ TodoMonitored'
        /\ \A f \in File : ~StartTaken(f) /\ (StartsNow(f) => StartsNow(f)')
                           /\ (StopsNow(f)' => StopsNow(f))
    BY DEF DaemonHolds, TodoMonitored, StartTaken, StartsNow, StopsNow, table
  <1>2. died' = "lookup" => daemon.job.file \notin monitored /\ \A f \in File : ~StartsNow(f)
    BY DEF StartsNow, Asked, Dies
  <1>3. HandlersStay /\ died' \in {"lookup", "panic"}
    BY DEF HandlersStay, Dies
  <1> QED
    BY <1>1, <1>2, <1>3, DaemonMoves DEF TypeOK, table

LEMMA PanicsInv ==
  ASSUME Live, ResetPanics \/ NoClient \/ CollabPanics \/ ResultPanics PROVE IInv'
  BY EndsInv DEF ResetPanics, NoClient, UsesClient, CollabPanics, ResultPanics, DaemonDoes,
                 Repairing, NoSteps

-----------------------------------------------------------------------------
(* The timers' branches, and the repairs.                                    *)

\* On in a timer's branch, with or without a repair, or in a repair.
LEMMA GoesOnInv ==
  ASSUME Live, UNCHANGED <<mux, monitored>>, Ending,
         daemon.at \in {"held", "repair"},
         daemon.at = "held" => daemon.job.kind \in Timed,
         daemon' \in DaemonStates,
         daemon'.at # "lock",
         daemon'.at = "held" => daemon'.job.kind \in Timed,
         DaemonHolds' <=> DaemonHolds, TodoMonitored',
         \A f \in File : view'[f] \in View(f) /\ (f \notin monitored => view'[f] = Fresh),
         DOMAIN view' = File,
         collabData' \in [File -> {"none", "own", "other", "ended"}]
  PROVE  IInv'
  <1>1. \A f \in File : ~StartTaken(f) /\ ~StartsNow(f) /\ ~StopsNow(f)'
    BY DEF StartTaken, StartsNow, StopsNow, NoSteps, Asked, Timed
  <1>2. HandlersStay /\ died' \in {"no", "panic", "race"}
    BY DEF Ending, Survives, Dies, HandlersStay
  <1> QED
    BY <1>1, <1>2, DaemonMoves

LEMMA ShareViewInv ==
  ASSUME Live, NEW f \in File, ShareView(f) PROVE IInv'
  <1> USE DEF IInv, Live
  <1>1. /\ daemon.at = "held" /\ daemon.job.kind \in Timed
        /\ daemon' \in DaemonStates /\ daemon'.at = "held"
        /\ daemon'.todo \subseteq daemon.todo /\ daemon'.job = daemon.job
    BY DaemonFields DEF ShareView, DaemonDoes, TypeOK, DaemonStates, Timed
  <1>2. TodoMonitored' /\ DaemonHolds /\ DaemonHolds'
    BY <1>1 DEF TodoMonitored, DaemonHolds, ShareView, table
  <1> QED
    BY <1>1, <1>2, GoesOnInv DEF ShareView, Ending, TypeOK, table

\* An inspection that goes on to the next file or repairs this one, with its statistics in
\* order.
LEMMA InspectedInv ==
  ASSUME Live, NEW f \in File, InspectionOf(f), Inspected(f) \/ RepairsFile(f),
         \A g \in File : view'[g] \in View(g) /\ (g \notin monitored => view'[g] = Fresh),
         DOMAIN view' = File,
         Ending
  PROVE  IInv'
  <1> USE DEF IInv, Live
  <1>1. /\ daemon \in [at : {"held"}, job : [kind : Timed], todo : SUBSET File]
        /\ daemon.job.kind = "inspect" /\ daemon.todo \subseteq monitored
    BY DaemonFields DEF InspectionOf, DaemonDoes, TypeOK, Timed, TodoMonitored
  <1>2. /\ daemon' \in DaemonStates /\ daemon'.job.kind = "inspect"
        /\ daemon'.todo = daemon.todo \ {f} /\ daemon'.at \in {"held", "repair"}
    BY <1>1 DEF Inspected, RepairsFile, DaemonStates, Job
  <1>3. DaemonHolds /\ DaemonHolds' /\ TodoMonitored'
    BY <1>1, <1>2 DEF DaemonHolds, TodoMonitored, Inspected, RepairsFile
  <1> QED
    BY <1>1, <1>2, <1>3, GoesOnInv DEF Inspected, RepairsFile, TypeOK, Timed

\* What the safeguard is for.
LEMMA SafeguardedBlock ==
  ASSUME TypeOK, NEW f \in File, NEW isData \in BOOLEAN, NEW n \in Candidates(f, isData)
  PROVE  Safeguarded(f, n) \in Block(f)
  <1>0. size[f] \in Nat \ {0}
    BY MonitorAssumption DEF TypeOK
  <1>1. n \in 0..(size[f] - 1) \/ n \in 1..size[f]
    BY DEF Candidates, Block
  <1> QED
    BY <1>0, <1>1 DEF Safeguarded, Block

\* A health check leaves the statistics those the inspection has made, but for data blocks
\* of the sample.
LEMMA HealthCheckedView ==
  ASSUME TypeOK, NEW f \in monitored, NEW v \in View(f), NEW wrote \in BOOLEAN,
         HealthChecked(f, v, wrote)
  PROVE  /\ \A g \in File : view'[g] \in View(g) /\ (g \notin monitored => view'[g] = Fresh)
         /\ DOMAIN view' = File
         /\ Ending
         /\ Inspected(f) \/ RepairsFile(f)
  <1>1. /\ \A g \in File : view'[g] \in View(g) /\ (g \notin monitored => view'[g] = Fresh)
        /\ DOMAIN view' = File
    <2>1. CASE view' = [view EXCEPT ![f] = v]
      BY <2>1 DEF TypeOK
    <2>2. CASE ComputeHealth(f, v)
      BY <2>2, ComputeHealthView
    <2> QED
      BY <2>1, <2>2 DEF HealthChecked
  <1> QED
    BY <1>1 DEF HealthChecked, MayRace, Ending

LEMMA InspectInv ==
  ASSUME Live, NEW f \in File, Inspect(f) PROVE IInv'
  <1> USE DEF IInv, Live
  <1>0. view[f] \in View(f) /\ (InspectionOf(f) => f \in monitored)
    BY DEF TypeOK, InspectionOf, DaemonDoes, TodoMonitored, Timed
  <1>1. CASE InspectNothing(f) \/ InspectUnreachable(f)
    BY <1>1, InspectedInv DEF InspectNothing, InspectUnreachable, Ending, TypeOK
  <1>2. CASE RepairStrandBlocks(f)
    <2>1. /\ daemon' \in DaemonStates /\ daemon'.at = "stuck"
          /\ daemon.at = "held" /\ daemon.job.kind \in Timed
          /\ DaemonHolds /\ DaemonHolds' /\ TodoMonitored'
      BY <1>2 DEF RepairStrandBlocks, InspectionOf, DaemonDoes, DaemonStates, DaemonHolds,
                  TodoMonitored, Job, Timed
    <2> QED
      BY <1>2, <2>1, GoesOnInv DEF RepairStrandBlocks, Ending, Survives, TypeOK, table
  <1>3. CASE InspectFound(f)
    <2>1. PICK isData \in BOOLEAN : \E n \in Candidates(f, isData) :
            view' = IF isData THEN [view EXCEPT ![f].data = @ \ {Safeguarded(f, n)}]
                    ELSE [view EXCEPT ![f].parity = @ \ {Safeguarded(f, n)}]
      BY <1>3 DEF InspectFound
    <2>2. PICK n \in Candidates(f, isData) :
            view' = IF isData THEN [view EXCEPT ![f].data = @ \ {Safeguarded(f, n)}]
                    ELSE [view EXCEPT ![f].parity = @ \ {Safeguarded(f, n)}]
      BY <2>1
    <2> DEFINE v == IF isData THEN [view[f] EXCEPT !.data = @ \ {Safeguarded(f, n)}]
                    ELSE [view[f] EXCEPT !.parity = @ \ {Safeguarded(f, n)}]
    <2>3. v \in View(f)
      BY <1>0 DEF View
    <2>4. view' = [view EXCEPT ![f] = v]
      BY <2>2 DEF TypeOK
    <2> HIDE DEF v
    <2>5. f \in monitored
      BY <1>0, <1>3 DEF InspectFound
    <2>6. /\ \A g \in File : view'[g] \in View(g) /\ (g \notin monitored => view'[g] = Fresh)
          /\ DOMAIN view' = File
      BY <2>3, <2>4, <2>5 DEF TypeOK
    <2> QED
      BY <1>3, <2>6, InspectedInv DEF InspectFound, Ending
  <1>4. CASE InspectDataMissing(f)
    <2>1. PICK n \in Candidates(f, TRUE) :
            HealthChecked(f, [view[f] EXCEPT !.data = @ \cup {Safeguarded(f, n)}], FALSE)
      BY <1>4 DEF InspectDataMissing
    <2> DEFINE v == [view[f] EXCEPT !.data = @ \cup {Safeguarded(f, n)}]
    <2>2. v \in View(f)
      BY <1>0, SafeguardedBlock DEF View
    <2>3. HealthChecked(f, v, FALSE)
      BY <2>1
    <2> HIDE DEF v
    <2>4. f \in monitored
      BY <1>0, <1>4 DEF InspectDataMissing
    <2>5. /\ \A g \in File : view'[g] \in View(g) /\ (g \notin monitored => view'[g] = Fresh)
          /\ DOMAIN view' = File
          /\ Ending
          /\ Inspected(f) \/ RepairsFile(f)
      BY <2>2, <2>3, <2>4, HealthCheckedView
    <2> QED
      BY <1>4, <2>5, InspectedInv DEF InspectDataMissing
  <1>5. CASE InspectParityMissing(f)
    <2>1. \E v \in View(f), wrote \in BOOLEAN : HealthChecked(f, v, wrote)
      <3>1. PICK n \in Candidates(f, FALSE) :
              \/ HealthChecked(f, view[f], FALSE)
              \/ \E hasRegion \in BOOLEAN :
                   HealthChecked(f, [view[f] EXCEPT !.parity = @ \cup {Safeguarded(f, n)}], hasRegion)
        BY <1>5 DEF InspectParityMissing
      <3>2. [view[f] EXCEPT !.parity = @ \cup {Safeguarded(f, n)}] \in View(f)
        BY <1>0, SafeguardedBlock DEF View
      <3> QED
        BY <1>0, <3>1, <3>2
    <2>2. f \in monitored
      BY <1>0, <1>5 DEF InspectParityMissing
    <2>3. /\ \A g \in File : view'[g] \in View(g) /\ (g \notin monitored => view'[g] = Fresh)
          /\ DOMAIN view' = File
          /\ Ending
          /\ Inspected(f) \/ RepairsFile(f)
      BY <2>1, <2>2, HealthCheckedView
    <2> QED
      BY <1>5, <2>3, InspectedInv DEF InspectParityMissing
  <1> QED
    BY <1>1, <1>2, <1>3, <1>4, <1>5 DEF Inspect

\* A repair that comes back, to the inspections or to the select.
LEMMA ComesBackInv ==
  ASSUME Live, Repairing(Repairs \cup {"inspect"}), ComesBack,
         collabData' \in [File -> {"none", "own", "other", "ended"}]
  PROVE  IInv'
  <1> USE DEF IInv, Live
  <1>1. /\ daemon' \in DaemonStates /\ daemon.at = "repair" /\ daemon'.at # "lock"
        /\ (daemon'.at = "held" => daemon'.job.kind \in Timed)
        /\ (DaemonHolds' <=> DaemonHolds)
        /\ TodoMonitored'
    <2>1. CASE daemon.job.kind = "inspect"
      <3>1. daemon \in [at : {"repair"}, job : Job({"inspect"}), todo : SUBSET File]
        BY <2>1, DaemonFields DEF Repairing, TypeOK
      <3>2. daemon' = [at |-> "held", job |-> [kind |-> "inspect"], todo |-> daemon.todo]
        BY <2>1 DEF ComesBack
      <3> QED
        BY <2>1, <3>1, <3>2
        DEF Repairing, DaemonStates, DaemonHolds, TodoMonitored, Timed, ComesBack, table
    <2>2. CASE daemon.job.kind # "inspect"
      BY <2>2 DEF Repairing, ComesBack, DaemonStates, DaemonHolds, TodoMonitored, NoSteps
    <2> QED
      BY <2>1, <2>2
  <1>2. /\ UNCHANGED <<mux, monitored>>
        /\ DOMAIN view' = File
        /\ Ending
    BY DEF ComesBack, Ending, Survives, TypeOK, table
  <1>3. \A f \in File : view'[f] \in View(f) /\ (f \notin monitored => view'[f] = Fresh)
    BY DEF ComesBack, TypeOK, table
  <1> HIDE DEF IInv, Live
  <1> QED
    BY <1>1, <1>2, <1>3, GoesOnInv

LEMMA RepairsInv ==
  ASSUME Live, DaemonRepairs PROVE IInv'
  <1> USE DEF IInv, Live
  <1>0. daemon.at = "repair" => daemon.job.kind \in Repairs \cup {"inspect"} /\ daemon.job.file \in File
    BY DaemonFields DEF TypeOK, Job, Repairs
  <1>1. CASE CollabEndsEarly \/ CollabSent \/ UnitRepaired \/ UnitReported \/ ResultTaken
    <2>1. Repairing(Repairs \cup {"inspect"}) /\ ComesBack
      BY <1>0, <1>1
      DEF Repairing, CollabEndsEarly, CollabSent, UnitRepaired, UnitReported, ResultTaken
    <2>2. collabData' \in [File -> {"none", "own", "other", "ended"}]
      BY <1>0, <1>1, <2>1
      DEF Repairing, CollabEndsEarly, CollabSent, UnitRepaired, UnitReported, ResultTaken, TypeOK
    <2> QED
      BY <2>1, <2>2, ComesBackInv
  <1>2. CASE CollabPanics \/ ResultPanics
    BY <1>2, PanicsInv
  <1>3. CASE NeverComesBack
    <2>1. /\ daemon' \in DaemonStates /\ daemon'.at \notin {"lock", "held"} /\ daemon.at = "repair"
          /\ (DaemonHolds' <=> DaemonHolds)
          /\ TodoMonitored'
      BY <1>0, <1>3, DaemonFields
      DEF NeverComesBack, Repairing, TypeOK, DaemonStates, DaemonHolds, TodoMonitored, Job, Repairs
    <2>2. /\ UNCHANGED <<mux, monitored>>
          /\ DOMAIN view' = File
          /\ collabData' \in [File -> {"none", "own", "other", "ended"}]
          /\ Ending
      BY <1>3 DEF NeverComesBack, Ending, Survives, TypeOK, table
    <2>3. \A f \in File : view'[f] \in View(f) /\ (f \notin monitored => view'[f] = Fresh)
      BY <1>3 DEF NeverComesBack, TypeOK, table
    <2> HIDE DEF IInv, Live
    <2> QED
      BY <2>1, <2>2, <2>3, GoesOnInv
  <1> QED
    BY <1>1, <1>2, <1>3 DEF DaemonRepairs

-----------------------------------------------------------------------------
LEMMA NextInv == IInv /\ [Next]_vars => IInv'
  <1> SUFFICES ASSUME IInv, [Next]_vars PROVE IInv'
    OBVIOUS
  <1>1. CASE UNCHANGED vars
    <2>1. TypeOK' /\ Guard' /\ TodoMonitored'
      BY <1>1 DEF IInv, TypeOK, Guard, DaemonHolds, InTable, TodoMonitored, View, Block, vars, table
    <2>2. NoStop' /\ AnsweredStartHolds'
      BY <1>1 DEF IInv, NoStop, StopAsked, StopsNow, AnsweredStartHolds, StartsNow, LockLeaked,
                  DaemonHolds, vars, table
    <2> QED
      BY <2>1, <2>2 DEF IInv
  <1>2. CASE Next
    <2>1. Live /\ Step
      BY <1>2 DEF Next, Alive, Live
    <2>2. CASE DaemonStep
      BY <2>1, <2>2, ReceiveInv, TimerInv, DaemonLocksInv, OperationInv, PanicsInv,
         ShareViewInv, InspectInv, RepairsInv DEF DaemonStep, DaemonWithLock
    <2>3. ASSUME NEW h \in Handler, HandlerStep(h) PROVE IInv'
      BY <2>1, <2>3, HandlerLocksInv, ListMonitorInv, MergeViewInv, ViewStartsInv,
         RecomputeHealthInv, ReadStatusInv DEF HandlerStep, HandlerWithLock
    <2> QED
      BY <2>1, <2>2, <2>3, RequestInv DEF Step
  <1> QED
    BY <1>1, <1>2

LEMMA Inductive == Spec => []IInv
  BY InitInv, NextInv, PTL DEF Spec

-----------------------------------------------------------------------------
(* A wedged node stays wedged.                                               *)

\* A handler that changes the mutex finds it free or has it.
LEMMA HandlerMux ==
  ASSUME IInv, NEW h \in Handler, HandlerStep(h)
  PROVE  /\ UNCHANGED daemon
         /\ handler[h].at # "sendheld"
         /\ \A g \in Handler \ {h} : handler'[g] = handler[g]
         /\ mux' = mux \/ mux = "free" \/ mux = h
  <1>1. InTable(h) => mux = h
    BY DEF IInv, Guard
  <1>2. \A g \in Handler \ {h} : handler'[g] = handler[g]
    BY DEF IInv, TypeOK, HandlerStep, HandlerLocks, HandlerWithLock, ListMonitor, MergeView,
           ViewStarts, RecomputeHealth, ReadStatus, ServedAndUnlocked, Answer
  <1> QED
    BY <1>1, <1>2
    DEF HandlerStep, HandlerLocks, HandlerWithLock, ListMonitor, MergeView, ViewStarts,
        RecomputeHealth, ReadStatus, ServedAndUnlocked, Answer, Lock, Serving, InTable

\* What the daemon does in a leak: it neither has the mutex nor gets it.
LEMMA LeakStays ==
  ASSUME IInv, LockLeaked, DaemonStep PROVE LockLeaked'
  <1> USE MonitorAssumption DEF LockLeaked
  <1>0. mux = "daemon" /\ ~DaemonHolds
    OBVIOUS
  <1>1. ~DaemonLocks
    BY <1>0 DEF DaemonLocks, Lock
  <1>2. ~DaemonWithLock
    BY <1>0 DEF DaemonHolds, DaemonWithLock, StartKnown, Start, StartFails, Stop, Reset, ResetPanics,
                TimerDone, Inspect, InspectNothing, InspectUnreachable, RepairStrandBlocks,
                InspectFound, InspectDataMissing, InspectParityMissing, InspectionOf, ShareView,
                DaemonDoes
  <1>3. CASE DaemonRepairs
    <2>1. daemon.at = "repair" /\ daemon.job.kind # "inspect"
      BY <1>0, <1>3 DEF DaemonHolds, DaemonRepairs, CollabEndsEarly, CollabSent, CollabPanics,
                        UnitRepaired, UnitReported, ResultTaken, ResultPanics, NeverComesBack, Repairing
    <2>2. mux' = mux /\ (daemon' = NoSteps \/ daemon' = daemon \/ daemon' = [at |-> "stuck", inspecting |-> FALSE])
      BY <1>3, <2>1 DEF DaemonRepairs, CollabEndsEarly, CollabSent, CollabPanics, UnitRepaired,
                        UnitReported, ResultTaken, ResultPanics, NeverComesBack, ComesBack
    <2> QED
      BY <1>0, <2>1, <2>2 DEF DaemonHolds, NoSteps
  <1>4. CASE NoClient
    BY <1>0, <1>4 DEF NoClient, DaemonHolds
  <1>5. ASSUME NEW kind \in Timed, Timer(kind) PROVE LockLeaked'
    BY <1>0, <1>5 DEF Timer, DaemonHolds
  <1>6. ASSUME NEW h \in Handler, Receive(h) PROVE LockLeaked'
    <2>1. handler[h].at = "send" /\ handler[h].job \in Job(Operations \cup Repairs)
      BY <1>0, <1>6, HandlerFields DEF IInv, TypeOK, Guard, InTable, Receive
    <2>2. daemon'.at \in {"lock", "repair"} /\ daemon'.job.kind # "inspect" /\ mux' = mux
      BY <1>6, <2>1 DEF Receive, Job, Operations, Repairs
    <2> QED
      BY <1>0, <2>2 DEF DaemonHolds
  <1> QED
    BY <1>1, <1>2, <1>3, <1>4, <1>5, <1>6 DEF DaemonStep

LEMMA WedgedStays == IInv /\ [Next]_vars => [Wedged => Wedged']_vars
  <1> SUFFICES ASSUME IInv, Next, Wedged PROVE Wedged'
    OBVIOUS
  <1> USE MonitorAssumption
  <1>0. died = "no" /\ Step /\ (LockLeaked \/ Embraced \/ daemon.at = "stuck")
    BY DEF Next, Alive, Wedged
  <1>1. CASE LockLeaked
    <2>1. CASE DaemonStep
      BY <1>1, <2>1, LeakStays DEF Wedged
    <2>2. ASSUME NEW h \in Handler, HandlerStep(h) PROVE LockLeaked'
      BY <1>1, <2>2, HandlerMux DEF LockLeaked, DaemonHolds
    <2>3. ASSUME UNCHANGED <<mux, daemon>> PROVE LockLeaked'
      BY <1>1, <2>3 DEF LockLeaked, DaemonHolds
    <2> QED
      BY <1>0, <2>1, <2>2, <2>3 DEF Step, Request, Wedged
  <1>2. CASE daemon.at = "stuck"
    <2>1. ~DaemonStep
      BY <1>2 DEF DaemonStep, DaemonLocks, DaemonWithLock, DaemonRepairs, StartKnown, Start,
                  StartFails, Stop, Reset, ResetPanics, TimerDone, Inspect, InspectNothing,
                  InspectUnreachable, RepairStrandBlocks, InspectFound, InspectDataMissing,
                  InspectParityMissing, InspectionOf, ShareView, DaemonDoes, CollabEndsEarly,
                  CollabSent, CollabPanics, UnitRepaired, UnitReported, ResultTaken, ResultPanics,
                  NeverComesBack, Repairing, NoClient, UsesClient, Timer, Receive, NoSteps
    <2> QED
      BY <1>0, <1>2, <2>1, HandlerMux DEF Step, Request, Wedged
  <1>3. CASE Embraced
    <2>0. daemon.at = "lock" /\ mux \in Handler /\ handler[mux].at = "sendheld"
      BY <1>3 DEF Embraced
    <2>1. ~DaemonStep
      BY <2>0 DEF DaemonStep, DaemonLocks, Lock, DaemonWithLock, DaemonRepairs, StartKnown, Start,
                  StartFails, Stop, Reset, ResetPanics, TimerDone, Inspect, InspectNothing,
                  InspectUnreachable, RepairStrandBlocks, InspectFound, InspectDataMissing,
                  InspectParityMissing, InspectionOf, ShareView, DaemonDoes, CollabEndsEarly,
                  CollabSent, CollabPanics, UnitRepaired, UnitReported, ResultTaken, ResultPanics,
                  NeverComesBack, Repairing, NoClient, UsesClient, Timer, Receive, NoSteps
    <2>2. ASSUME NEW h \in Handler, HandlerStep(h) PROVE Embraced'
      BY <2>0, <2>2, HandlerMux DEF Embraced
    <2>3. ASSUME NEW h \in Handler, NEW f \in File,
                 NEW kind \in Operations \cup Repairs \cup Locking \cup Reading, Request(h, kind, f)
          PROVE  Embraced'
      BY <2>0, <2>3 DEF Embraced, Request, Idle, IInv, TypeOK
    <2> QED
      BY <1>0, <2>1, <2>2, <2>3 DEF Step, Wedged
  <1> QED
    BY <1>0, <1>1, <1>2, <1>3

-----------------------------------------------------------------------------
\* The statistics name blocks of the file alone, whatever inspections and views add.
THEOREM TypeCorrect == Spec => []TypeOK
  <1>1. IInv => TypeOK
    BY DEF IInv
  <1> QED
    BY <1>1, Inductive, PTL

\* The daemon and the handlers exclude each other from the table of monitored files.
THEOREM MutualExclusion == Spec => []TableGuarded
  <1>1. IInv => TableGuarded
    BY MonitorAssumption DEF IInv, Guard, TableGuarded, InTable
  <1> QED
    BY <1>1, Inductive, PTL

\* An answered START holds until a STOP is asked for, or has leaked the mutex; and no lookup
\* that ends the process is of a file it holds for.
THEOREM StartsHold == Spec => []AnsweredStartHolds
  <1>1. IInv => AnsweredStartHolds
    BY DEF IInv
  <1> QED
    BY <1>1, Inductive, PTL

\* Whatever wedges a node does so for good.
THEOREM NoWayOut == Spec => WedgedForGood
  BY Inductive, WedgedStays, PTL DEF Spec, WedgedForGood
=============================================================================
