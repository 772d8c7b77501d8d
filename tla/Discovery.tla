------------------------------- MODULE Discovery -------------------------------
(***************************************************************************)
(* The discovery service (discovery/index.mjs) with the community nodes    *)
(* that announce themselves to it (Server/server.go, RunServer), its       *)
(* rounds of health checks, and a node that has a request to monitor a     *)
(* file forwarded to the peers that store it (forwardMonitoring), whose    *)
(* addresses it asks the service for.                                      *)
(*                                                                         *)
(* The service is one JavaScript thread: what lies between two awaits is   *)
(* one step. A round of health checks awaits every answer, and the timer   *)
(* starts the next round whether or not the last one has ended.            *)
(***************************************************************************)
EXTENDS Naturals, FiniteSets

CONSTANTS
  Address,          \* the communityIPs; a node keeps its own
  Example,          \* exampleCommunityIpWithPort, which nobody has
  Cluster,          \* the clusterIPs
  ClusterIP,        \* [address]: the clusterIP of the node, which no other has
  Storing,          \* the clusterIPs of the peers that store the strands of the file
  MaxRounds,        \* bound: rounds of health checks at a time
  MaxTries,         \* MAX_HEALTH_CHECK_TRIES
  None,
  MaxFaults         \* bound: nodes that crash or hang, restarts of the service

VARIABLES
  node,                 \* [address]: "down", "starting", "up", "hung"
  services,             \* the keys of services
  clusterToCommunity,   \* [clusterIP]: an address or None
  suspected,            \* [address]: failures, 0 when undefined
  round,                \* [round]: where it is
  forward,              \* where the forwarding of a request is
  faults                \* how many so far

tables == <<services, clusterToCommunity, suspected>>
vars == <<node, tables, round, forward, faults>>

ASSUME DiscoveryAssumption ==
  /\ ClusterIP \in [Address -> Cluster]
  /\ \A a, b \in Address : ClusterIP[a] = ClusterIP[b] => a = b
  /\ Example \in Address
  /\ None \notin Address
  /\ Storing \subseteq Cluster
  /\ MaxTries \in Nat \ {0}
  /\ MaxFaults \in Nat /\ MaxRounds \in Nat

-----------------------------------------------------------------------------
Round == 1..MaxRounds
IdleRound == [at |-> "idle"]
RoundStates ==
  {IdleRound}
    \cup [at : {"fetch"}, communityIP : Address, todo : SUBSET Address]
    \cup [at : {"answer"}, communityIP : Address, success : BOOLEAN, todo : SUBSET Address]

NoForward == [at |-> "none"]
ForwardStates ==
  {NoForward}
    \cup [at : {"ask"}, todo : SUBSET Storing, owed : SUBSET Address]
    \cup [at : {"post"}, to : Address, todo : SUBSET Storing, owed : SUBSET Address]

\* The tables as the service starts with them.
FreshTables ==
  /\ services' = {Example}
  /\ clusterToCommunity' = [c \in Cluster |-> IF c = ClusterIP[Example] THEN Example ELSE None]
  /\ suspected' = [a \in Address |-> 0]

Init ==
  /\ node = [a \in Address |-> "down"]
  /\ services = {Example}
  /\ clusterToCommunity = [c \in Cluster |-> IF c = ClusterIP[Example] THEN Example ELSE None]
  /\ suspected = [a \in Address |-> 0]
  /\ round = [r \in Round |-> IdleRound]
  /\ forward = NoForward
  /\ faults = 0

-----------------------------------------------------------------------------
(* The nodes.                                                                *)

\* RunServer announces the node, and listens when the answer is there. The failures
\* counted before are kept.
Announce(a) ==
  /\ a # Example /\ node[a] = "down"
  /\ node' = [node EXCEPT ![a] = "starting"]
  /\ services' = services \cup {a}
  /\ clusterToCommunity' = [clusterToCommunity EXCEPT ![ClusterIP[a]] = a]
  /\ UNCHANGED <<suspected, round, forward, faults>>

Listen(a) ==
  /\ node[a] = "starting"
  /\ node' = [node EXCEPT ![a] = "up"]
  /\ UNCHANGED <<tables, round, forward, faults>>

\* Auxiliary: those in trouble need not be told any more.
Trusting(troubled) ==
  IF forward = NoForward THEN forward ELSE [forward EXCEPT !.owed = @ \ troubled]

\* A node dies or takes connections that it does not answer.
Fail(a) ==
  /\ faults < MaxFaults
  /\ \/ node[a] \in {"starting", "up", "hung"} /\ node' = [node EXCEPT ![a] = "down"]
     \/ node[a] = "up" /\ node' = [node EXCEPT ![a] = "hung"]
  /\ faults' = faults + 1
  /\ forward' = Trusting({a})
  /\ UNCHANGED <<tables, round>>

\* The service dies and starts again. The nodes announce themselves no second time.
RestartService ==
  /\ faults < MaxFaults
  /\ FreshTables
  /\ round' = [r \in Round |-> IdleRound]
  /\ faults' = faults + 1
  /\ forward' = Trusting(Address)
  /\ UNCHANGED node

-----------------------------------------------------------------------------
(* The health checks.                                                        *)

\* The loop goes on to a service that is still there, or ends.
NextCheck(todo) ==
  {[at |-> "fetch", communityIP |-> a, todo |-> todo \ {a}] : a \in todo}
    \cup (IF todo = {} THEN {IdleRound} ELSE {})

Tick(r) ==
  /\ round[r] = IdleRound /\ \A q \in 1..(r - 1) : round[q] # IdleRound
  /\ \E next \in NextCheck(services) : round' = [round EXCEPT ![r] = next]
  /\ UNCHANGED <<node, tables, forward, faults>>

\* fetch: a node that listens answers, one that hangs does not, and there is no timeout.
Fetched(r) ==
  /\ round[r].at = "fetch" /\ node[round[r].communityIP] # "hung"
  /\ round' = [round EXCEPT ![r] = [at |-> "answer", communityIP |-> @.communityIP,
                                    success |-> node[@.communityIP] = "up", todo |-> @.todo]]
  /\ UNCHANGED <<node, tables, forward, faults>>

\* Mutant: a service that is no longer there is not passed over.
GoneNever(a) == FALSE

\* The tables have changed since the request was sent.
Gone(a) == a \notin services

Passed(a) ==
  /\ suspected' = [suspected EXCEPT ![a] = 0]
  /\ UNCHANGED <<services, clusterToCommunity>>

\* Mutant: each failure counts as the first.
FailuresAfresh(a) == 1

Failures(a) == suspected[a] + 1

Suspect(a) ==
  /\ Failures(a) # MaxTries
  /\ suspected' = [suspected EXCEPT ![a] = Failures(a)]
  /\ UNCHANGED <<services, clusterToCommunity>>

\* Mutant: the clusterIP is still found.
RemoveListed(a) ==
  /\ Failures(a) = MaxTries
  /\ services' = services \ {a}
  /\ suspected' = [suspected EXCEPT ![a] = 0]
  /\ UNCHANGED clusterToCommunity

Remove(a) ==
  /\ Failures(a) = MaxTries
  /\ clusterToCommunity' = [clusterToCommunity EXCEPT ![ClusterIP[a]] = None]
  /\ services' = services \ {a}
  /\ suspected' = [suspected EXCEPT ![a] = 0]

\* Mutant: the rounds share the variable that says whether the check succeeded.
AppliedShared(a, success) ==
  LET all == \A r \in Round : round[r].at = "answer" => round[r].success IN
    \/ Gone(a) /\ UNCHANGED tables
    \/ ~Gone(a) /\ all /\ Passed(a)
    \/ ~Gone(a) /\ ~all /\ (Suspect(a) \/ Remove(a))

Applied(a, success) ==
  \/ Gone(a) /\ UNCHANGED tables
  \/ ~Gone(a) /\ success /\ Passed(a)
  \/ ~Gone(a) /\ ~success /\ (Suspect(a) \/ Remove(a))

Apply(r) ==
  /\ round[r].at = "answer"
  /\ Applied(round[r].communityIP, round[r].success)
  /\ \E next \in NextCheck(round[r].todo \cap services') : round' = [round EXCEPT ![r] = next]
  /\ UNCHANGED <<node, forward, faults>>

-----------------------------------------------------------------------------
(* forwardMonitoring.                                                        *)

\* The cluster may not give the peers of each of the strands. Which nodes should be told is
\* kept with it, as an auxiliary: those listed that are up now and that no check has found
\* wanting.
Trusted(a) ==
  /\ node[a] = "up" /\ suspected[a] = 0
  /\ \A r \in Round : round[r].at = "answer" /\ round[r].communityIP = a => round[r].success

Forward(peers) ==
  /\ forward = NoForward
  /\ forward' = [at |-> "ask", todo |-> peers,
                 owed |-> {a \in services : Trusted(a) /\ ClusterIP[a] \in peers}]
  /\ UNCHANGED <<node, tables, round, faults>>

\* getCommunityAddress; a peer without one is passed over.
AskAddress(c) ==
  /\ forward.at = "ask" /\ c \in forward.todo
  /\ LET rest == forward.todo \ {c} IN
       forward' = IF clusterToCommunity[c] = None
                  THEN [at |-> "ask", todo |-> rest, owed |-> forward.owed]
                  ELSE [at |-> "post", to |-> clusterToCommunity[c], todo |-> rest,
                        owed |-> forward.owed]
  /\ UNCHANGED <<node, tables, round, faults>>

\* The post of /startMonitorFile fails when the node does not listen.
PostStart ==
  /\ forward.at = "post" /\ node[forward.to] # "hung"
  /\ forward' = [at |-> "ask", todo |-> forward.todo,
                 owed |-> forward.owed \ (IF node[forward.to] = "up" THEN {forward.to} ELSE {})]
  /\ UNCHANGED <<node, tables, round, faults>>

Forwarded == forward.at = "ask" /\ forward.todo = {}

ForwardDone ==
  /\ Forwarded
  /\ forward' = NoForward
  /\ UNCHANGED <<node, tables, round, faults>>

-----------------------------------------------------------------------------
Next ==
  \/ \E a \in Address : Announce(a) \/ Listen(a) \/ Fail(a)
  \/ RestartService
  \/ \E r \in Round : Tick(r) \/ Fetched(r) \/ Apply(r)
  \/ \E peers \in SUBSET Storing \ {{}} : Forward(peers)
  \/ \E c \in Cluster : AskAddress(c)
  \/ PostStart \/ ForwardDone

\* The interval timer and the event loop; nothing is assumed of the nodes, which need not
\* start or announce themselves.
Fairness ==
  \A r \in Round : WF_vars(Tick(r) \/ Fetched(r) \/ Apply(r))

Spec == Init /\ [][Next]_vars /\ Fairness

-----------------------------------------------------------------------------
\* The tables hold what they should, and a suspicion is of a listed service alone and short
\* of the number of failures that removes it: an answer that comes for a service another
\* round has removed leaves nothing behind that would count against its next announcement.
TypeOK ==
  /\ node \in [Address -> {"down", "starting", "up", "hung"}]
  /\ services \subseteq Address
  /\ clusterToCommunity \in [Cluster -> Address \cup {None}]
  /\ suspected \in [Address -> 0..(MaxTries - 1)]
  /\ \A a \in Address : suspected[a] # 0 => a \in services
  /\ round \in [Round -> RoundStates]
  /\ forward \in ForwardStates
  /\ faults \in 0..MaxFaults

\* The two tables agree: a node is listed if and only if it is found under its clusterIP,
\* and nothing else is.
TablesAgree ==
  /\ \A a \in Address : a \in services <=> clusterToCommunity[ClusterIP[a]] = a
  /\ \A c \in Cluster :
       clusterToCommunity[c] # None => ClusterIP[clusterToCommunity[c]] = c

\* When a request has been forwarded, every node whose peer stores one of the strands has
\* been told, if it was listed, up and under no suspicion when the request came and has been
\* up since: the checks and removals that go on meanwhile do not come between.
MonitorsTold ==
  Forwarded => forward.owed = {}

\* A node that stays down is removed, as long as no listed one hangs, for which every round
\* would wait.
DeadRemoved ==
  \A a \in Address :
    a \in services /\ node[a] = "down" ~>
      \/ a \notin services \/ node[a] # "down"
      \/ \E b \in services : node[b] = "hung"
=============================================================================
