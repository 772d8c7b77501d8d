---------------------------- MODULE Discovery_proofs ----------------------------
(***************************************************************************)
(* The safety properties of the discovery service and of the forwarding    *)
(* that asks it, proved for every number of nodes, rounds, tries and       *)
(* faults.                                                                 *)
(***************************************************************************)
EXTENDS Discovery, TLAPS

\* What a forwarding relies on for a node it owes the request to: the node is listed, no
\* check has failed for it or is about to, and its peer is still to be asked for or its
\* address has been got.
OwedInv ==
  forward # NoForward =>
    \A a \in forward.owed :
      /\ a \in services /\ Trusted(a)
      /\ \/ ClusterIP[a] \in forward.todo
         \/ forward.at = "post" /\ forward.to = a

IInv == TypeOK /\ TablesAgree /\ OwedInv

-----------------------------------------------------------------------------
\* The next check of a round is of one of the services it has left.
LEMMA NextCheckType ==
  ASSUME NEW todo \in SUBSET Address, NEW next \in NextCheck(todo)
  PROVE  next \in RoundStates /\ next.at # "answer"
  BY DEF NextCheck, RoundStates, IdleRound

\* A check that has not failed leaves the trusted trusted.
LEMMA TrustKept ==
  ASSUME NEW r \in Round, NEW next, NEW a,
         round \in [Round -> RoundStates], Trusted(a),
         round' = [round EXCEPT ![r] = next],
         next.at = "answer" /\ next.communityIP = a => next.success,
         node'[a] = node[a], suspected'[a] = 0
  PROVE  Trusted(a)'
  BY DEF Trusted

LEMMA InitInv == Init => IInv
  <1> SUFFICES ASSUME Init PROVE IInv
    OBVIOUS
  <1> USE DiscoveryAssumption DEF Init
  <1>1. TypeOK
    BY DEF TypeOK, RoundStates, ForwardStates
  <1>2. TablesAgree
    BY DEF TablesAgree
  <1>3. OwedInv
    BY DEF OwedInv
  <1> QED
    BY <1>1, <1>2, <1>3 DEF IInv

-----------------------------------------------------------------------------
(* The nodes.                                                                *)

LEMMA AnnounceInv ==
  ASSUME IInv, NEW a \in Address, Announce(a) PROVE IInv'
  <1> USE DiscoveryAssumption DEF IInv, TypeOK, Announce
  <1>1. TypeOK'
    OBVIOUS
  <1>2. TablesAgree'
    BY DEF TablesAgree
  <1>3. OwedInv'
    BY DEF OwedInv, Trusted, ForwardStates, NoForward
  <1> QED
    BY <1>1, <1>2, <1>3

LEMMA ListenInv ==
  ASSUME IInv, NEW a \in Address, Listen(a) PROVE IInv'
  <1> USE DiscoveryAssumption DEF IInv, TypeOK, Listen, tables
  <1>1. TypeOK'
    OBVIOUS
  <1>2. TablesAgree'
    BY DEF TablesAgree
  <1>3. OwedInv'
    BY DEF OwedInv, Trusted, ForwardStates, NoForward
  <1> QED
    BY <1>1, <1>2, <1>3

\* Of a forwarding that is under way some need not be told any more.
LEMMA TrustingType ==
  ASSUME forward \in ForwardStates, NEW S \in SUBSET Address, forward' = Trusting(S)
  PROVE  /\ forward' \in ForwardStates
         /\ forward = NoForward => forward' = NoForward
         /\ forward # NoForward =>
              /\ forward' # NoForward
              /\ forward'.owed = forward.owed \ S
              /\ forward'.todo = forward.todo /\ forward'.at = forward.at
              /\ forward.at = "post" => forward'.to = forward.to
  <1>1. CASE forward = NoForward
    BY <1>1 DEF Trusting, ForwardStates
  <1>2. CASE forward \in [at : {"ask"}, todo : SUBSET Storing, owed : SUBSET Address]
    BY <1>2 DEF Trusting, ForwardStates, NoForward
  <1>3. CASE forward \in [at : {"post"}, to : Address, todo : SUBSET Storing, owed : SUBSET Address]
    BY <1>3 DEF Trusting, ForwardStates, NoForward
  <1> QED
    BY <1>1, <1>2, <1>3 DEF ForwardStates

LEMMA FailInv ==
  ASSUME IInv, NEW a \in Address, Fail(a) PROVE IInv'
  <1> USE DiscoveryAssumption DEF IInv
  <1>0. /\ forward' \in ForwardStates
        /\ forward = NoForward => forward' = NoForward
        /\ forward # NoForward =>
             /\ forward' # NoForward
             /\ forward'.owed = forward.owed \ {a}
             /\ forward'.todo = forward.todo /\ forward'.at = forward.at
             /\ forward.at = "post" => forward'.to = forward.to
    <2>1. {a} \in SUBSET Address /\ forward \in ForwardStates /\ forward' = Trusting({a})
      BY DEF Fail, TypeOK, OwedInv, ForwardStates
    <2> HIDE DEF IInv
    <2> QED
      BY ONLY <2>1, TrustingType
  <1>1. TypeOK'
    <2>1. node' \in [Address -> {"down", "starting", "up", "hung"}] /\ faults' \in 0..MaxFaults
      BY DEF TypeOK, Fail
    <2> QED
      BY <1>0, <2>1 DEF TypeOK, Fail, tables
  <1>2. TablesAgree'
    BY DEF TablesAgree, Fail, tables
  <1>3. OwedInv'
    <2> SUFFICES ASSUME forward # NoForward, NEW b \in forward.owed \ {a}
                 PROVE  /\ b \in services /\ Trusted(b)'
                        /\ \/ ClusterIP[b] \in forward.todo
                           \/ forward.at = "post" /\ forward.to = b
      BY <1>0 DEF OwedInv, Fail, tables
    <2>1. node'[b] = node[b]
      BY DEF Fail, TypeOK, OwedInv, ForwardStates
    <2> QED
      BY <2>1 DEF OwedInv, Trusted, Fail, tables
  <1> QED
    BY <1>1, <1>2, <1>3

LEMMA RestartServiceInv ==
  ASSUME IInv, RestartService PROVE IInv'
  <1> USE DiscoveryAssumption DEF IInv, TypeOK, RestartService, FreshTables
  <1>0. forward \in ForwardStates /\ forward # NoForward => forward.owed \subseteq Address
    BY DEF ForwardStates
  <1>1. TypeOK'
    BY TrustingType DEF RoundStates
  <1>2. TablesAgree'
    BY DEF TablesAgree
  <1>3. OwedInv'
    BY <1>0, TrustingType DEF OwedInv
  <1> QED
    BY <1>1, <1>2, <1>3

-----------------------------------------------------------------------------
(* The health checks.                                                        *)

LEMMA TickInv ==
  ASSUME IInv, NEW r \in Round, Tick(r) PROVE IInv'
  <1> USE DiscoveryAssumption DEF IInv, TypeOK, tables
  <1> PICK next \in NextCheck(services) : round' = [round EXCEPT ![r] = next]
    BY DEF Tick
  <1>0. next \in RoundStates /\ next.at # "answer"
    BY NextCheckType
  <1>1. TypeOK'
    BY <1>0 DEF Tick
  <1>2. TablesAgree'
    BY DEF TablesAgree, Tick
  <1>3. OwedInv'
    <2> SUFFICES ASSUME forward # NoForward, NEW a \in forward.owed PROVE Trusted(a)'
      BY DEF OwedInv, Tick
    <2> QED
      BY <1>0, TrustKept DEF OwedInv, Trusted, Tick
  <1> QED
    BY <1>1, <1>2, <1>3

LEMMA FetchedInv ==
  ASSUME IInv, NEW r \in Round, Fetched(r) PROVE IInv'
  <1> USE DiscoveryAssumption DEF IInv, TypeOK, tables
  <1> DEFINE next == [at |-> "answer", communityIP |-> round[r].communityIP,
                      success |-> node[round[r].communityIP] = "up", todo |-> round[r].todo]
  <1>0. next \in RoundStates
    BY DEF RoundStates, IdleRound, Fetched
  <1>a. round' = [round EXCEPT ![r] = next]
    BY DEF Fetched
  <1>1. TypeOK'
    BY <1>0, <1>a DEF Fetched
  <1>2. TablesAgree'
    BY DEF TablesAgree, Fetched
  <1>3. OwedInv'
    <2> SUFFICES ASSUME forward # NoForward, NEW a \in forward.owed PROVE Trusted(a)'
      BY DEF OwedInv, Fetched
    <2>1. Trusted(a)
      BY DEF OwedInv
    <2>2. next.communityIP = a => next.success
      BY <2>1 DEF Trusted
    <2> QED
      BY <1>a, <2>1, <2>2, TrustKept DEF Trusted, Fetched
  <1> QED
    BY <1>1, <1>2, <1>3

\* What an answer does to the tables. Nothing is done to a service that is not listed, and
\* one is removed that an answer has failed for.
LEMMA AppliedTables ==
  ASSUME IInv, NEW a \in Address, NEW success \in BOOLEAN, Applied(a, success)
  PROVE  /\ services' \subseteq services
         /\ clusterToCommunity' \in [Cluster -> Address \cup {None}]
         /\ suspected' \in [Address -> 0..(MaxTries - 1)]
         /\ \A b \in Address : suspected'[b] # 0 => b \in services'
         /\ TablesAgree'
         /\ \A b \in Address \ {a} :
              (b \in services => b \in services') /\ suspected'[b] = suspected[b]
         /\ success => services' = services /\ (suspected[a] = 0 => suspected'[a] = 0)
  <1> USE DiscoveryAssumption DEF IInv, TypeOK, TablesAgree
  <1>1. CASE Gone(a) /\ UNCHANGED tables
    BY <1>1 DEF tables
  <1>2. CASE ~Gone(a) /\ success /\ Passed(a)
    BY <1>2 DEF Gone, Passed
  <1>3. CASE ~Gone(a) /\ ~success /\ Suspect(a)
    BY <1>3 DEF Gone, Suspect, Failures
  <1>4. CASE ~Gone(a) /\ ~success /\ Remove(a)
    BY <1>4 DEF Gone, Remove
  <1> QED
    BY <1>1, <1>2, <1>3, <1>4 DEF Applied

LEMMA ApplyInv ==
  ASSUME IInv, NEW r \in Round, Apply(r) PROVE IInv'
  <1> USE DiscoveryAssumption DEF TypeOK
  <1> DEFINE c == round[r].communityIP
             success == round[r].success
  <1>0. /\ c \in Address /\ success \in BOOLEAN /\ round[r].todo \in SUBSET Address
        /\ Applied(c, success)
        /\ round[r].at = "answer"
    BY DEF IInv, RoundStates, IdleRound, Apply
  <1>t. /\ services' \subseteq services
        /\ clusterToCommunity' \in [Cluster -> Address \cup {None}]
        /\ suspected' \in [Address -> 0..(MaxTries - 1)]
        /\ \A b \in Address : suspected'[b] # 0 => b \in services'
        /\ TablesAgree'
        /\ \A b \in Address \ {c} :
             (b \in services => b \in services') /\ suspected'[b] = suspected[b]
        /\ success => services' = services /\ (suspected[c] = 0 => suspected'[c] = 0)
    BY <1>0, AppliedTables
  <1> HIDE DEF c, success
  <1> PICK next \in NextCheck(round[r].todo \cap services') :
             round' = [round EXCEPT ![r] = next]
    BY DEF Apply
  <1>n. next \in RoundStates /\ next.at # "answer"
    BY <1>0, NextCheckType
  <1>1. TypeOK'
    BY <1>t, <1>n DEF IInv, Apply
  <1>3. OwedInv'
    <2> SUFFICES ASSUME forward # NoForward, NEW a \in forward.owed
                 PROVE  a \in services' /\ Trusted(a)'
      BY DEF IInv, OwedInv, Apply
    <2>1. a \in Address /\ a \in services /\ Trusted(a)
      BY DEF IInv, OwedInv
    <2>2. c = a => success
      BY <1>0, <2>1 DEF Trusted, c, success
    <2>3. a \in services' /\ suspected'[a] = 0
      BY <1>t, <2>1, <2>2 DEF Trusted
    <2> QED
      BY <1>n, <2>1, <2>3, TrustKept DEF IInv, Apply
  <1> QED
    BY <1>1, <1>t, <1>3 DEF IInv

-----------------------------------------------------------------------------
(* The forwarding.                                                           *)

LEMMA ForwardInv ==
  ASSUME IInv, NEW peers \in SUBSET Storing, Forward(peers) PROVE IInv'
  <1> USE DEF IInv, Forward, tables
  <1>1. TypeOK'
    BY DEF TypeOK, ForwardStates
  <1>2. TablesAgree'
    BY DEF TablesAgree
  <1>3. OwedInv'
    BY DEF OwedInv, Trusted
  <1> QED
    BY <1>1, <1>2, <1>3

\* A node that is owed the request is found under its peer's name.
LEMMA AskAddressInv ==
  ASSUME IInv, NEW c \in Cluster, AskAddress(c) PROVE IInv'
  <1> USE DiscoveryAssumption DEF IInv, tables
  <1>0. forward \in [at : {"ask"}, todo : SUBSET Storing, owed : SUBSET Address]
    BY DEF TypeOK, ForwardStates, NoForward, AskAddress
  <1>1. TypeOK'
    BY <1>0 DEF TypeOK, ForwardStates, AskAddress
  <1>2. TablesAgree'
    BY DEF TablesAgree, AskAddress
  <1>3. OwedInv'
    <2> SUFFICES ASSUME NEW a \in forward'.owed
                 PROVE  /\ a \in services /\ Trusted(a)
                        /\ \/ ClusterIP[a] \in forward'.todo
                           \/ forward'.at = "post" /\ forward'.to = a
      BY DEF OwedInv, Trusted, AskAddress
    <2>1. a \in forward.owed /\ forward'.todo = forward.todo \ {c}
      BY DEF AskAddress
    <2>2. a \in services /\ Trusted(a) /\ ClusterIP[a] \in forward.todo
      BY <1>0, <2>1 DEF OwedInv, NoForward
    <2>3. CASE ClusterIP[a] = c
      <3>1. clusterToCommunity[c] = a
        BY <2>2, <2>3 DEF TablesAgree, TypeOK
      <3> QED
        BY <2>2, <3>1 DEF AskAddress, TypeOK
    <2> QED
      BY <2>1, <2>2, <2>3
  <1> QED
    BY <1>1, <1>2, <1>3

LEMMA PostStartInv ==
  ASSUME IInv, PostStart PROVE IInv'
  <1> USE DiscoveryAssumption DEF IInv, tables
  <1>0. forward \in [at : {"post"}, to : Address, todo : SUBSET Storing, owed : SUBSET Address]
    BY DEF TypeOK, ForwardStates, NoForward, PostStart
  <1>1. TypeOK'
    BY <1>0 DEF TypeOK, ForwardStates, PostStart
  <1>2. TablesAgree'
    BY DEF TablesAgree, PostStart
  <1>3. OwedInv'
    BY <1>0 DEF OwedInv, Trusted, NoForward, PostStart
  <1> QED
    BY <1>1, <1>2, <1>3

LEMMA ForwardDoneInv ==
  ASSUME IInv, ForwardDone PROVE IInv'
  BY DEF IInv, ForwardDone, tables, TypeOK, ForwardStates, TablesAgree, OwedInv

LEMMA NextInv == IInv /\ [Next]_vars => IInv'
  <1> SUFFICES ASSUME IInv, [Next]_vars PROVE IInv'
    OBVIOUS
  <1>1. CASE UNCHANGED vars
    BY <1>1 DEF IInv, TypeOK, TablesAgree, OwedInv, Trusted, vars, tables
  <1>2. CASE Next
    BY <1>2, AnnounceInv, ListenInv, FailInv, RestartServiceInv, TickInv, FetchedInv, ApplyInv,
       ForwardInv, AskAddressInv, PostStartInv, ForwardDoneInv DEF Next
  <1> QED
    BY <1>1, <1>2

LEMMA Inductive == Spec => []IInv
  BY InitInv, NextInv, PTL DEF Spec

-----------------------------------------------------------------------------
\* A suspicion is of a listed service and short of the failures that remove it, whatever
\* rounds, restarts and announcements overlap (the health check of index.mjs).
THEOREM TypeCorrect == Spec => []TypeOK
  <1>1. IInv => TypeOK
    BY DEF IInv
  <1> QED
    BY <1>1, Inductive, PTL

\* The two tables of the discovery service agree at all times.
THEOREM TablesAlwaysAgree == Spec => []TablesAgree
  <1>1. IInv => TablesAgree
    BY DEF IInv
  <1> QED
    BY <1>1, Inductive, PTL

\* forwardMonitoring tells every node it should that is listed, up and unsuspected.
THEOREM ForwardingTellsAll == Spec => []MonitorsTold
  <1>1. IInv => MonitorsTold
    BY DEF IInv, TypeOK, ForwardStates, NoForward, OwedInv, MonitorsTold, Forwarded
  <1> QED
    BY <1>1, Inductive, PTL
=============================================================================
