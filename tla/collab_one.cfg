SPECIFICATION Spec
CONSTANTS
  n1 = n1
  n2 = n2
  n3 = n3
  f1 = f1
  Node = {n1, n2, n3}
  File = {f1}
  NumLeaves = 3
  Nobody = Nobody
  Clients = {n1}
  Origins = {Nobody}
  PeerLimits = {1, 2}
  Monitors <- NoMonitors
  Inspectors = {}
  Requests = {"collab"}
  MaxTriggers = 2
  MaxFaults = 0
INVARIANTS
  TypeOK
  PeersOweOneReport
  SuccessMeansRepaired
  LeavesSplit
PROPERTIES
  RepairsAsPromised
  RepairsSettle
  DaemonsReturn
CHECK_DEADLOCK FALSE
