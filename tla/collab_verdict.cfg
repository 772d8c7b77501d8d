SPECIFICATION Spec
CONSTANTS
  n1 = n1
  n2 = n2
  n3 = n3
  f1 = f1
  Node = {n1, n2, n3}
  File = {f1}
  NumLeaves = 2
  Nobody = Nobody
  Clients = {n1}
  Origins = {n3}
  PeerLimits = {2}
  Monitors <- NoMonitors
  Inspectors = {}
  Requests = {"collab"}
  MaxTriggers = 1
  MaxFaults = 0
INVARIANT
  OriginLearnsVerdict
CHECK_DEADLOCK FALSE
