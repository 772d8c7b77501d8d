SPECIFICATION Spec
CONSTANTS
  n1 = n1
  n2 = n2
  n3 = n3
  f1 = f1
  Node = {n1, n2, n3}
  File = {f1}
  NumLeaves = 2
  Nobody = Nobody
  Clients = {n1}
  Origins = {Nobody, n2}
  PeerLimits = {0, 2}
  Monitors <- TwoMonitor
  Inspectors = {n2}
  Requests = {"collab", "strand"}
  MaxTriggers = 2
  MaxFaults = 1
INVARIANT
  PendingIffAwaited
PROPERTY
  PendingRepairIsKept
CHECK_DEADLOCK FALSE
