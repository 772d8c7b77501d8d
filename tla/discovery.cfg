SPECIFICATION Spec
CONSTANTS
  example = example
  a1 = a1
  a2 = a2
  c0 = c0
  c1 = c1
  c2 = c2
  Address = {example, a1, a2}
  Example = example
  Cluster = {c0, c1, c2}
  ClusterIP <- MCClusterIP
  Storing = {c1}
  MaxRounds = 2
  MaxTries = 2
  None = None
  MaxFaults = 1
INVARIANTS
  TypeOK
  TablesAgree
  MonitorsTold
PROPERTY
  DeadRemoved
CHECK_DEADLOCK FALSE
