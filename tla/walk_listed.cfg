SPECIFICATION Spec
CONSTANTS
  Alpha = 3
  S = 2
  P = 2
  LeafNum = 4
  Fanout = 2
  Jobs = {"retrieve", "download", "count", "strand"}
  SwitchDepth = 3
  Losses <- SomeLost
  Flickers <- Some
  MaxChanges = 0
  MaxFaults = 0
INVARIANTS
  LeavesAccounted
CHECK_DEADLOCK FALSE
