SPECIFICATION Spec
CONSTANTS
  Alpha = 3
  S = 2
  P = 2
  LeafNum = 4
  Fanout = 2
  Jobs = {"retrieve", "download", "count", "strand"}
  SwitchDepth = 3
  Losses <- SomeLost
  Flickers <- Some
  MaxChanges = 1
  MaxFaults = 1
INVARIANTS
  TypeOK
  RetrievalAccounts
  RepairedIsStored
  WrittenOffForCause
  DownloadDelivers
PROPERTIES
  WalksEnd
CHECK_DEADLOCK FALSE
