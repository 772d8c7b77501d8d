SPECIFICATION Spec
CONSTANTS
  Alpha = 3
  S = 3
  P = 3
  ChunkNum = 7
  Losses <- AnyOfHardOrDeep
  Requests <- StartAndNext
  Depths = {1, 3}
  MaxRequests = 2
  Flickers <- StartAndEnd
  MaxChanges = 1
INVARIANTS
  TypeOK
  HoldsItsValue
  PendingOnStack
  AnswersByDepth
PROPERTIES
  RequestsEnd
CHECK_DEADLOCK FALSE
