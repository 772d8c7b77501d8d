SPECIFICATION Spec
CONSTANTS
  Alpha = 3
  S = 2
  P = 2
  Files <- MoreInner
  MaxStoring = 2
  MaxFaults = 0
INVARIANTS
  OrdersAgree
CHECK_DEADLOCK FALSE
