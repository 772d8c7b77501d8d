SPECIFICATION Spec
CONSTANTS
  Alpha = 3
  S = 2
  P = 2
  Files <- FewInner
  MaxStoring = 2
  MaxFaults = 2
INVARIANTS
  TypeOK
  MergedIsCode
  PinnedFromRoot
  MetadataFits
  OrdersAgree
  OnlySmallFilesPanic
PROPERTIES
  UploadEnds
CHECK_DEADLOCK FALSE
