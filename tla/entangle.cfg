SPECIFICATION Spec
CONSTANTS
  Alpha = 3
  S = 5
  P = 5
  ChunkNums = {5, 6, 7, 8, 9, 10, 11, 14, 24, 25, 26, 31, 50, 57}
  StrandSets <- AllOrOne
INVARIANTS
  TypeOK
  OneParityPerPlace
  EmitsCode
PROPERTIES
  Finishes
CHECK_DEADLOCK FALSE
