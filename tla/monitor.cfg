SPECIFICATION Spec
CONSTANTS
  f1 = f1
  h1 = h1
  h2 = h2
  File = {f1}
  Sizes = {1, 2}
  Handler = {h1, h2}
  SampleSize = 2
  NumericAddress = TRUE
INVARIANTS
  TypeOK
  TableGuarded
  AnsweredStartHolds
PROPERTIES
  WedgedForGood
  RequestsServed
CHECK_DEADLOCK FALSE
