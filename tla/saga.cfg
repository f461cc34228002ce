SPECIFICATION BuildSpec
CONSTANTS
  Scale = 6
  Point = {0, 6, 12, 30}
  LengthBound = 4
  Reservoir = 3
  DefaultK <- MCDefaultK
  MaxIter = 3
  Tolerance = 1000
  TagCount = 3
  TagBound = 2
  TopTags = 2
  NoFile = NoFile
INVARIANTS
  CostFalls
  SagaTrue
CHECK_DEADLOCK FALSE
