SPECIFICATION FairSpec
CONSTANTS
  N = 5
  Limit = 5
INVARIANTS
  TypeOK
  WrittenInOrder
  NilMeansComplete
PROPERTIES
  ReturnsUnlessFailed
CHECK_DEADLOCK FALSE
