SPECIFICATION Spec
CONSTANTS
  MaxTopics = 3
  MaxListed = 2
INVARIANTS
  TypeOK
  PostsWanted
PROPERTIES
  TopicsDecideType
CHECK_DEADLOCK FALSE
