SPECIFICATION Spec
CONSTANTS
  MaxTopics = 2
  MaxListed = 1
INVARIANTS
  DocumentedTopicAccepted
CHECK_DEADLOCK FALSE
