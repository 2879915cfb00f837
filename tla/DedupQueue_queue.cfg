SPECIFICATION FairQueueSpec
CONSTANTS
  j1 = j1
  j2 = j2
  j3 = j3
  repo = repo
  Jobs <- ThreeJobs
  Keys = {repo}
  KeyOf <- ThreeOnOneKey
  PoolSize = 2
  MaxClock = 2
INVARIANTS
  TypeOK
  MarkHasHolder
  SkipJustified
  OverlapOnlyByRace
PROPERTIES
  DeadKeyStaysDead
  KeepsLedger
  EveryJobDecided
CHECK_DEADLOCK FALSE
