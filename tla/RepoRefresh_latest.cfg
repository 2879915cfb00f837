SPECIFICATION RefreshSpec
CONSTANTS
  j1 = j1
  j2 = j2
  j3 = j3
  repo = repo
  Jobs <- ThreeJobs
  Keys = {repo}
  KeyOf <- OneKey
  PoolSize = 2
  MaxClock = 1
  MaxRevision = 2
INVARIANTS
  CachesLatest
CHECK_DEADLOCK FALSE
