SPECIFICATION FairSpec
CONSTANTS
  v1 = v1
  v2 = v2
  v3 = v3
  other = other
  Entries <- FourEntries
  Passing <- Versions
  WithDocs = {v1, v2, other}
  GhPages = v1
  Dated <- FirstDates
  Dates = {1, 4}
  PageSize = 2
  MaxChanges = 2
INVARIANTS
  TypeOK
  QuietListingExact
  MissedOnlyIfLeft
  DoubledOnlyIfCame
  LatestIsNewest
  GhPagesIsLatest
PROPERTIES
  ListingEnds
CHECK_DEADLOCK FALSE
