SPECIFICATION FetchSpec
CONSTANTS
  j1 = j1
  j2 = j2
  j3 = j3
  j4 = j4
  r1 = r1
  r2 = r2
  home = home
  guide = guide
  NoBody = NoBody
  Jobs <- FourJobs
  Shas <- Versions
  ShaOf <- VersionOfJob
  Via <- QueueOfJob
  KindOf <- KindOfVersion
  Bodies = {home, guide}
  Archives <- AllArchives
  ArchiveOf <- ArchiveOfVersion
  UnzipLimit = 2
  Requests <- TwoRequests
  AskedSha <- AskedVersion
  AskedFile <- AskedPath
INVARIANTS
  TypeOK
  MetadataComplete
  PublishedIsArchive
PROPERTIES
  KeepsSite
SYMMETRY JobSymmetry
CHECK_DEADLOCK FALSE
