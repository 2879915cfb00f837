SPECIFICATION FairSpec
CONSTANTS
  Kinds = {"release", "package"}
  MaxVersion = 2
  MaxRuns = 1
  MaxTrouble = 1
INVARIANTS
  TypeOK
  OtherKindExplained
  DeadKeyExplained
PROPERTIES
  ReaderServed
