SPECIFICATION FairSpec
CONSTANTS
  Pages = {p1, p2, p3}
INVARIANTS
  TypeOK
  PageAtRestAgrees
PROPERTIES
  LoadFollowsChoice
  ButtonComesBack
