SPECIFICATION FairSpec
CONSTANTS
  Nodes <- MCNodes
  Root = "R"
  Words = {"w", "v"}
  Forests <- MCForests
  Ks <- MCKs
  CostBound = 8
  DepthBound = 9
  NONE = NONE
  PENDING = PENDING
INVARIANTS
  StillBack
  OnePath
  BestFirst
PROPERTIES
  EnumerationEnds
