SPECIFICATION Spec
CONSTANTS
  NParam = 4
  NBlock = 1
  NGroup = 2
  NScale = 1
  Norm <- MCNorm
  Metanorm <- MCMetanorm
  Prior0 <- MCPrior0
  Weight <- OneWeight
  Deriv <- OneBlockDeriv
  Ratio <- MCRatio
  Options <- StartsOptions
  Prob = {1, 2}
INVARIANTS
  PastNotAsked
PROPERTIES
  SelectsBest
