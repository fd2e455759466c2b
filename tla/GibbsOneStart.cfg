SPECIFICATION Spec
CONSTANTS
  NParam = 4
  NBlock = 2
  NGroup = 2
  NScale = 1
  Norm <- MCNorm
  Metanorm <- MCMetanorm
  Prior0 <- MCPrior0
  Weight <- MCWeight
  Deriv <- MCDeriv
  Ratio <- MCRatio
  Options <- OneStartOptions
  Prob = {1}
INVARIANTS
  CountsExplained
  NormsAgree
  AverageExact
  CacheCoherent
  ScaleTracked
PROPERTIES
  Terminates
