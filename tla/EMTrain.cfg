SPECIFICATION Spec
CONSTANTS
  W <- MCW
  Ppx <- MCPpx
  EM <- MCEM
  Inf = 99
  Corpora <- MixedCorpora
  Options <- TrainOptions
INVARIANTS
  CollectsUnderWeights
  BestReturned
  LowestReturned
  TotalCountsExamples
PROPERTIES
  Descends
  Terminates
