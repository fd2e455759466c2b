SPECIFICATION Spec
CONSTANTS
  W <- MCW
  Ppx <- MCPpx
  EM <- MCEM
  Inf = 99
  Corpora <- GoodCorpora
  Options <- CachedOptions
INVARIANT
  TotalCountsExamples
