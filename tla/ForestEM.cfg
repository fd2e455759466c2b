SPECIFICATION Spec
CONSTANTS
  EMOptions <- MCOptions
  MaxRate = 4
  Rules <- MCRules
  Corpora <- MCCorpora
  Random <- MCRandom
  Proposals <- MCProposals
  AddOneLimit <- Half
INVARIANTS
  CountsExact
  Ascends
  ViterbiBest
  SamplesExact
  BestRestored
CHECK_DEADLOCK FALSE
