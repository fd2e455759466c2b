SPECIFICATION Spec
CONSTANTS
  Eps = "*e*"
  Tasks <- MCTasks
  Weights <- MCWeights
  MaxPasses = 3
  MaxPath = 5
  Unsigned = 8
INVARIANTS
  HoldsAll
  CountsOfPass
  RecallsExample
CHECK_DEADLOCK FALSE
