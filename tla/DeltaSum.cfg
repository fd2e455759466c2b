SPECIFICATION SignalSpec
CONSTANTS
  Horizon = 3
  Limit = 2
  Change <- MCChange
INVARIANTS
  IntegralExact
