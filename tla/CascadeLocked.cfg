SPECIFICATION Spec
CONSTANTS
  Params <- MCParams
  ArcOf <- MCArcOf
  Weight0 <- MCWeight0
  Composed <- MCComposed
  Chain <- MCChain
  Locked1 <- MCLocked1
  Estimates <- MCEstimates
  Random <- MCRandom
  Options <- LockedSmoothed
INVARIANTS
  FixedKept
CHECK_DEADLOCK FALSE
