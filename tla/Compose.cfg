SPECIFICATION ChainSpec
CONSTANTS
  Letters <- MCLetters
  IndexThreshold = 1
  PathBound = 3
  Inputs = {}
  Jobs <- MCJobs
INVARIANTS
  Worklist
  MadeOnce
  PathsOnce
  ChainsFit
PROPERTIES
  Ends
