SPECIFICATION FairSpec
CONSTANTS
  Streams <- MCStreams
  Capacity = 6
  Fixed = 1
INVARIANTS
  StoredInOrder
PROPERTIES
  SeesAll
  ScansEnd
CHECK_DEADLOCK FALSE
