SPECIFICATION Spec
CONSTANTS
  Chunks = 3
  Capacity = 2
  NameLengths = {2, 8}
INVARIANT LostMeansLost
CHECK_DEADLOCK FALSE
