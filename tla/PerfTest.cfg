SPECIFICATION FairSpec
CONSTANTS
  Chunks = 3
  Capacity = 2
  NameLengths = {2, 8}
INVARIANTS TypeOK EqualIsTrue TransferWhole FailsOnlyUnframed KilledOnlyWhenCutShort
PROPERTIES ClientEnds FramedTestCompletes
CHECK_DEADLOCK FALSE
