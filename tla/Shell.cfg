SPECIFICATION FairSpec
CONSTANTS
  MAX_ARGS = 4
  Capacity = 2
  Wants <- MCWants
  Gives <- MCGives
  Lines <- MCLines
  WordLength = 2
  MaxLines = 3
INVARIANTS TypeOK ReadsItsPredecessor StartsClean
PROPERTIES HarmlessLineReturns
CHECK_DEADLOCK FALSE
