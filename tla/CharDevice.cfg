SPECIFICATION Spec
CONSTANTS
  Procs = {p, q}
  PAGE_SIZE = 4
  W = 2
  Keys <- MCKeys
  MaxCalls = 3
SYMMETRY MCSymmetry
INVARIANTS TypeOK StoredUnderKey NothingLeftBehind
CHECK_DEADLOCK FALSE
