SPECIFICATION Spec
CONSTANTS
  Procs = {p, q}
  Jobs <- MCJobs
  Contents <- MCContents
  Files = {"f", "g"}
  Block = 2
SYMMETRY MCSymmetry
INVARIANTS TypeOK
PROPERTIES CopyKeepsItsWord CmpVerdict
CHECK_DEADLOCK FALSE
