CONSTANTS
  N = 2
  Generated <- MCGenerated
SPECIFICATION FairSpec
INVARIANT EveryValueRight
