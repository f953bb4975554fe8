CONSTANTS
  N = 2
  Generated <- MCGenerated
SPECIFICATION FairSpec
INVARIANTS TypeOK StopNotMissed NothingLost AloneIsExact
PROPERTIES ImplementsStages Terminates
