SPECIFICATION FairSpec
CONSTANTS
  Pieces = 2
  MaxLines = 2
  MaxSessions = 2
  MaxSaid = 6
INVARIANTS TypeOK NeverBothWait
PROPERTIES ImplementsChannels EveryLineShown
CHECK_DEADLOCK FALSE
