CONSTANTS
  Producers = {p1, p2}
  Consumers = {c1, c2}
  NoThread = NoThread
  MaxItems = 2
  MaxSpurious = 1
SPECIFICATION FairSpec
INVARIANTS TypeOK MutexProtects NoLostWakeup
PROPERTIES ImplementsFifo Delivered
CHECK_DEADLOCK FALSE
