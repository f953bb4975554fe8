CONSTANTS
  Clients = {a, b, c}
  Nobody = Nobody
  MAX_CLIENTS = 2
  BACKLOG = 2
  MaxUnread = 2
SPECIFICATION FairSpec
INVARIANTS TypeOK NoStaleDispatch SlotsMatch FdBound ExitsOnlyAfterDisconnect
PROPERTIES RefusedOnlyWhenFull NoSenderBlocked EveryClientAnswered
CHECK_DEADLOCK FALSE
