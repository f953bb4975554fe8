CONSTANTS
  Clients = {a, b, c}
  Nobody = Nobody
  MAX_CLIENTS = 2
  BACKLOG = 2
  MaxUnread = 2
SPECIFICATION FairSpec
INVARIANT ClientsStayConnected
CHECK_DEADLOCK FALSE
