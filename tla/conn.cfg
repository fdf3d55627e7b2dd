SPECIFICATION FairSpec
CONSTANTS
  Conns = {k1, k2}
  Fds = {5, 6}
  Requests <- MCRequests
  Pieces <- MCPieces
  BUFF = 26
  size = 2
  MaxSends = 2
  None = None
INVARIANTS
  TypeOK
  NothingUnread
  MmapSound
  OneTimer
  KeptAsAsked
PROPERTY
  EventuallyReleased
CHECK_DEADLOCK FALSE
