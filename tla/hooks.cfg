SPECIFICATION FairHookSpec
CONSTANTS
  Callers = {a, b}
  Sockets = {3}
  Cap = 2
  nbyte = 3
  None = None
INVARIANTS
  NeverBlocksManaged
  WritesAccounted
PROPERTY
  EventuallyReturns
