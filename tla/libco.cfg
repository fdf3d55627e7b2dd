SPECIFICATION FairSpec
CONSTANTS
  a = a
  b = b
  c = c
  Coroutines = {a, b, c}
  Main = Main
  Attrs <- MCAttrs
  count = 1
  NoCo = NoCo
  Fds = {f}
  Dangling = Dangling
  iItemSize = 2
  eMaxTimeout = 1
  PollArgs <- MCPollArgs
  Waits <- MCWaits
  MaxLag = 1
  MaxBack = 1
INVARIANTS
  TypeOK
  StackIntact
  WaitersListed
  WokenForAReason
  RegisteredWhilePolled
PROPERTY
  EventuallyResumed
