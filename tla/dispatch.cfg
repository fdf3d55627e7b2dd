SPECIFICATION FairSpec
CONSTANTS
  ThreadNums = {0, 2}
  Clients = {k1, k2, k3}
  Fds = {5, 6}
  NoClient = NoClient
  buff_slots = 1
INVARIANTS
  TypeOK
  NothingStranded
  AcceptedIsRegistered
PROPERTIES
  EventuallyNotified
  EventuallyAccepted
CHECK_DEADLOCK FALSE
