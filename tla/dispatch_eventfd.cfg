SPECIFICATION Spec
CONSTANTS
  ThreadNums = {2}
  Clients = {k1, k2, k3}
  Fds = {5, 6}
  NoClient = NoClient
  buff_slots = 2
INVARIANT
  NotifiedIsConnection
CHECK_DEADLOCK FALSE
