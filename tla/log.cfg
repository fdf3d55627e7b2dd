SPECIFICATION FairSpec
CONSTANTS
  Loggers = {l1, l2}
  Writer = Writer
  Swapper = Swapper
  Messages = {m1, m2, m3}
  NoThread = NoThread
  NoMessage = NoMessage
INVARIANTS
  TypeOK
  NoLostWakeup
PROPERTIES
  ImplementsFifoChannel
  EventuallyWritten
CHECK_DEADLOCK FALSE
