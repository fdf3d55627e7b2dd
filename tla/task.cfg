SPECIFICATION FairSpec
CONSTANTS
  Producers = {p1, p2}
  Consumers = {w1, w2}
  Swapper = Swapper
  Tasks = {x1, x2, x3}
  NoThread = NoThread
  max_task_num = 1
  MaxBatch = 2
INVARIANTS
  TypeOK
  CapacityKept
PROPERTIES
  ImplementsFifoChannel
  EventuallyTaken
CHECK_DEADLOCK FALSE
