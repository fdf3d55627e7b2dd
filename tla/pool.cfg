SPECIFICATION FairSpec
CONSTANTS
  Coroutines = {c1, c2, c3}
  Main = Main
  Channels = {h1, h2, h3, h4}
  NoChannel = NoChannel
  MaxBatch = 4
  MaxPolls = 1
INVARIANTS
  TypeOK
  FreeCountExact
  OnePlace
  RunBarrier
PROPERTIES
  EventuallyHandled
  ImplementsEventBatch
