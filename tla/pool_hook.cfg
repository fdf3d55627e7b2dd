SPECIFICATION FairSpec
CONSTANTS
  Coroutines = {c1, c2}
  Main = Main
  Channels = {h1, h2, h3}
  NoChannel = NoChannel
  MaxBatch = 3
  MaxPolls = 1
INVARIANT
  HandlersAreHooked
