CONSTANTS
  Slots = 3
  Writers = {w1}
  Syncers = {}
  Sizes = {3}
  MaxCalls = 2
  Holes <- SecondChunks
  NoOne = NoOne
  Torn = Torn
  Passes = {1, 2}
  MaxFlushes = 1
  CardStopped = TRUE
SPECIFICATION FairFlushSpec
INVARIANTS
  WindowWritten
  NoOverrun
PROPERTY TimedWritesReturn
